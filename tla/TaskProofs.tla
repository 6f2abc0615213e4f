------------------------------ MODULE TaskProofs ------------------------------
(***************************************************************************)
(* Proofs about the tasks: Scheduler, for every number of tasks, every     *)
(* length of stdin and any number of keys, and the lines that they print   *)
(* through Logger, for every program of any number of tasks, every size of *)
(* the buffer and of the numerals.                                         *)
(***************************************************************************)
EXTENDS Scheduler, Logger, WellFoundedInduction, TLAPS

-----------------------------------------------------------------------------
\* Scheduler
-----------------------------------------------------------------------------
\* Places of kernel_main before the keyboard is unmasked, and with tasks.
Early == {"log", "print", "unmask"}
Prepared == {"add", "slab", "beyond", "start", "wait"}

\* The scheduler's variables: the current task is the n-th in today's
\* storage, and whoever runs is it; kernel_main, if there is none.
SchedInv ==
  /\ regs \in [who : {Main} \cup Task, at : Booting \cup Running]
  /\ tasks \in Seq(Context) /\ store \in Nat /\ n \in Nat
  /\ \A k \in DOMAIN tasks : tasks[k].who = k
  /\ IF currentTask = NullPtr
     THEN n = 0 /\ regs.who = Main
     ELSE /\ currentTask = [store |-> store, index |-> n]
          /\ n \in DOMAIN tasks /\ (lost \/ regs.who = n)

\* kernel_main's position: where it holds the console, where the keyboard is
\* unmasked, and where there may be tasks.
BootInv ==
  /\ regs.who = Main => regs.at \in Booting
  /\ regs.who = Main => (unmasked <=> regs.at \notin Early)
  /\ regs.who = Main => (ready <=> regs.at \in Prepared)
  /\ regs.who # Main => unmasked /\ ready /\ regs.at \in Running
  /\ tasks # <<>> => ready
  /\ regs.who = Main /\ regs.at \notin {"start", "wait"} => Len(tasks) < NTasks
  /\ console \in {Nobody, "print", "slab"}
  /\ console = "print" => regs.who = Main /\ regs.at = "print"
  /\ regs.at = "beyond" => lost

\* The keyboard: interrupts come only when it is unmasked.
KeyInv == /\ pending \subseteq {"timer", "keyboard"}
          /\ "keyboard" \in pending \/ handling => unmasked
          /\ KeyboardNeverStalls

IInv == SchedInv /\ BootInv /\ KeyInv /\ LostOnlyIf

-----------------------------------------------------------------------------
\* The invariant holds before kernel_main's last steps.
LEMMA IInvInit == Init => IInv
  BY SchedulerAssumption DEF Init, IInv, SchedInv, BootInv, KeyInv, LostOnlyIf, KeyboardNeverStalls,
         Drained, Main, Booting, Early, Prepared, Context, Nobody

\* schedule() chooses a task there is.
LEMMA NextTaskIn ==
  ASSUME SchedInv, tasks # <<>>
  PROVE  NextTask \in DOMAIN tasks /\ NextTask \in Nat \ {0}
  BY DEF SchedInv, NextTask

\* save() keeps the tasks' registers their own, and the saved one can go on.
LEMMA SavedOwn ==
  ASSUME SchedInv, ~lost, BootInv
  PROVE  /\ Saved \in Seq(Context) /\ DOMAIN Saved = DOMAIN tasks /\ Len(Saved) = Len(tasks)
         /\ \A k \in DOMAIN tasks : Saved[k].who = k
         /\ \A k \in DOMAIN tasks : ~Saved[k].ok => ~tasks[k].ok
<1>1. CASE currentTask = NullPtr
  BY <1>1 DEF Saved, SchedInv
<1>2. CASE currentTask # NullPtr
  <2>1. [who |-> regs.who, at |-> regs.at, ok |-> TRUE] \in Context
    <3>1. regs.who = n /\ n \in Nat \ {0}
      BY <1>2 DEF SchedInv
    <3> QED BY <3>1, SchedulerAssumption DEF SchedInv, BootInv, Context, Task, Main
  <2>2. Saved = [tasks EXCEPT ![n] = [who |-> regs.who, at |-> regs.at, ok |-> TRUE]]
    <3>1. currentTask.index = n
        BY <1>2 DEF SchedInv
    <3> QED BY <1>2, <3>1 DEF Saved
  <2> QED BY <1>2, <2>1, <2>2 DEF SchedInv
<1> QED BY <1>1, <1>2

\* What a sequence is after push().
LEMMA SeqAppended ==
  ASSUME NEW S, NEW s \in Seq(S), NEW e \in S
  PROVE  /\ Append(s, e) \in Seq(S)
         /\ Append(s, e) # <<>>
         /\ \A k \in DOMAIN Append(s, e) : \/ k \in DOMAIN s /\ Append(s, e)[k] = s[k]
                                           \/ k = Len(s) + 1 /\ Append(s, e)[k] = e
<1>1. Append(s, e) \in Seq(S) /\ Len(Append(s, e)) = Len(s) + 1
  OBVIOUS
<1>2. Append(s, e) # <<>>
  <2>1. Len(s) \in Nat /\ Len(<<>>) = 0
    OBVIOUS
  <2> QED BY <1>1, <2>1
<1>3. ASSUME NEW k \in DOMAIN Append(s, e)
      PROVE  \/ k \in DOMAIN s /\ Append(s, e)[k] = s[k]
             \/ k = Len(s) + 1 /\ Append(s, e)[k] = e
  OBVIOUS
<1> QED BY <1>1, <1>2, <1>3

\* push() keeps it, whether it made a slab or not.
LEMMA PushStep ==
  ASSUME IInv, Executes(Main, "add") \/ Executes(Main, "slab"), Pushed, console' \in {console, Nobody}
  PROVE  IInv'
<1> USE SchedulerAssumption DEF IInv, SchedInv, BootInv, KeyInv, LostOnlyIf,
        KeyboardNeverStalls, Drained, Main, Task, Booting, Early, Prepared, Executes, GoTo, Nobody
<1>1. /\ ~lost /\ ~handling /\ regs.who = Main /\ regs.at \in {"add", "slab"}
      /\ currentTask = NullPtr /\ n = 0 /\ Len(tasks) \in Nat
  OBVIOUS
<1>2. PICK ok \in BOOLEAN :
        tasks' = Append(tasks, [who |-> Len(tasks) + 1, at |-> "lock", ok |-> ok])
  BY DEF Pushed
<1>3. /\ regs' = [regs EXCEPT !.at = IF Len(tasks) + 1 = NTasks THEN "start" ELSE "add"]
      /\ store' \in Nat
      /\ UNCHANGED <<currentTask, n, ready, pending, unmasked, full, edge, handling,
                     stdin_index, lost>>
  BY <1>1 DEF Pushed, Grown, keyboard
<1>4. Len(tasks) + 1 \in Task
  BY <1>1
<1>5. [who |-> Len(tasks) + 1, at |-> "lock", ok |-> ok] \in Context
  BY <1>4 DEF Context, Running
<1>6. /\ tasks' \in Seq(Context) /\ tasks' # <<>>
      /\ \A k \in DOMAIN tasks' : tasks'[k].who = k
  <2> DEFINE e == [who |-> Len(tasks) + 1, at |-> "lock", ok |-> ok]
  <2>1. tasks \in Seq(Context) /\ \A k \in DOMAIN tasks : tasks[k].who = k
    OBVIOUS
  <2>2. e \in Context /\ e.who = Len(tasks) + 1 /\ tasks' = Append(tasks, e)
    BY <1>2, <1>5
  <2> HIDE DEF e, IInv, SchedInv, BootInv, KeyInv, LostOnlyIf
  <2> QED BY <2>1, <2>2, SeqAppended
<1>7. regs' \in [who : {Main} \cup Task, at : Booting \cup Running]
  BY <1>1, <1>3
<1>8. regs'.who = Main /\ regs'.at \in {"start", "add"}
  BY <1>1, <1>3
<1>9. regs'.at \notin {"start", "wait"} => Len(tasks') < NTasks
  BY <1>1, <1>2, <1>3
<1>10. console' # "print"
  BY <1>1
<1>11. SchedInv'
  BY <1>1, <1>3, <1>6, <1>7, <1>8
<1>12. BootInv'
  BY <1>1, <1>3, <1>6, <1>8, <1>9, <1>10
<1>13. KeyInv' /\ LostOnlyIf'
  BY <1>1, <1>3
<1> QED BY <1>11, <1>12, <1>13

\* kernel_main keeps it: it is the only code there is until the first tick.
LEMMA MainStep == IInv /\ KernelMain => IInv'
<1> SUFFICES ASSUME IInv, KernelMain PROVE IInv'
  OBVIOUS
<1> USE SchedulerAssumption DEF IInv, SchedInv, BootInv, KeyInv, LostOnlyIf,
        KeyboardNeverStalls, Drained, Main, Task, Booting, Early, Prepared, Executes, GoTo,
        sched, keyboard, Nobody
<1>1. CASE Log
  BY <1>1 DEF Log
<1>2. CASE Logged
  BY <1>2 DEF Logged
<1>3. CASE Unmask
  BY <1>3 DEF Unmask
<1>4. CASE ReadStatus
  BY <1>4 DEF ReadStatus
<1>5. CASE ReadData
  BY <1>5 DEF ReadData
<1>6. CASE InitScheduler
  BY <1>6 DEF InitScheduler
<1>7. CASE AddTask
  BY <1>7, PushStep DEF AddTask
<1>8. CASE MakeSlab
  BY <1>8 DEF MakeSlab
<1>9. CASE SlabMade
  BY <1>9, PushStep DEF SlabMade
<1>10. CASE AddBeyond
  BY <1>10 DEF AddBeyond
<1>11. CASE Start
  BY <1>11 DEF Start
<1> HIDE DEF IInv
<1> QED BY <1>1, <1>2, <1>3, <1>4, <1>5, <1>6, <1>7, <1>8, <1>9, <1>10, <1>11 DEF KernelMain

\* A task that prints keeps it.
LEMMA PrintStep == IInv /\ (\E t \in Task : PrintLine(t)) => IInv'
<1> SUFFICES ASSUME IInv, NEW t \in Task, PrintLine(t) PROVE IInv'
  OBVIOUS
<1> USE SchedulerAssumption DEF IInv, SchedInv, BootInv, KeyInv, LostOnlyIf,
        KeyboardNeverStalls, Drained, Main, Task, Running, Executes, GoTo, sched, keyboard
<1>1. CASE Ticket(t)
  BY <1>1 DEF Ticket
<1>2. CASE Served(t)
  BY <1>2 DEF Served
<1>3. CASE Send(t)
  BY <1>3 DEF Send
<1> HIDE DEF IInv
<1> QED BY <1>1, <1>2, <1>3 DEF PrintLine

\* A tick keeps it: it saves the task that ran and loads another's registers.
LEMMA TimerStep == IInv /\ TimerIrq => IInv'
<1> SUFFICES ASSUME IInv, TimerIrq PROVE IInv'
  OBVIOUS
<1> DEFINE next == Saved[NextTask]
<1>1. ~lost /\ ready /\ tasks # <<>> /\ Resume(next)
  BY DEF TimerIrq, Interrupted, NothingToRun
<1>2. /\ NextTask \in DOMAIN tasks /\ NextTask \in Nat \ {0}
      /\ Saved \in Seq(Context) /\ DOMAIN Saved = DOMAIN tasks /\ Len(Saved) = Len(tasks)
      /\ \A k \in DOMAIN tasks : Saved[k].who = k
      /\ \A k \in DOMAIN tasks : ~Saved[k].ok => ~tasks[k].ok
  BY <1>1, NextTaskIn, SavedOwn DEF IInv
<1>3. next \in Context /\ next.who = NextTask
  BY <1>2
<1>4. \/ next.ok /\ regs' = [who |-> NextTask, at |-> next.at] /\ lost' = FALSE
      \/ ~next.ok /\ regs' = [who |-> NextTask, at |-> "panic"] /\ lost' = FALSE
      \/ ~next.ok /\ lost' = TRUE /\ regs' = regs
  BY <1>1, <1>3 DEF Resume
<1>5. /\ tasks' = Saved /\ n' = NextTask /\ store' = store
      /\ currentTask' = [store |-> store, index |-> NextTask]
      /\ pending' = pending \ {"timer"}
      /\ UNCHANGED <<ready, console, unmasked, full, edge, handling, stdin_index>>
  BY DEF TimerIrq, keyboard
<1>6. SchedInv'
  <2>1. regs' \in [who : {Main} \cup Task, at : Booting \cup Running]
    BY <1>3, <1>4 DEF Context, IInv, SchedInv, Running
  <2>2. currentTask' # NullPtr
    BY <1>2, <1>5 DEF NullPtr
  <2>3. lost' \/ regs'.who = n'
    BY <1>4, <1>5
  <2> QED BY <1>2, <1>5, <2>1, <2>2, <2>3 DEF IInv, SchedInv
<1>7. BootInv'
  <2>1. unmasked /\ console \in {Nobody, "slab"} /\ console # "print"
    BY <1>1 DEF IInv, BootInv, Prepared, Early, Nobody
  <2>2. CASE lost'
    BY <1>1, <1>2, <1>4, <1>5, <2>1, <2>2 DEF IInv, BootInv
  <2>3. CASE ~lost'
    <3>1. regs'.who # Main /\ regs'.at \in Running
      BY <1>2, <1>3, <1>4, <2>3 DEF Context, Main, Running
    <3> QED BY <1>1, <1>5, <2>1, <3>1 DEF BootInv, Running
  <2> QED BY <2>2, <2>3
<1>8. KeyInv'
  <2>1. Drained
    BY <1>1 DEF IInv, BootInv, SchedInv, Drained, Prepared
  <2> QED BY <1>5, <1>1, <2>1 DEF IInv, KeyInv, KeyboardNeverStalls
<1>9. LostOnlyIf'
  BY <1>2, <1>4, <1>5 DEF LostOnlyIf
<1> QED BY <1>6, <1>7, <1>8, <1>9 DEF IInv

\* So do the devices and the keyboard's handler, which leave the tasks alone.
LEMMA DeviceStep ==
  IInv /\ (TimerExpires \/ TimerIrqLost \/ KeyPressed \/ EdgeArrives \/ KeyboardIrq \/ HandleInput)
    => IInv'
<1> SUFFICES ASSUME IInv, TimerExpires \/ TimerIrqLost \/ KeyPressed \/ EdgeArrives
                            \/ KeyboardIrq \/ HandleInput
             PROVE  IInv'
  OBVIOUS
<1>1. UNCHANGED <<regs, tasks, store, currentTask, n, ready, console>>
  BY DEF TimerExpires, TimerIrqLost, KeyPressed, EdgeArrives, KeyboardIrq, HandleInput, sched
<1>2. UNCHANGED unmasked /\ (lost => lost')
  BY DEF TimerExpires, TimerIrqLost, KeyPressed, EdgeArrives, KeyboardIrq, HandleInput,
         keyboard, Interrupted
<1>3. SchedInv' /\ BootInv'
  BY <1>1, <1>2 DEF IInv, SchedInv, BootInv
<1>4. Drained' = Drained
  BY <1>1 DEF Drained
<1> USE DEF KeyInv, KeyboardNeverStalls, Interrupted, IInv
<1>5. KeyInv'
  <2>1. CASE TimerExpires
    BY <1>4, <2>1 DEF TimerExpires, keyboard
  <2>2. CASE TimerIrqLost
    BY <1>4, <2>2 DEF TimerIrqLost, keyboard
  <2>3. CASE KeyPressed
    BY <1>4, <2>3 DEF KeyPressed
  <2>4. CASE EdgeArrives
    <3>1. Drained => unmasked
      <4>1. CASE regs.who = Main
        <5>1. currentTask = NullPtr
          BY <2>4, <4>1 DEF EdgeArrives, SchedInv, Main
        <5> QED BY <4>1, <5>1 DEF Drained, BootInv, Early
      <4>2. CASE regs.who # Main
        BY <4>2 DEF BootInv
      <4> QED BY <4>1, <4>2
    <3> QED BY <1>4, <2>4, <3>1 DEF EdgeArrives
  <2>5. CASE KeyboardIrq
    BY <1>4, <2>5 DEF KeyboardIrq
  <2>6. CASE HandleInput
    BY <1>4, <2>6 DEF HandleInput
  <2> QED BY <2>1, <2>2, <2>3, <2>4, <2>5, <2>6
<1>6. LostOnlyIf'
  <2> USE DEF LostOnlyIf
  <2>1. CASE TimerIrqLost
    <3>1. currentTask # NullPtr => currentTask.store = store
      BY DEF SchedInv
    <3>2. tasks = <<>>
      BY <2>1, <3>1 DEF TimerIrqLost, NothingToRun, BootInv
    <3> QED BY <1>1, <3>2
  <2>2. CASE HandleInput
    BY <1>1, <2>2 DEF HandleInput
  <2>3. CASE TimerExpires \/ KeyPressed \/ EdgeArrives \/ KeyboardIrq
    BY <1>1, <2>3 DEF TimerExpires, KeyPressed, EdgeArrives, KeyboardIrq, keyboard
  <2> QED BY <2>1, <2>2, <2>3
<1> QED BY <1>3, <1>5, <1>6

\* The scheduler's invariant holds in every state.
LEMMA IInvHolds == Spec => []IInv
<1>1. IInv /\ [Next]_vars => IInv'
  <2> SUFFICES ASSUME IInv, [Next]_vars PROVE IInv'
    OBVIOUS
  <2>1. CASE UNCHANGED vars
    BY <2>1 DEF vars, IInv, SchedInv, BootInv, KeyInv, LostOnlyIf, KeyboardNeverStalls, Drained
  <2>2. CASE Next
    <3>1. CASE Done
      BY <2>1, <3>1 DEF Done
    <3> QED BY <2>2, <3>1, MainStep, PrintStep, TimerStep, DeviceStep DEF Next
  <2> QED BY <2>1, <2>2
<1> QED BY <1>1, IInvInit, PTL DEF Spec

\* For every number of tasks: what is saved in a task is the task's own, and
\* the code that runs is the current task's (timer.cpp:24-34).
THEOREM RegistersStayOwn == Spec => []OwnContext
<1>1. IInv => OwnContext
  BY DEF IInv, SchedInv, OwnContext
<1> QED BY <1>1, IInvHolds, PTL

\* The only line whose console the keyboard's handler may wait for in vain is
\* that of a slab made for a task (ps2.cpp:101-132, console.cpp:98-103,
\* slab.hpp:217).
THEOREM HandlerNeverWaits == Spec => []HandlerMayLock
<1>1. IInv => HandlerMayLock
  BY DEF IInv, KeyInv, BootInv, SchedInv, HandlerMayLock, Early
<1> QED BY <1>1, IInvHolds, PTL

\* After ps2::init() a scancode in the controller has its interrupt on the way
\* (ps2.cpp:141-151).
THEOREM KeyboardLives == Spec => []KeyboardNeverStalls
<1>1. IInv => KeyboardNeverStalls
  BY DEF IInv, KeyInv
<1> QED BY <1>1, IInvHolds, PTL

\* The current task's address is never stale, nor anything else but the named
\* causes the end of the system (scheduler.hpp:20-32).
THEOREM OnlyNamedCauses == Spec => []LostOnlyIf
<1>1. IInv => LostOnlyIf
  BY DEF IInv
<1> QED BY <1>1, IInvHolds, PTL

-----------------------------------------------------------------------------
\* Logger: induction and recursion over numbers
-----------------------------------------------------------------------------
\* A set of numbers has a least one.
LEMMA LeastNumber ==
  ASSUME NEW S \in SUBSET Nat, S # {}
  PROVE  \E x \in S : \A y \in S : x <= y
<1>1. PICK x \in S : \A y \in S : ~(<<y, x>> \in OpToRel(<, Nat))
  BY NatLessThanWellFounded, WFMin
<1>2. ASSUME NEW y \in S PROVE x <= y
  <2>1. ~(y < x)
    BY <1>1 DEF OpToRel
  <2> QED BY <2>1
<1> QED BY <1>2

\* What holds of 0 and goes from a number to the next holds up to N.
LEMMA SetInduction ==
  ASSUME NEW N \in Nat, NEW S, 0 \in S, \A i \in 0 .. (N - 1) : i \in S => i + 1 \in S
  PROVE  \A i \in 0 .. N : i \in S
<1> SUFFICES ASSUME NEW z \in 0 .. N, z \notin S PROVE FALSE
  OBVIOUS
<1>1. PICK x \in { i \in 0 .. N : i \notin S } : \A y \in { i \in 0 .. N : i \notin S } : x <= y
  <2>1. /\ { i \in 0 .. N : i \notin S } \in SUBSET Nat
        /\ z \in { i \in 0 .. N : i \notin S }
    OBVIOUS
  <2> QED BY <2>1, LeastNumber
<1>2. x # 0 /\ x - 1 \in 0 .. (N - 1) /\ (x - 1) + 1 = x
  BY <1>1
<1>3. x - 1 \in S
  BY <1>1, <1>2
<1> QED BY <1>1, <1>2, <1>3

\* A recursion over the numbers up to N has its values.
Follows(N, V) == [V \X (1 .. N) -> V]
Computed(f, N, V, b, go) == /\ f \in [0 .. N -> V] /\ f[0] = b
                            /\ \A t \in 1 .. N : f[t] = go[<<f[t - 1], t>>]

\* Such a recursion has a function.
LEMMA Recursion ==
  ASSUME NEW N \in Nat, NEW V, NEW b \in V, NEW go \in Follows(N, V)
  PROVE  \E f : Computed(f, N, V, b, go)
<1> DEFINE Good(i, f) == Computed(f, i, V, b, go)
           S == { i \in 0 .. N : \E f \in [0 .. i -> V] : Good(i, f) }
<1>1. 0 \in S
  <2>1. Good(0, [t \in 0 .. 0 |-> b])
    BY DEF Computed
  <2>2. 0 \in 0 .. N /\ [t \in 0 .. 0 |-> b] \in [0 .. 0 -> V]
    OBVIOUS
  <2> HIDE DEF Good
  <2> QED BY <2>1, <2>2
<1>2. ASSUME NEW i \in 0 .. (N - 1), i \in S PROVE i + 1 \in S
  <2>1. PICK f \in [0 .. i -> V] : Good(i, f)
    BY <1>2
  <2> DEFINE g == [t \in 0 .. (i + 1) |-> IF t = i + 1 THEN go[<<f[i], i + 1>>] ELSE f[t]]
  <2>2. f[i] \in V /\ <<f[i], i + 1>> \in V \X (1 .. N)
    BY <2>1
  <2>3. go[<<f[i], i + 1>>] \in V
    BY <2>2 DEF Follows
  <2>4. g \in [0 .. (i + 1) -> V]
    BY <2>1, <2>3
  <2>5. g[0] = b
    BY <2>1 DEF Computed
  <2>6. ASSUME NEW t \in 1 .. (i + 1) PROVE g[t] = go[<<g[t - 1], t>>]
    <3>1. CASE t = i + 1
      <4>1. g[t] = go[<<f[i], i + 1>>] /\ g[t - 1] = f[i]
        BY <3>1
      <4> QED BY <3>1, <4>1
    <3>2. CASE t # i + 1
      <4>1. t \in 1 .. i /\ t - 1 \in 0 .. i
        BY <3>2
      <4>2. g[t] = f[t] /\ g[t - 1] = f[t - 1]
        BY <3>2, <4>1
      <4> QED BY <2>1, <4>1, <4>2 DEF Computed
    <3> QED BY <3>1, <3>2
  <2>7. Good(i + 1, g)
    BY <2>4, <2>5, <2>6 DEF Computed
  <2> HIDE DEF Good, g
  <2> QED BY <2>4, <2>7
<1>3. N \in S
  <2> HIDE DEF S
  <2> QED BY <1>1, <1>2, SetInduction
<1> QED BY <1>3

-----------------------------------------------------------------------------
\* Sums
LEMMA SumsAre ==
  ASSUME NEW m \in Nat, NEW f \in [1 .. m -> Nat]
  PROVE  /\ Sums(f) \in [0 .. m -> Nat] /\ Sums(f)[0] = 0
         /\ \A t \in 1 .. m : Sums(f)[t] = Sums(f)[t - 1] + f[t]
<1> DEFINE go == [x \in Nat \X (1 .. m) |-> x[1] + f[x[2]]]
           g == Sums(f)
<1>1. go \in Follows(m, Nat)
  BY DEF Follows
<1>2. PICK h : Computed(h, m, Nat, 0, go)
  <2> HIDE DEF go
  <2> QED BY <1>1, Recursion
<1>3. ASSUME NEW t \in 1 .. m PROVE h[t] = h[t - 1] + f[t]
  <2>1. t - 1 \in 0 .. m
    OBVIOUS
  <2>2. <<h[t - 1], t>> \in Nat \X (1 .. m)
    BY <1>2, <2>1 DEF Computed
  <2>3. go[<<h[t - 1], t>>] = h[t - 1] + f[t]
    BY <2>2
  <2> HIDE DEF go
  <2> QED BY <1>2, <2>3 DEF Computed
<1>4. h = [k \in 0 .. m |-> IF k = 0 THEN 0 ELSE h[k - 1] + f[k]]
  BY <1>2, <1>3 DEF Computed
<1>5. Len(f) = m
  OBVIOUS
<1>6. g = h
  <2>1. g = [k \in 0 .. m |-> IF k = 0 THEN 0 ELSE g[k - 1] + f[k]]
    <3>1. h = [k \in 0 .. Len(f) |-> IF k = 0 THEN 0 ELSE h[k - 1] + f[k]]
      BY Zenon, <1>4, <1>5
    <3>2. Sums(f) = [k \in 0 .. Len(f) |-> IF k = 0 THEN 0 ELSE Sums(f)[k - 1] + f[k]]
      BY Zenon, <3>1 DEF Sums
    <3> QED BY Zenon, <1>5, <3>2
  <2> HIDE DEF g
  <2> DEFINE S == { i \in 0 .. m : g[i] = h[i] }
  <2>2. 0 \in S
    BY <1>4, <2>1
  <2>3. ASSUME NEW i \in 0 .. (m - 1), i \in S PROVE i + 1 \in S
    <3>1. i + 1 \in 0 .. m /\ i + 1 # 0 /\ (i + 1) - 1 = i
      OBVIOUS
    <3>2. g[i + 1] = g[i] + f[i + 1] /\ h[i + 1] = h[i] + f[i + 1]
      BY <1>4, <2>1, <3>1
    <3> QED BY <2>3, <3>1, <3>2
  <2> HIDE DEF S
  <2>4. \A i \in 0 .. m : i \in S
    BY <2>2, <2>3, SetInduction
  <2> QED BY <1>4, <2>1, <2>4 DEF S
<1> HIDE DEF g
<1> QED BY <1>2, <1>3, <1>6 DEF Computed, g

\* What is more by d at w is more by d in the sum, from w on.
More(f, g, m, w, d) == \A k \in 1 .. m : f[k] + (IF k = w THEN d ELSE 0) <= g[k]

\* Sums of more are more.
LEMMA SumsGrow ==
  ASSUME NEW m \in Nat, NEW f \in [1 .. m -> Nat], NEW g \in [1 .. m -> Nat], NEW w \in Nat \ {0}, NEW d \in Nat,
         More(f, g, m, w, d)
  PROVE  Sums(f)[m] + (IF w <= m THEN d ELSE 0) <= Sums(g)[m]
<1> DEFINE a == Sums(f)
           b == Sums(g)
           S == { t \in 0 .. m : a[t] + (IF w <= t THEN d ELSE 0) <= b[t] }
<1>1. /\ a \in [0 .. m -> Nat] /\ a[0] = 0 /\ \A t \in 1 .. m : a[t] = a[t - 1] + f[t]
      /\ b \in [0 .. m -> Nat] /\ b[0] = 0 /\ \A t \in 1 .. m : b[t] = b[t - 1] + g[t]
  BY SumsAre
<1> HIDE DEF a, b
<1>2. 0 \in S
  BY <1>1
<1>3. ASSUME NEW i \in 0 .. (m - 1), i \in S PROVE i + 1 \in S
  <2>1. i + 1 \in 1 .. m /\ i + 1 \in 0 .. m /\ (i + 1) - 1 = i /\ i \in 0 .. m
    OBVIOUS
  <2>2. a[i + 1] = a[i] + f[i + 1] /\ b[i + 1] = b[i] + g[i + 1]
    BY <1>1, <2>1
  <2>3. /\ a[i] \in Nat /\ b[i] \in Nat /\ f[i + 1] \in Nat /\ g[i + 1] \in Nat
        /\ a[i] + (IF w <= i THEN d ELSE 0) <= b[i]
        /\ f[i + 1] + (IF i + 1 = w THEN d ELSE 0) <= g[i + 1]
    BY <1>1, <1>3, <2>1 DEF More
  <2>4. a[i + 1] + (IF w <= i + 1 THEN d ELSE 0) <= b[i + 1]
    <3>1. PICK x, y, p, q, c, e : /\ x = a[i] /\ y = b[i] /\ p = f[i + 1] /\ q = g[i + 1]
                                  /\ c = (IF w <= i THEN d ELSE 0) /\ e = IF i + 1 = w THEN d ELSE 0
      OBVIOUS
    <3>2. (IF w <= i + 1 THEN d ELSE 0) = c + e /\ c \in Nat /\ e \in Nat
      BY <2>1, <3>1
    <3>3. x \in Nat /\ y \in Nat /\ p \in Nat /\ q \in Nat /\ x + c <= y /\ p + e <= q
      BY <2>3, <3>1
    <3>4. (x + p) + (c + e) <= y + q
      BY <3>2, <3>3
    <3> QED BY <2>2, <3>1, <3>2, <3>4
  <2> QED BY <2>1, <2>4
<1>4. \A t \in 0 .. m : t \in S
  <2> HIDE DEF S
  <2> QED BY <1>2, <1>3, SetInduction
<1> QED BY <1>4, m \in 0 .. m DEF a, b

-----------------------------------------------------------------------------
\* Formatting

\* The numbers are divided by a whole and a rest (KernelSpaceProofs has the
\* same for addresses).
LEMMA Quotient ==
  ASSUME NEW p \in Nat \ {0}, NEW q \in Nat, NEW r \in 0 .. (p - 1)
  PROVE  (p * q + r) \div p = q /\ (p * q + r) % p = r
<1> DEFINE x == p * q + r
<1>1. x \in Nat /\ x = p * (x \div p) + (x % p) /\ x % p \in 0 .. (p - 1) /\ x \div p \in Nat
  <2>1. p * q \in Nat
    OBVIOUS
  <2>2. x \in Nat
    BY <2>1
  <2> HIDE DEF x
  <2> QED BY <2>2
<1> DEFINE y == x \div p
           z == x % p
<1>2. y \in Nat /\ z \in 0 .. (p - 1) /\ p * y + z = p * q + r
  BY <1>1
<1> HIDE DEF x, y, z
<1>3. p * (y - q) = r - z
  BY <1>2
<1>4. ~(y - q >= 1)
  <2> SUFFICES ASSUME y - q >= 1 PROVE FALSE
    OBVIOUS
  <2>1. p * (y - q) >= p
    BY <1>2
  <2> QED BY <1>2, <1>3, <2>1
<1>5. ~(q - y >= 1)
  <2> SUFFICES ASSUME q - y >= 1 PROVE FALSE
    OBVIOUS
  <2>1. p * (q - y) >= p
    BY <1>2
  <2>2. p * (q - y) = z - r
    BY <1>2
  <2> QED BY <1>2, <2>1, <2>2
<1>6. y = q
  BY <1>2, <1>4, <1>5
<1>7. z = r
  BY <1>2, <1>3, <1>6
<1> QED BY <1>6, <1>7 DEF x, y, z

\* A number is its quotient and its rest.
LEMMA Division ==
  ASSUME NEW p \in Nat \ {0}, NEW x \in Nat
  PROVE  x \div p \in Nat /\ x % p \in 0 .. (p - 1) /\ x = p * (x \div p) + (x % p)
OBVIOUS

\* Dividing twice is dividing by the product.
LEMMA DivideTwice ==
  ASSUME NEW a \in Nat \ {0}, NEW b \in Nat \ {0}, NEW x \in Nat
  PROVE  (x \div a) \div b = x \div (a * b)
<1> DEFINE y == x \div a
           r == x % a
           z == y \div b
           s == y % b
<1>1. y \in Nat /\ r \in 0 .. (a - 1) /\ x = a * y + r
  BY Division
<1> HIDE DEF y, r
<1>2. z \in Nat /\ s \in 0 .. (b - 1) /\ y = b * z + s
  BY <1>1, Division
<1> HIDE DEF z, s
<1>3. a * b \in Nat \ {0}
  OBVIOUS
<1>4. a * s + r \in 0 .. (a * b - 1)
  <2>1. a * s <= a * (b - 1)
    BY <1>2
  <2>2. a * (b - 1) = a * b - a
    OBVIOUS
  <2>3. a * s \in Nat
    BY <1>2
  <2> QED BY <1>1, <1>3, <2>1, <2>2, <2>3
<1>5. x = (a * b) * z + (a * s + r)
  BY <1>1, <1>2
<1>6. x \div (a * b) = z
  <2> DEFINE p == a * b
             t == a * s + r
  <2>1. p \in Nat \ {0} /\ t \in 0 .. (p - 1) /\ x = p * z + t
    BY <1>3, <1>4, <1>5
  <2> HIDE DEF p, t
  <2>2. x \div p = z
    BY <1>2, <2>1, Quotient
  <2> QED BY <2>2 DEF p
<1> QED BY <1>6 DEF y, z

\* A quotient is zero for what is smaller than the divisor.
LEMMA QuotientZero ==
  ASSUME NEW p \in Nat \ {0}, NEW x \in Nat
  PROVE  x \div p = 0 <=> x < p
<1> DEFINE y == x \div p
           z == x % p
<1>1. y \in Nat /\ z \in 0 .. (p - 1) /\ x = p * y + z
  BY Division
<1> HIDE DEF y, z
<1>2. CASE y = 0
  BY <1>1, <1>2 DEF y
<1>3. CASE y >= 1
  <2>1. p * y >= p
    BY <1>1, <1>3
  <2> QED BY <1>1, <1>3, <2>1 DEF y
<1> QED BY <1>1, <1>2, <1>3

\* Swapping characters from both ends reverses a string.
Reversed(s) == [k \in 1 .. Len(s) |-> s[Len(s) - k + 1]]

\* reverse() reverses: after so many rounds the ends are exchanged that far.
LEMMA ReverseReverses ==
  ASSUME NEW s \in Seq(Char)
  PROVE  reverse(s) = Reversed(s)
<1> DEFINE m == Len(s)
           V == [1 .. m -> Char]
           Swap(t, k) == IF k < m - k + 1 THEN [t EXCEPT ![k] = t[m - k + 1], ![m - k + 1] = t[k]] ELSE t
           go == [x \in V \X (1 .. m) |-> Swap(x[1], x[2])]
<1>1. m \in Nat /\ s \in V
  OBVIOUS
<1>2. ASSUME NEW t \in V, NEW k \in 1 .. m PROVE Swap(t, k) \in V
  <2>1. m - k + 1 \in 1 .. m
    BY <1>1
  <2> HIDE DEF m
  <2> QED BY <2>1
<1> HIDE DEF m, V, Swap
<1>3. go \in Follows(m, V)
  BY <1>2 DEF Follows
<1>4. PICK h : Computed(h, m, V, s, go)
  <2> HIDE DEF go
  <2> QED BY <1>1, <1>3, Recursion
<1>5. ASSUME NEW k \in 1 .. m PROVE h[k - 1] \in V /\ h[k] = Swap(h[k - 1], k)
  <2>1. k - 1 \in 0 .. m
    BY <1>1
  <2>2. h[k - 1] \in V /\ <<h[k - 1], k>> \in V \X (1 .. m)
    BY <1>4, <2>1 DEF Computed
  <2>3. go[<<h[k - 1], k>>] = Swap(h[k - 1], k)
    BY <2>2
  <2> HIDE DEF go
  <2> QED BY <1>4, <2>2, <2>3 DEF Computed
<1>6. h = [k \in 0 .. m |-> IF k = 0 THEN s ELSE Swap(h[k - 1], k)]
  BY <1>4, <1>5 DEF Computed
<1> DEFINE Is(g) == g = [k \in 0 .. m |-> IF k = 0 THEN s ELSE Swap(g[k - 1], k)]
<1>7. \A g : Is(g) => g[m] = Reversed(s)
  <2> SUFFICES ASSUME NEW g, Is(g) PROVE g[m] = Reversed(s)
    OBVIOUS
  <2> DEFINE Part(k) == [i \in 1 .. m |-> IF i <= k \/ m - i + 1 <= k THEN s[m - i + 1] ELSE s[i]]
             S == { k \in 0 .. m : g[k] = Part(k) }
  <2>1. Part(0) = s
    <3>1. \A i \in 1 .. m : Part(0)[i] = s[i]
      BY <1>1
    <3> QED BY <1>1, <3>1 DEF V
  <2>2. 0 \in S
    BY <1>1, <2>1
  <2>3. ASSUME NEW k \in 1 .. m PROVE Swap(Part(k - 1), k) = Part(k)
    <3>1. m - k + 1 \in 1 .. m /\ k - 1 \in 0 .. m
      BY <1>1
    <3> DEFINE t == Part(k - 1)
    <3>2. /\ t = [i \in 1 .. m |-> t[i]]
          /\ \A i \in 1 .. m : t[i] = IF i <= k - 1 \/ m - i + 1 <= k - 1 THEN s[m - i + 1] ELSE s[i]
      OBVIOUS
    <3> SUFFICES Swap(t, k) = Part(k)
      BY Zenon
    <3> HIDE DEF t
    <3>3. CASE k < m - k + 1
      <4>1. Swap(t, k) = [i \in 1 .. m |-> IF i = k THEN t[m - k + 1] ELSE IF i = m - k + 1 THEN t[k] ELSE t[i]]
        <5>1. Swap(t, k) = [t EXCEPT ![k] = t[m - k + 1], ![m - k + 1] = t[k]]
          BY <3>3 DEF Swap
        <5>2. PICK z : z = Swap(t, k)
          OBVIOUS
        <5>3. z = [i \in 1 .. m |-> z[i]]
          BY <3>2, <5>1, <5>2
        <5>4. ASSUME NEW i \in 1 .. m
              PROVE  z[i] = IF i = k THEN t[m - k + 1] ELSE IF i = m - k + 1 THEN t[k] ELSE t[i]
          BY <1>1, <3>2, <3>3, <5>1, <5>2
        <5> QED BY <5>2, <5>3, <5>4
      <4>2. t[m - k + 1] = s[m - k + 1] /\ t[k] = s[k] /\ m - (m - k + 1) + 1 = k
        <5>1. PICK j : j = m - k + 1
          OBVIOUS
        <5>2. /\ j \in 1 .. m /\ m - j + 1 = k
              /\ ~(k <= k - 1) /\ ~(j <= k - 1)
          BY <1>1, <3>3, <5>1
        <5>3. t[k] = s[k]
          BY <3>2, <5>1, <5>2
        <5>4. t[j] = s[j]
          BY <3>2, <5>2
        <5> QED BY <5>1, <5>2, <5>3, <5>4
      <4>3. ASSUME NEW i \in 1 .. m
            PROVE  (IF i = k THEN t[m - k + 1] ELSE IF i = m - k + 1 THEN t[k] ELSE t[i]) = Part(k)[i]
        <5>1. CASE i = k \/ i = m - k + 1
          BY <1>1, <3>1, <3>3, <4>2, <5>1
        <5>2. CASE ~(i = k \/ i = m - k + 1)
          <6>1. (i <= k <=> i <= k - 1) /\ (m - i + 1 <= k <=> m - i + 1 <= k - 1)
            BY <1>1, <5>2
          <6> QED BY <3>2, <5>2, <6>1
        <5> QED BY <5>1, <5>2
      <4> QED BY <4>1, <4>3
    <3>4. CASE ~(k < m - k + 1)
      <4>1. ASSUME NEW i \in 1 .. m PROVE t[i] = Part(k)[i]
        <5>1. CASE k = m - k + 1 /\ i = k
          BY <1>1, <3>1, <3>2, <5>1
        <5>2. CASE ~(k = m - k + 1 /\ i = k)
          BY <1>1, <3>1, <3>2, <3>4, <5>2
        <5> QED BY <5>1, <5>2
      <4>2. t = Part(k)
        BY <3>2, <4>1
      <4> QED BY <3>4, <4>2 DEF Swap
    <3> QED BY <3>3, <3>4
  <2>4. ASSUME NEW k \in 0 .. (m - 1), k \in S PROVE k + 1 \in S
    <3>1. k + 1 \in 1 .. m /\ k + 1 \in 0 .. m /\ (k + 1) - 1 = k /\ k + 1 # 0
      BY <1>1
    <3>2. g[k + 1] = Swap(g[k], k + 1)
      BY <3>1
    <3>3. Swap(Part(k), k + 1) = Part(k + 1)
      BY <2>3, <3>1
    <3> HIDE DEF Part
    <3> QED BY <2>4, <3>1, <3>2, <3>3
  <2> HIDE DEF S
  <2>5. \A k \in 0 .. m : k \in S
    BY <1>1, <2>2, <2>4, SetInduction
  <2>6. g[m] = Part(m)
    BY <1>1, <2>5 DEF S
  <2>7. Part(m) = [i \in 1 .. m |-> s[m - i + 1]]
    BY <1>1
  <2> QED BY <2>6, <2>7 DEF Reversed, m
<1>8. \E g : Is(g)
  BY <1>6
<1>9. reverse(s) = (CHOOSE g : Is(g))[m]
  BY Zenon DEF reverse, Swap, m
<1> HIDE DEF Is
<1> QED BY <1>7, <1>8, <1>9

\* The powers of a base.
LEMMA WeightsAre ==
  ASSUME NEW b \in 2 .. 16
  PROVE  /\ Weight(b) \in [0 .. MaxDigits -> Nat \ {0}] /\ Weight(b)[0] = 1
         /\ \A k \in 1 .. MaxDigits : Weight(b)[k] = b * Weight(b)[k - 1]
<1> DEFINE go == [x \in (Nat \ {0}) \X (1 .. MaxDigits) |-> b * x[1]]
           Is(g) == g = [k \in 0 .. MaxDigits |-> IF k = 0 THEN 1 ELSE b * g[k - 1]]
           W == Weight(b)
<1>1. MaxDigits \in Nat /\ MaxDigits # 0
  BY LoggerAssumption
<1>2. go \in Follows(MaxDigits, Nat \ {0})
  <2>1. ASSUME NEW x \in Nat \ {0} PROVE b * x \in Nat \ {0}
    OBVIOUS
  <2> QED BY <2>1 DEF Follows
<1>3. PICK h : Computed(h, MaxDigits, Nat \ {0}, 1, go)
  <2> HIDE DEF go
  <2> QED BY <1>1, <1>2, Recursion
<1>4. ASSUME NEW k \in 1 .. MaxDigits PROVE h[k] = b * h[k - 1]
  <2>1. k - 1 \in 0 .. MaxDigits
    BY <1>1
  <2>2. <<h[k - 1], k>> \in (Nat \ {0}) \X (1 .. MaxDigits)
    BY <1>3, <2>1 DEF Computed
  <2>3. go[<<h[k - 1], k>>] = b * h[k - 1]
    BY <2>2
  <2> HIDE DEF go
  <2> QED BY <1>3, <2>3 DEF Computed
<1>5. Is(h)
  BY <1>3, <1>4 DEF Computed
<1>6. Is(W)
  <2>1. W = CHOOSE g : Is(g)
    BY Zenon DEF Weight
  <2> HIDE DEF Is, W
  <2> QED BY Zenon, <1>5, <2>1
<1> HIDE DEF W
<1>7. W[0] = 1 /\ \A k \in 1 .. MaxDigits : W[k] = b * W[k - 1]
  <2>1. \A k \in 1 .. MaxDigits : k \in 0 .. MaxDigits /\ k # 0
    BY <1>1
  <2>2. W[0] = 1
    BY <1>1, <1>6
  <2> QED BY <1>6, <2>1, <2>2
<1> DEFINE S == { k \in 0 .. MaxDigits : W[k] \in Nat \ {0} }
<1>8. 0 \in S
  BY <1>1, <1>7
<1>9. ASSUME NEW k \in 0 .. (MaxDigits - 1), k \in S PROVE k + 1 \in S
  <2>1. k + 1 \in 1 .. MaxDigits /\ (k + 1) - 1 = k /\ k + 1 \in 0 .. MaxDigits
    BY <1>1
  <2>2. W[k + 1] = b * W[k] /\ W[k] \in Nat \ {0}
    BY <1>7, <1>9, <2>1
  <2>3. \A x \in Nat \ {0} : b * x \in Nat \ {0}
    OBVIOUS
  <2> QED BY <2>1, <2>2, <2>3
<1>10. \A k \in 0 .. MaxDigits : k \in S
  <2> HIDE DEF S
  <2> QED BY <1>1, <1>8, <1>9, SetInduction
<1>11. W \in [0 .. MaxDigits -> Nat \ {0}]
  BY <1>6, <1>10
<1> QED BY <1>7, <1>11 DEF W

\* A heavier digit is one that is further left.
LEMMA WeightsGrow ==
  ASSUME NEW b \in 2 .. 16, NEW j \in 0 .. MaxDigits
  PROVE  \A i \in 0 .. j : Weight(b)[i] <= Weight(b)[j]
<1> DEFINE W == Weight(b)
           S == { k \in 0 .. MaxDigits : \A i \in 0 .. k : W[i] <= W[k] }
<1>1. MaxDigits \in Nat
  BY LoggerAssumption
<1>2. W \in [0 .. MaxDigits -> Nat \ {0}] /\ \A k \in 1 .. MaxDigits : W[k] = b * W[k - 1]
  BY WeightsAre
<1> HIDE DEF W
<1>3. 0 \in S
  BY <1>1, <1>2
<1>4. ASSUME NEW k \in 0 .. (MaxDigits - 1), k \in S PROVE k + 1 \in S
  <2>1. k + 1 \in 1 .. MaxDigits /\ (k + 1) - 1 = k /\ k + 1 \in 0 .. MaxDigits /\ k \in 0 .. MaxDigits
    BY <1>1
  <2>2. W[k + 1] = b * W[k] /\ W[k] \in Nat /\ W[k + 1] \in Nat
    BY <1>2, <2>1
  <2>3. W[k] <= W[k + 1]
    <3>1. \A x \in Nat : x <= b * x
      OBVIOUS
    <3> QED BY <2>2, <3>1
  <2>4. ASSUME NEW i \in 0 .. (k + 1) PROVE W[i] <= W[k + 1]
    <3>1. CASE i = k + 1
      BY <2>2, <3>1
    <3>2. CASE i \in 0 .. k
      <4>1. W[i] <= W[k] /\ W[i] \in Nat
        BY <1>1, <1>2, <1>4, <3>2
      <4> QED BY <2>2, <2>3, <4>1
    <3> QED BY <2>1, <3>1, <3>2
  <2> QED BY <2>1, <2>4
<1>5. \A k \in 0 .. MaxDigits : k \in S
  <2> HIDE DEF S
  <2> QED BY <1>1, <1>3, <1>4, SetInduction
<1> QED BY <1>5 DEF W

\* How many digits a numeral has: so many that one fewer would not do, unless
\* there is room for no more.
Digits(num, b, k) == /\ k \in 1 .. MaxDigits
                     /\ k = 1 \/ num >= Weight(b)[k - 1]
                     /\ k = MaxDigits \/ num < Weight(b)[k]

\* A numeral is the one of so many digits as the number needs.
LEMMA NumeralIs ==
  ASSUME NEW num \in Nat, NEW b \in 2 .. 16, NEW m, Digits(num, b, m)
  PROVE  Numeral(num, b) = [k \in 1 .. m |-> Digit[((num \div Weight(b)[m - k]) % b) + 1]]
<1> DEFINE W == Weight(b)
           P(k) == /\ k = 1 \/ num >= W[k - 1]
                   /\ k = MaxDigits \/ num < W[k]
<1>1. MaxDigits \in Nat
  BY LoggerAssumption
<1>2. W \in [0 .. MaxDigits -> Nat \ {0}]
  BY WeightsAre
<1>3. ASSUME NEW k \in 1 .. MaxDigits, NEW l \in 1 .. MaxDigits, P(k), P(l), k < l PROVE FALSE
  <2>1. num < W[k] /\ num >= W[l - 1] /\ k \in 0 .. (l - 1) /\ l - 1 \in 0 .. MaxDigits /\ k \in 0 .. MaxDigits
    BY <1>1, <1>3
  <2>2. W[k] <= W[l - 1]
    BY <2>1, WeightsGrow
  <2>3. W[k] \in Nat /\ W[l - 1] \in Nat
    BY <1>2, <2>1
  <2> HIDE DEF W
  <2> QED BY <2>1, <2>2, <2>3
<1>4. m \in 1 .. MaxDigits /\ P(m)
  BY DEF Digits
<1>5. (CHOOSE k \in 1 .. MaxDigits : P(k)) = m
  <2> DEFINE x == CHOOSE k \in 1 .. MaxDigits : P(k)
  <2> HIDE DEF P
  <2>1. x \in 1 .. MaxDigits /\ P(x)
    BY Zenon, <1>4
  <2> HIDE DEF x
  <2>2. ~(x < m) /\ ~(m < x)
    BY <1>3, <1>4, <2>1
  <2>3. x \in Int /\ m \in Int
    BY <1>1, <1>4, <2>1
  <2>4. x = m
    BY <2>2, <2>3
  <2> QED BY <2>4 DEF x
<1> DEFINE Form(x) == [k \in 1 .. x |-> Digit[((num \div W[x - k]) % b) + 1]]
<1>6. Numeral(num, b) = Form(CHOOSE k \in 1 .. MaxDigits : P(k))
  BY Zenon DEF Numeral
<1>7. Numeral(num, b) = Form(m)
  <2> HIDE DEF Form, P
  <2> QED BY <1>5, <1>6
<1> QED BY <1>7

\* The loop of itoa(): after so many rounds the number is divided by the next
\* digit's weight, and the digits before it are there.
LEMMA LoopDigits ==
  ASSUME NEW num \in Nat \ {0}, NEW b \in 2 .. 16
  PROVE  LET d == DigitsUp(num, b, MaxDigits)
         IN  /\ d \in Seq(Char) /\ Digits(num, b, Len(d))
             /\ \A j \in 1 .. Len(d) : d[j] = Digit[((num \div Weight(b)[j - 1]) % b) + 1]
<1> DEFINE W == Weight(b)
           V == [num : Nat, text : Seq(Char)]
           Next1(d) == IF d.num = 0 THEN d
                       ELSE [num |-> d.num \div b, text |-> Append(d.text, itoc(d.num % b))]
           start == [num |-> num, text |-> <<>>]
           go == [x \in V \X (1 .. MaxDigits) |-> Next1(x[1])]
           Is(g) == g = [k \in 0 .. MaxDigits |-> IF k = 0 THEN start ELSE Next1(g[k - 1])]
<1>1. MaxDigits \in Nat /\ MaxDigits # 0
  BY LoggerAssumption
<1>2. /\ W \in [0 .. MaxDigits -> Nat \ {0}] /\ W[0] = 1
      /\ \A k \in 1 .. MaxDigits : W[k] = b * W[k - 1]
  BY WeightsAre
<1>3. ASSUME NEW x \in Nat PROVE itoc(x % b) \in Char /\ itoc(x % b) = Digit[(x % b) + 1] /\ x \div b \in Nat
  <2>1. x % b \in 0 .. (b - 1) /\ x \div b \in Nat
    BY Division
  <2>2. (x % b) + 1 \in 1 .. 16
    BY <2>1
  <2>3. DOMAIN Digit = 1 .. 16
    BY DEF Digit
  <2> QED BY <2>1, <2>2, <2>3, LoggerAssumption DEF itoc
<1>4. \A d \in V : Next1(d) \in V
  <2> SUFFICES ASSUME NEW d \in V, d.num # 0 PROVE Next1(d) \in V
    OBVIOUS
  <2>1. d.num \in Nat /\ d.text \in Seq(Char)
    OBVIOUS
  <2> DEFINE c == itoc(d.num % b)
  <2>2. c \in Char /\ d.num \div b \in Nat
    BY <1>3, <2>1
  <2> HIDE DEF c
  <2>3. Append(d.text, c) \in Seq(Char)
    BY <2>1, <2>2
  <2> HIDE DEF V
  <2>4. [num |-> d.num \div b, text |-> Append(d.text, c)] \in V
    BY <2>2, <2>3 DEF V
  <2> QED BY <2>4 DEF c
<1>5. start \in V
  OBVIOUS
<1> HIDE DEF V, W
<1>6. go \in Follows(MaxDigits, V)
  BY <1>4 DEF Follows
<1>7. PICK h : Computed(h, MaxDigits, V, start, go)
  <2> HIDE DEF go, start
  <2> QED BY <1>1, <1>5, <1>6, Recursion
<1>8. Is(h)
  <2>1. ASSUME NEW k \in 1 .. MaxDigits PROVE h[k] = Next1(h[k - 1])
    <3>1. k - 1 \in 0 .. MaxDigits
      BY <1>1
    <3>2. <<h[k - 1], k>> \in V \X (1 .. MaxDigits)
      BY <1>7, <3>1 DEF Computed
    <3>3. go[<<h[k - 1], k>>] = Next1(h[k - 1])
      BY <3>2
    <3> HIDE DEF go, Next1
    <3> QED BY <1>7, <3>3 DEF Computed
  <2> HIDE DEF go, start, Next1
  <2> QED BY <1>7, <2>1 DEF Computed
<1> DEFINE R(d, k) == /\ d \in V /\ d.num = num \div W[k]
                      /\ Len(d.text) <= k /\ (k = 0 \/ Len(d.text) >= 1)
                      /\ Len(d.text) = k \/ num < W[Len(d.text)]
                      /\ Len(d.text) = 0 \/ num >= W[Len(d.text) - 1]
                      /\ \A j \in 1 .. Len(d.text) : d.text[j] = Digit[((num \div W[j - 1]) % b) + 1]
<1>9. R(start, 0)
  BY <1>1, <1>2, <1>5
<1>10. ASSUME NEW k \in 0 .. (MaxDigits - 1), NEW d, R(d, k) PROVE R(Next1(d), k + 1)
  <2>1. /\ d.num \in Nat /\ d.text \in Seq(Char) /\ Len(d.text) \in Nat /\ k \in 0 .. MaxDigits /\ k \in Nat
        /\ k + 1 \in 1 .. MaxDigits /\ k + 1 \in 0 .. MaxDigits /\ (k + 1) - 1 = k
    BY <1>1, <1>10 DEF V
  <2>2. W[k] \in Nat \ {0} /\ W[k + 1] = b * W[k] /\ b \in Nat \ {0} /\ W[k + 1] \in Nat \ {0}
    BY <1>2, <2>1
  <2>3. num \div W[k + 1] = d.num \div b
    <3>1. (num \div W[k]) \div b = num \div (W[k] * b)
      BY <2>2, DivideTwice
    <3>2. W[k] * b = W[k + 1]
      BY <2>2
    <3> QED BY <1>10, <3>1, <3>2
  <2>4. CASE d.num = 0
    <3>1. num < W[k]
      BY <1>10, <2>2, <2>4, QuotientZero
    <3>2. Len(d.text) # 0
      BY <1>2, <1>10, <2>1, <3>1
    <3>3. num < W[Len(d.text)]
      BY <1>10, <3>1
    <3>4. 0 \div b = 0
      OBVIOUS
    <3>5. d.num = num \div W[k + 1]
      BY <2>3, <2>4, <3>4
    <3>6. Next1(d) = d
      BY <2>4
    <3>7. Len(d.text) <= k + 1 /\ Len(d.text) >= 1
      BY <1>10, <2>1, <3>2
    <3> QED BY <1>10, <3>3, <3>5, <3>6, <3>7
  <2>5. CASE d.num # 0
    <3> DEFINE e == Next1(d)
               c == itoc(d.num % b)
    <3>1. e.num = d.num \div b /\ e.text = Append(d.text, c) /\ e \in V
      BY <1>4, <1>10, <2>5
    <3>2. num >= W[k]
      <4>1. num \div W[k] = 0 <=> num < W[k]
        BY <2>2, QuotientZero
      <4> QED BY <1>10, <2>2, <2>5, <4>1
    <3>3. Len(d.text) = k
      <4> SUFFICES ASSUME Len(d.text) < k PROVE FALSE
        BY <1>10, <2>1
      <4>1. num < W[Len(d.text)] /\ Len(d.text) \in 0 .. k /\ Len(d.text) \in 0 .. MaxDigits
        <5>1. Len(d.text) # k /\ Len(d.text) \in 0 .. k /\ Len(d.text) \in 0 .. MaxDigits
          BY <1>1, <2>1
        <5> QED BY <1>10, <5>1
      <4>2. W[Len(d.text)] <= W[k]
        BY <2>1, <4>1, WeightsGrow DEF W
      <4>3. W[Len(d.text)] \in Nat
        BY <1>2, <4>1
      <4> QED BY <2>2, <3>2, <4>1, <4>2, <4>3
    <3>4. Len(e.text) = k + 1 /\ e.text[k + 1] = c /\ \A j \in 1 .. k : e.text[j] = d.text[j]
      <4> HIDE DEF e, c
      <4> QED BY <2>1, <3>1, <3>3
    <3>5. c = Digit[((num \div W[k]) % b) + 1]
      <4>1. c = Digit[(d.num % b) + 1]
        BY <1>3, <2>1
      <4> HIDE DEF c
      <4> QED BY <1>10, <4>1
    <3>6. \A j \in 1 .. (k + 1) : e.text[j] = Digit[((num \div W[j - 1]) % b) + 1]
      <4> HIDE DEF e, c
      <4>1. ASSUME NEW j \in 1 .. (k + 1) PROVE e.text[j] = Digit[((num \div W[j - 1]) % b) + 1]
        <5>1. CASE j = k + 1
          BY <2>1, <3>4, <3>5, <5>1
        <5>2. CASE j \in 1 .. k
          BY <1>10, <3>3, <3>4, <5>2
        <5> QED BY <2>1, <5>1, <5>2
      <4> QED BY <4>1
    <3> HIDE DEF e, c
    <3>7. R(e, k + 1)
      <4>1. e \in V /\ e.num = num \div W[k + 1]
        BY <2>3, <3>1
      <4>2. Len(e.text) <= k + 1 /\ Len(e.text) >= 1
        BY <2>1, <3>4
      <4>3. num >= W[Len(e.text) - 1]
        BY <2>1, <3>2, <3>4
      <4>4. \A j \in 1 .. Len(e.text) : e.text[j] = Digit[((num \div W[j - 1]) % b) + 1]
        BY <3>4, <3>6
      <4> QED BY <3>4, <4>1, <4>2, <4>3, <4>4
    <3> QED BY <3>7 DEF e
  <2> QED BY <2>4, <2>5
<1> HIDE DEF R, Next1, start
<1>11. \A g : Is(g) => R(g[MaxDigits], MaxDigits)
  <2> SUFFICES ASSUME NEW g, Is(g) PROVE R(g[MaxDigits], MaxDigits)
    OBVIOUS
  <2> DEFINE S == { k \in 0 .. MaxDigits : R(g[k], k) }
  <2>1. 0 \in S
    BY <1>1, <1>9
  <2>2. ASSUME NEW k \in 0 .. (MaxDigits - 1), k \in S PROVE k + 1 \in S
    <3>1. k + 1 \in 0 .. MaxDigits /\ k + 1 # 0 /\ (k + 1) - 1 = k
      BY <1>1
    <3>2. g[k + 1] = Next1(g[k])
      BY <3>1
    <3> QED BY <1>10, <2>2, <3>1, <3>2
  <2> HIDE DEF S
  <2>3. \A k \in 0 .. MaxDigits : k \in S
    BY <1>1, <2>1, <2>2, SetInduction
  <2> QED BY <1>1, <2>3 DEF S
<1> DEFINE d == DigitsUp(num, b, MaxDigits)
<1>12. d = (CHOOSE g : Is(g))[MaxDigits].text
  BY Zenon DEF DigitsUp, Next1, start
<1>13. PICK r : R(r, MaxDigits) /\ d = r.text
  <2> HIDE DEF Is, d
  <2> QED BY <1>8, <1>11, <1>12
<1> HIDE DEF d
<1>14. d \in Seq(Char) /\ Len(d) \in Nat
  BY <1>13 DEF R, V
<1>15. Digits(num, b, Len(d)) /\ \A j \in 1 .. Len(d) : d[j] = Digit[((num \div Weight(b)[j - 1]) % b) + 1]
  BY <1>1, <1>13, <1>14 DEF R, W, Digits
<1> QED BY <1>14, <1>15 DEF d

\* itoa() prints the numeral: for every number, the digits of the base by
\* their weights.
THEOREM ItoaIsNumeral ==
  ASSUME NEW num \in Nat, NEW b \in 2 .. 16
  PROVE  itoa(num, b) = Numeral(num, b) /\ itoa(num, b) \in Seq(Char) /\ Len(itoa(num, b)) \in 0 .. MaxDigits
<1> DEFINE W == Weight(b)
<1>1. MaxDigits \in Nat /\ MaxDigits # 0
  BY LoggerAssumption
<1>2. /\ W \in [0 .. MaxDigits -> Nat \ {0}] /\ W[0] = 1
      /\ \A k \in 1 .. MaxDigits : W[k] = b * W[k - 1]
  BY WeightsAre
<1>3. CASE num = 0
  <2>1. Digits(num, b, 1)
    <3>1. 1 \in 0 .. MaxDigits
      BY <1>1
    <3>2. W[1] \in Nat \ {0}
      BY <1>2, <3>1
    <3> QED BY <1>1, <1>3, <3>2 DEF Digits
  <2>2. Numeral(num, b) = [k \in 1 .. 1 |-> Digit[((num \div W[1 - k]) % b) + 1]]
    BY <2>1, NumeralIs
  <2>3. \A k \in 1 .. 1 : ((num \div W[1 - k]) % b) + 1 = 1
    <3> HIDE DEF W
    <3>1. \A k \in 1 .. 1 : W[1 - k] = 1
      BY <1>2
    <3>2. (0 \div 1) % b = 0
      OBVIOUS
    <3> QED BY <1>3, <3>1, <3>2
  <2>4. Numeral(num, b) = [k \in 1 .. 1 |-> Digit[1]]
    BY <2>2, <2>3
  <2>5. [k \in 1 .. 1 |-> Digit[1]] = <<"0">> /\ "0" \in Char
    BY LoggerAssumption DEF Digit
  <2> QED BY <1>1, <1>3, <2>4, <2>5 DEF itoa
<1>4. CASE num # 0
  <2> DEFINE d == DigitsUp(num, b, MaxDigits)
             m == Len(d)
  <2>1. /\ d \in Seq(Char) /\ Digits(num, b, m)
        /\ \A j \in 1 .. m : d[j] = Digit[((num \div W[j - 1]) % b) + 1]
    BY <1>4, LoopDigits
  <2>2. itoa(num, b) = reverse(d)
    BY <1>4 DEF itoa
  <2> HIDE DEF d, W
  <2>3. reverse(d) = [k \in 1 .. m |-> d[m - k + 1]]
    BY <2>1, ReverseReverses DEF Reversed
  <2>4. m \in Nat /\ m \in 1 .. MaxDigits
    BY <2>1 DEF Digits
  <2>5. ASSUME NEW k \in 1 .. m PROVE d[m - k + 1] = Digit[((num \div W[m - k]) % b) + 1] /\ d[m - k + 1] \in Char
    <3>1. m - k + 1 \in 1 .. m /\ (m - k + 1) - 1 = m - k
      BY <2>4
    <3> QED BY <2>1, <3>1
  <2>6. Numeral(num, b) = [k \in 1 .. m |-> Digit[((num \div W[m - k]) % b) + 1]]
    BY <2>1, NumeralIs DEF W
  <2> HIDE DEF m
  <2>7. reverse(d) = Numeral(num, b)
    BY <2>3, <2>5, <2>6
  <2>8. reverse(d) \in Seq(Char) /\ Len(reverse(d)) = m
    BY <2>3, <2>4, <2>5
  <2> QED BY <2>2, <2>4, <2>7, <2>8
<1> QED BY <1>3, <1>4

-----------------------------------------------------------------------------
\* The stream

\* The places of a writer in an operation that appends, and in endl.
Appending == {"append", "bump", "store", "failed"}
Flushing == {"lock", "wait", "send", "empty"}
Current(w) == Program[w][done[w] + 1]

\* Where a writer is, and in which operation.
Position(w) ==
  /\ done[w] <= Len(Program[w])
  /\ at[w] # "next" => done[w] < Len(Program[w])
  /\ at[w] \in Appending => Current(w).op \in {"str", "num"} /\ Len(text[w]) <= Width(Current(w))
  /\ at[w] \in Flushing => Current(w).op = "endl"
  /\ at[w] \in {"bump", "store"} => reg[w] \in Nat /\ text[w] # <<>>

\* Types, and where each writer is.
StreamInv ==
  /\ buffer \in [0 .. (BUFF_LEN - 1) -> Char \cup {NUL}]
  /\ writer_position \in Nat /\ base \in 2 .. 16
  /\ done \in [Writers -> Nat] /\ at \in [Writers -> {"next"} \cup Appending \cup Flushing]
  /\ text \in [Writers -> Seq(Char)]
  /\ inside \subseteq Writers /\ overlapped \in BOOLEAN
  /\ said \in [out : Seq(Char \cup {NUL}), base : 2 .. 16] /\ port \in Seq(Char \cup {NUL})
  /\ DOMAIN reg = Writers
  /\ \A w \in Writers : Position(w)

\* The first p characters of a buffer, and a text around them.
First(f, p) == [k \in 1 .. p |-> f[k - 1]]
Whole(s, f, p, t) == (s \o First(f, p)) \o t

\* What was said has been sent, or is in the buffer up to p, or is t.
Told(p, t) == /\ p \in 0 .. BUFF_LEN
              /\ said.out = Whole(port, buffer, p, t)
              /\ \A k \in 0 .. (p - 1) : buffer[k] # NUL
              /\ \A k \in p .. (BUFF_LEN - 1) : buffer[k] = NUL

\* The stream of a writer that is alone inside a line.
Alone(w) ==
  /\ at[w] = "next" => Told(writer_position, <<>>)
  /\ at[w] \in {"append", "failed"} => Told(writer_position, text[w])
  /\ at[w] = "bump" => Told(writer_position, text[w]) /\ reg[w] = writer_position /\ reg[w] < BUFF_LEN
  /\ at[w] = "store" => Told(reg[w], text[w]) /\ writer_position = reg[w] + 1 /\ reg[w] < BUFF_LEN
  /\ at[w] \in {"lock", "wait", "send"} => Told(writer_position, <<NUL>>)
  /\ at[w] = "send" => reg[w] = writer_position
  /\ at[w] = "empty" =>
       /\ port = said.out /\ reg[w] \in 0 .. writer_position /\ writer_position <= BUFF_LEN
       /\ \A k \in 0 .. (BUFF_LEN - 1) : k < reg[w] \/ k >= writer_position => buffer[k] = NUL

\* A writer is alone up to the first overlap, and the stream is in order.
LineInv ==
  ~overlapped => /\ base = said.base
                 /\ \A w \in Writers : at[w] # "next" => w \in inside
                 /\ \A w, v \in inside : w = v
                 /\ inside = {} => writer_position = 0 /\ Told(0, <<>>)
                 /\ \A w \in inside : Alone(w)

\* The line so far, and what is left of the current operation, fit.
Fits(w) ==
  /\ at[w] = "next" => writer_position <= Column(w)[done[w]]
  /\ at[w] \in {"append", "bump"} => writer_position + Len(text[w]) <= Column(w)[done[w] + 1]
  /\ at[w] = "store" => reg[w] + Len(text[w]) <= Column(w)[done[w] + 1]
  /\ at[w] # "failed"

FitInv == LinesFit /\ ~overlapped => \A w \in inside : Fits(w)

\* The characters a writer has counted into a position.
Spent(w) == IF at[w] \in Appending
            THEN Widths(w)[done[w] + 1] - Len(text[w]) + (IF at[w] = "store" THEN 1 ELSE 0)
            ELSE Widths(w)[done[w]]
AllSpent == Sums([w \in Writers |-> Spent(w)])[Len(Program)]

\* That is all that a position counts, and a position that was read.
CountInv == /\ writer_position <= AllSpent
            /\ \A w \in Writers : at[w] = "bump" => reg[w] <= AllSpent

LogInv == StreamInv /\ LineInv /\ FitInv /\ CountInv

\* What an operation can be.
LEMMA OperationIs ==
  ASSUME NEW o \in Operation
  PROVE  /\ Width(o) \in Nat /\ o.op \in {"str", "num", "base", "endl"}
         /\ o.text \in Seq(Char) /\ o.num \in Nat
         /\ o.op # "str" => o.text = <<>>
         /\ o.op = "base" => o.num \in 2 .. 16
<1>0. <<>> \in Seq(Char)
  OBVIOUS
<1>1. /\ o.op \in {"str", "num", "base", "endl"} /\ o.text \in Seq(Char) /\ o.num \in Nat
      /\ o.op # "str" => o.text = <<>>
      /\ o.op = "base" => o.num \in 2 .. 16
  <2>1. CASE o \in [op : {"str"}, text : Seq(Char), num : {0}]
    BY <2>1
  <2>2. CASE o \in [op : {"num"}, text : {<<>>}, num : Nat]
    <3>1. o.text = <<>> /\ o.num \in Nat /\ o.op \in {"num", "base", "endl"}
      BY <2>2
    <3> QED BY <1>0, <2>2, <3>1
  <2>3. CASE o \in [op : {"base"}, text : {<<>>}, num : 2 .. 16]
    <3>1. o.text = <<>> /\ o.num \in Nat /\ o.op \in {"num", "base", "endl"}
      BY <2>3
    <3> QED BY <1>0, <2>3, <3>1
  <2>4. CASE o \in [op : {"endl"}, text : {<<>>}, num : {0}]
    <3>1. o.text = <<>> /\ o.num \in Nat /\ o.op \in {"num", "base", "endl"}
      BY <2>4
    <3> QED BY <1>0, <2>4, <3>1
  <2> QED BY <2>1, <2>2, <2>3, <2>4 DEF Operation
<1> QED BY <1>1, LoggerAssumption DEF Width

\* The operations of each writer.
LEMMA Operations ==
  /\ Len(Program) \in Nat /\ Writers = 1 .. Len(Program)
  /\ \A w \in Writers :
       /\ Program[w] \in Seq(Operation) /\ Len(Program[w]) \in Nat /\ DOMAIN Program[w] = 1 .. Len(Program[w])
       /\ \A k \in 1 .. Len(Program[w]) :
            /\ Program[w][k] \in Operation /\ Width(Program[w][k]) \in Nat
            /\ Program[w][k].op \in {"str", "num", "base", "endl"}
            /\ Program[w][k].text \in Seq(Char) /\ Program[w][k].num \in Nat
            /\ Program[w][k].op # "str" => Program[w][k].text = <<>>
            /\ Program[w][k].op = "base" => Program[w][k].num \in 2 .. 16
<1>1. /\ Len(Program) \in Nat /\ Writers = 1 .. Len(Program)
      /\ \A w \in Writers : Program[w] \in Seq(Operation)
  BY LoggerAssumption DEF Writers
<1>3. ASSUME NEW w \in Writers
      PROVE  /\ Len(Program[w]) \in Nat /\ DOMAIN Program[w] = 1 .. Len(Program[w])
             /\ \A k \in 1 .. Len(Program[w]) : Program[w][k] \in Operation
  BY <1>1
<1> QED BY <1>1, <1>3, OperationIs

\* The string that is sent ends at the first terminator.
LEMMA StrlenIs ==
  ASSUME NEW s, NEW p \in 0 .. BUFF_LEN, \A k \in 0 .. (p - 1) : s[k] # NUL, p < BUFF_LEN => s[p] = NUL
  PROVE  strlen(s) = p
<1> DEFINE P(i) == /\ \A k \in 0 .. (i - 1) : s[k] # NUL
                   /\ i < BUFF_LEN => s[i] = NUL
<1>1. BUFF_LEN \in Nat
  BY LoggerAssumption
<1>2. ASSUME NEW i \in 0 .. BUFF_LEN, P(i) PROVE i = p
  <2>1. ~(i < p)
    BY <1>1, <1>2
  <2>2. ~(p < i)
    BY <1>1, <1>2
  <2> QED BY <1>1, <2>1, <2>2
<1>3. P(p)
  OBVIOUS
<1>4. strlen(s) = CHOOSE i \in 0 .. BUFF_LEN : P(i)
  BY Zenon DEF strlen
<1> HIDE DEF P
<1> QED BY <1>2, <1>3, <1>4

\* The sums of a writer's widths, and the columns of its lines.
LEMMA WidthsAre ==
  ASSUME NEW w \in Writers
  PROVE  /\ \A k \in 0 .. Len(Program[w]) : Widths(w)[k] \in Nat
         /\ \A k \in 1 .. Len(Program[w]) : Widths(w)[k] = Widths(w)[k - 1] + Width(Program[w][k])
         /\ \A k \in 0 .. Len(Program[w]) : Widths(w)[k] <= Total(w)
<1> DEFINE m == Len(Program[w])
           f == [k \in DOMAIN Program[w] |-> Width(Program[w][k])]
           s == Widths(w)
<1>1. m \in Nat /\ f \in [1 .. m -> Nat] /\ \A k \in 1 .. m : f[k] = Width(Program[w][k])
  BY Operations
<1>2. s = Sums(f)
  BY DEF Widths
<1> HIDE DEF s, f, m
<1>3. s \in [0 .. m -> Nat] /\ \A k \in 1 .. m : s[k] = s[k - 1] + f[k]
  BY <1>1, <1>2, SumsAre
<1> DEFINE S == { i \in 0 .. m : s[m - i] <= s[m] }
<1>4. 0 \in S
  BY <1>1, <1>3
<1>5. ASSUME NEW i \in 0 .. (m - 1), i \in S PROVE i + 1 \in S
  <2>1. m - i \in 1 .. m /\ (m - i) - 1 = m - (i + 1) /\ i + 1 \in 0 .. m /\ m - (i + 1) \in 0 .. m /\ m \in 0 .. m
    BY <1>1
  <2>2. s[m - i] = s[m - (i + 1)] + f[m - i] /\ f[m - i] \in Nat
    BY <1>1, <1>3, <2>1
  <2>3. s[m - i] \in Nat /\ s[m - (i + 1)] \in Nat /\ s[m] \in Nat
    BY <1>3, <2>1
  <2> QED BY <1>5, <2>1, <2>2, <2>3
<1>6. \A i \in 0 .. m : i \in S
  <2> HIDE DEF S
  <2> QED BY <1>1, <1>4, <1>5, SetInduction
<1>7. \A k \in 0 .. m : s[k] <= s[m]
  <2>1. \A k \in 0 .. m : m - k \in 0 .. m /\ m - (m - k) = k
    BY <1>1
  <2> QED BY <1>6, <2>1
<1>8. Total(w) = s[m]
  BY DEF Total, s, m
<1> QED BY <1>1, <1>3, <1>7, <1>8 DEF s, m

\* What the columns of a writer's line are.
LEMMA ColumnIs ==
  ASSUME NEW w \in Writers
  PROVE  /\ Column(w)[0] = 0
         /\ \A k \in 0 .. Len(Program[w]) : Column(w)[k] \in Nat
         /\ \A k \in 1 .. Len(Program[w]) :
              Column(w)[k] = IF Program[w][k].op = "endl" THEN 0 ELSE Column(w)[k - 1] + Width(Program[w][k])
<1> DEFINE m == Len(Program[w])
           V(c, k) == IF Program[w][k].op = "endl" THEN 0 ELSE c + Width(Program[w][k])
           go == [x \in Nat \X (1 .. m) |-> V(x[1], x[2])]
           Is(g) == g = [k \in 0 .. m |-> IF k = 0 \/ Program[w][k].op = "endl" THEN 0
                                          ELSE g[k - 1] + Width(Program[w][k])]
           c == Column(w)
<1>1. m \in Nat /\ \A k \in 1 .. m : Width(Program[w][k]) \in Nat
  BY Operations
<1> HIDE DEF m
<1>2. go \in Follows(m, Nat)
  BY <1>1 DEF Follows
<1>3. PICK h : Computed(h, m, Nat, 0, go)
  <2> HIDE DEF go
  <2> QED BY <1>1, <1>2, Recursion
<1>4. ASSUME NEW k \in 1 .. m PROVE h[k] = V(h[k - 1], k)
  <2>1. k - 1 \in 0 .. m
    BY <1>1
  <2>2. <<h[k - 1], k>> \in Nat \X (1 .. m)
    BY <1>3, <2>1 DEF Computed
  <2>3. go[<<h[k - 1], k>>] = V(h[k - 1], k)
    BY <2>2
  <2> HIDE DEF go, V
  <2> QED BY <1>3, <2>3 DEF Computed
<1>5. Is(h)
  <2>1. h = [k \in 0 .. m |-> h[k]] /\ h[0] = 0
    BY <1>3 DEF Computed
  <2>2. \A k \in 0 .. m : k # 0 => k \in 1 .. m
    BY <1>1
  <2>3. ASSUME NEW k \in 0 .. m
        PROVE  h[k] = IF k = 0 \/ Program[w][k].op = "endl" THEN 0 ELSE h[k - 1] + Width(Program[w][k])
    BY <1>4, <2>1, <2>2
  <2> QED BY <2>1, <2>3
<1>6. Is(c)
  <2>1. c = CHOOSE g : Is(g)
    BY Zenon DEF Column, m
  <2> HIDE DEF Is, c
  <2> QED BY Zenon, <1>5, <2>1
<1> HIDE DEF c
<1>7. c[0] = 0
  BY <1>1, <1>6
<1>8. ASSUME NEW k \in 1 .. m PROVE c[k] = V(c[k - 1], k)
  <2>1. k \in 0 .. m /\ k # 0
    BY <1>1
  <2> QED BY <1>6, <2>1
<1> DEFINE S == { k \in 0 .. m : c[k] \in Nat }
<1>9. 0 \in S
  BY <1>1, <1>7
<1>10. ASSUME NEW k \in 0 .. (m - 1), k \in S PROVE k + 1 \in S
  <2>1. k + 1 \in 1 .. m /\ (k + 1) - 1 = k /\ k + 1 \in 0 .. m
    BY <1>1
  <2>2. c[k + 1] = V(c[k], k + 1) /\ Width(Program[w][k + 1]) \in Nat
    BY <1>1, <1>8, <2>1
  <2> QED BY <1>10, <2>1, <2>2
<1>11. \A k \in 0 .. m : k \in S
  <2> HIDE DEF S
  <2> QED BY <1>1, <1>9, <1>10, SetInduction
<1>12. \A k \in 0 .. m : c[k] \in Nat
  BY <1>11
<1> HIDE DEF S
<1> QED BY <1>7, <1>8, <1>12 DEF c, m

\* What one more operation asks for.
Asked(o, b) == IF o.op = "endl" THEN <<NUL>> ELSE IF o.op = "num" THEN Numeral(o.num, b) ELSE o.text

\* An operation is said behind what was said.
LEMMA SayingIs ==
  ASSUME NEW o \in Operation, NEW s \in [out : Seq(Char \cup {NUL}), base : 2 .. 16]
  PROVE  /\ Saying(s, o) \in [out : Seq(Char \cup {NUL}), base : 2 .. 16]
         /\ Saying(s, o).out = s.out \o Asked(o, s.base)
         /\ Saying(s, o).base = IF o.op = "base" THEN o.num ELSE s.base
<1> DEFINE C == Char \cup {NUL}
<1>1. s.out \in Seq(C) /\ s.base \in 2 .. 16 /\ s = [out |-> s.out, base |-> s.base]
  OBVIOUS
<1>2. /\ o.op \in {"str", "num", "base", "endl"} /\ o.text \in Seq(Char) /\ o.num \in Nat
      /\ o.op # "str" => o.text = <<>>
      /\ o.op = "base" => o.num \in 2 .. 16
  BY OperationIs
<1>3. \A t \in Seq(Char) : s.out \o t \in Seq(C)
  BY <1>1
<1>4. CASE o.op = "str"
  <2>1. Saying(s, o) = [out |-> s.out \o o.text, base |-> s.base]
    BY <1>1, <1>4 DEF Saying
  <2> QED BY <1>1, <1>2, <1>3, <1>4, <2>1 DEF Asked
<1>5. CASE o.op = "num"
  <2>1. Numeral(o.num, s.base) \in Seq(Char)
    BY <1>1, <1>2, ItoaIsNumeral
  <2>2. Saying(s, o) = [out |-> s.out \o Numeral(o.num, s.base), base |-> s.base]
    BY <1>1, <1>5 DEF Saying
  <2> QED BY <1>1, <1>3, <1>5, <2>1, <2>2 DEF Asked
<1>6. CASE o.op = "base"
  <2>1. Saying(s, o) = [out |-> s.out, base |-> o.num]
    BY <1>1, <1>6 DEF Saying
  <2>2. s.out \o <<>> = s.out
    BY <1>1
  <2> QED BY <1>1, <1>2, <1>6, <2>1, <2>2 DEF Asked
<1>7. CASE o.op = "endl"
  <2>1. Saying(s, o) = [out |-> Append(s.out, NUL), base |-> s.base]
    BY <1>1, <1>7 DEF Saying
  <2>2. Append(s.out, NUL) = s.out \o <<NUL>> /\ Append(s.out, NUL) \in Seq(C)
    BY <1>1
  <2> QED BY <1>1, <1>7, <2>1, <2>2 DEF Asked
<1> QED BY <1>2, <1>4, <1>5, <1>6, <1>7

\* An operation that begins: what the writer will append is what it asks for.
LEMMA Begins ==
  ASSUME StreamInv, NEW w \in Writers, Begin(w)
  PROVE  LET o == Current(w)
         IN  /\ o \in Operation /\ done[w] + 1 \in 1 .. Len(Program[w]) /\ at[w] = "next"
             /\ o.op \in {"str", "num", "base", "endl"} /\ Width(o) \in Nat
             /\ at' = [at EXCEPT ![w] = IF o.op = "endl" THEN "lock" ELSE IF o.op = "base" THEN "next" ELSE "append"]
             /\ \E t \in Seq(Char) : /\ text' = [text EXCEPT ![w] = t] /\ Len(t) <= Width(o)
                                     /\ o.op # "endl" => t = Asked(o, base)
                                     /\ o.op \in {"base", "endl"} => t = <<>>
             /\ base' = (IF o.op = "base" THEN o.num ELSE base) /\ base' \in 2 .. 16
             /\ done' = [done EXCEPT ![w] = IF o.op = "base" THEN done[w] + 1 ELSE done[w]]
<1> DEFINE o == Current(w)
           t == IF o.op = "num" THEN itoa(o.num, base) ELSE o.text
<1>1. done[w] \in Nat /\ done[w] < Len(Program[w]) /\ Len(Program[w]) \in Nat
  BY Operations DEF StreamInv, Begin
<1>2. done[w] + 1 \in 1 .. Len(Program[w])
  BY <1>1
<1>3. o \in Operation
  BY <1>2, Operations DEF Current
<1>4. /\ o.op \in {"str", "num", "base", "endl"} /\ Width(o) \in Nat /\ o.text \in Seq(Char) /\ o.num \in Nat
      /\ o.op # "str" => o.text = <<>>
      /\ o.op = "base" => o.num \in 2 .. 16
  BY <1>3, OperationIs
<1>5. base \in 2 .. 16 /\ done \in [Writers -> Nat]
  BY DEF StreamInv
<1> HIDE DEF o
<1>6. /\ at[w] = "next"
      /\ at' = [at EXCEPT ![w] = CASE o.op = "endl" -> "lock" [] o.op = "base" -> "next" [] OTHER -> "append"]
      /\ text' = [text EXCEPT ![w] = t]
      /\ base' = IF o.op = "base" THEN o.num ELSE base
      /\ IF o.op = "base" THEN Finish(w) ELSE UNCHANGED done
  BY DEF Begin, Step, o, Current
<1>7. (CASE o.op = "endl" -> "lock" [] o.op = "base" -> "next" [] OTHER -> "append")
        = IF o.op = "endl" THEN "lock" ELSE IF o.op = "base" THEN "next" ELSE "append"
  BY <1>4
<1>8. done' = [done EXCEPT ![w] = IF o.op = "base" THEN done[w] + 1 ELSE done[w]]
  BY <1>5, <1>6 DEF Finish
<1>9. t \in Seq(Char) /\ Len(t) <= Width(o) /\ (o.op # "endl" => t = Asked(o, base))
      /\ (o.op \in {"base", "endl"} => t = <<>>)
  <2>1. CASE o.op = "num"
    <3>1. /\ itoa(o.num, base) = Numeral(o.num, base) /\ itoa(o.num, base) \in Seq(Char)
          /\ Len(itoa(o.num, base)) \in 0 .. MaxDigits
      BY <1>4, <1>5, ItoaIsNumeral
    <3> QED BY <2>1, <3>1 DEF Width, Asked
  <2>2. CASE o.op # "num"
    BY <1>4, <2>2 DEF Width, Asked
  <2> QED BY <2>1, <2>2
<1> HIDE DEF t
<1>10. \E u \in Seq(Char) : /\ text' = [text EXCEPT ![w] = u] /\ Len(u) <= Width(o)
                            /\ o.op # "endl" => u = Asked(o, base)
                            /\ o.op \in {"base", "endl"} => u = <<>>
  BY <1>6, <1>9
<1>11. base' \in 2 .. 16
  BY <1>4, <1>5, <1>6
<1>12. at' = [at EXCEPT ![w] = IF o.op = "endl" THEN "lock" ELSE IF o.op = "base" THEN "next" ELSE "append"]
  BY <1>6, <1>7
<1> QED BY <1>2, <1>3, <1>4, <1>6, <1>8, <1>10, <1>11, <1>12 DEF o

-----------------------------------------------------------------------------
\* Nothing is printed at first.
LEMMA LogInvInit == LogInit => LogInv
<1> SUFFICES ASSUME LogInit PROVE LogInv
  OBVIOUS
<1>1. BUFF_LEN \in Nat /\ Len(Program) \in Nat /\ Writers = 1 .. Len(Program)
  BY Operations, LoggerAssumption
<1>2. StreamInv
  <2>1. \A w \in Writers : 0 <= Len(Program[w])
    BY Operations
  <2>2. Nothing \in [out : Seq(Char \cup {NUL}), base : 2 .. 16]
    BY DEF Nothing
  <2>3. buffer \in [0 .. (BUFF_LEN - 1) -> Char \cup {NUL}]
    BY DEF LogInit
  <2>4. /\ done \in [Writers -> Nat] /\ at \in [Writers -> {"next"}] /\ text \in [Writers -> Seq(Char)]
        /\ said \in [out : Seq(Char \cup {NUL}), base : 2 .. 16] /\ port \in Seq(Char \cup {NUL})
        /\ DOMAIN reg = Writers /\ \A w \in Writers : at[w] = "next" /\ done[w] = 0
    BY <2>2 DEF LogInit
  <2>5. at \in [Writers -> {"next"} \cup Appending \cup Flushing]
    BY <2>4
  <2>6. writer_position \in Nat /\ base \in 2 .. 16 /\ inside \subseteq Writers /\ overlapped \in BOOLEAN
    <3>1. overlapped \in BOOLEAN
      BY Zenon DEF LogInit
    <3> QED BY <3>1 DEF LogInit
  <2>7. \A w \in Writers : at[w] \notin Appending /\ at[w] \notin Flushing /\ at[w] \notin {"bump", "store"}
    BY <2>4 DEF Appending, Flushing
  <2> HIDE DEF LogInit
  <2> QED BY <2>1, <2>3, <2>4, <2>5, <2>6, <2>7 DEF StreamInv, Position
<1>3. LineInv
  <2>1. Told(0, <<>>)
    <3>1. said.out = <<>> /\ port = <<>>
      BY DEF LogInit, Nothing
    <3>2. Whole(<<>>, buffer, 0, <<>>) = <<>>
      BY DEF First, Whole
    <3> QED BY <1>1, <3>1, <3>2 DEF LogInit, Told
  <2> QED BY <2>1 DEF LogInit, LineInv, Nothing
<1>4. FitInv
  BY DEF LogInit, FitInv
<1>5. CountInv
  <2> DEFINE f == [w \in Writers |-> Spent(w)]
  <2>1. \A w \in Writers : Spent(w) \in Nat
    <3> SUFFICES ASSUME NEW w \in Writers PROVE Spent(w) \in Nat
      OBVIOUS
    <3>1. at[w] = "next" /\ done[w] = 0 /\ 0 \in 0 .. Len(Program[w])
      BY Operations DEF LogInit
    <3>2. Widths(w)[0] \in Nat
      BY <3>1, WidthsAre
    <3> QED BY <3>1, <3>2 DEF Spent, Appending
  <2>2. f \in [1 .. Len(Program) -> Nat]
    BY <1>1, <2>1
  <2>3. AllSpent = Sums(f)[Len(Program)]
    BY DEF AllSpent
  <2> HIDE DEF f
  <2>4. AllSpent \in Nat
    BY <1>1, <2>2, <2>3, SumsAre
  <2>5. writer_position = 0 /\ \A w \in Writers : at[w] # "bump"
    BY DEF LogInit
  <2> QED BY <2>4, <2>5 DEF CountInv
<1> QED BY <1>2, <1>3, <1>4, <1>5 DEF LogInv

-----------------------------------------------------------------------------
\* What every step leaves to the other writers.
LEMMA OthersKeep ==
  ASSUME StreamInv, NEW w \in Writers, Write(w)
  PROVE  /\ \A v \in Writers \ {w} : /\ at'[v] = at[v] /\ done'[v] = done[v] /\ text'[v] = text[v]
                                     /\ reg'[v] = reg[v]
         /\ DOMAIN reg' = Writers
<1> USE DEF StreamInv, Step, Read, Finish, line, history
<1>1. CASE Begin(w)
  <2>1. PICK t, p, d : text' = [text EXCEPT ![w] = t] /\ at' = [at EXCEPT ![w] = p] /\ done' = [done EXCEPT ![w] = d]
    BY <1>1, Begins
  <2>2. reg' = reg
    BY <1>1 DEF Begin
  <2> QED BY <2>1, <2>2
<1>2. CASE Load(w)  BY <1>2 DEF Load
<1>3. CASE Bump(w)  BY <1>3 DEF Bump
<1>4. CASE Store(w)  BY <1>4 DEF Store
<1>5. CASE Appended(w)  BY <1>5 DEF Appended
<1>6. CASE Lock(w)  BY <1>6 DEF Lock
<1>7. CASE Measure(w)  BY <1>7 DEF Measure
<1>8. CASE SendChars(w)  BY <1>8 DEF SendChars
<1>9. CASE Empty(w)  BY <1>9 DEF Empty
<1>10. CASE Reset(w)  BY <1>10 DEF Reset
<1> QED BY <1>1, <1>2, <1>3, <1>4, <1>5, <1>6, <1>7, <1>8, <1>9, <1>10 DEF Write

\* A step from one place to another leaves the writers that are not taking it
\* where they are, and the one that is at the other place.
LEMMA StreamStep ==
  ASSUME StreamInv, LineInv, NEW w \in Writers, Write(w)
  PROVE  StreamInv'
<1> DEFINE C == Char \cup {NUL}
<1>1. /\ buffer \in [0 .. (BUFF_LEN - 1) -> C]
      /\ writer_position \in Nat /\ base \in 2 .. 16
      /\ done \in [Writers -> Nat] /\ at \in [Writers -> {"next"} \cup Appending \cup Flushing]
      /\ text \in [Writers -> Seq(Char)]
      /\ inside \subseteq Writers /\ overlapped \in BOOLEAN
      /\ said \in [out : Seq(C), base : 2 .. 16] /\ port \in Seq(C)
      /\ Position(w) /\ done[w] \in Nat /\ text[w] \in Seq(Char) /\ Len(Program[w]) \in Nat
  BY Operations DEF StreamInv
<1>2. \A v \in Writers \ {w} : Position(v)'
  BY OthersKeep DEF StreamInv, Position, Current
<1>3. DOMAIN reg' = Writers
  BY OthersKeep
<1> SUFFICES /\ buffer' \in [0 .. (BUFF_LEN - 1) -> C]
             /\ writer_position' \in Nat /\ base' \in 2 .. 16
             /\ done' \in [Writers -> Nat] /\ at' \in [Writers -> {"next"} \cup Appending \cup Flushing]
             /\ text' \in [Writers -> Seq(Char)]
             /\ inside' \subseteq Writers /\ overlapped' \in BOOLEAN
             /\ said' \in [out : Seq(C), base : 2 .. 16] /\ port' \in Seq(C)
             /\ Position(w)'
  BY <1>2, <1>3 DEF StreamInv
<1> HIDE DEF C
<1>4. CASE Begin(w)
  <2> DEFINE o == Current(w)
  <2>1. /\ o \in Operation /\ done[w] + 1 \in 1 .. Len(Program[w]) /\ at[w] = "next"
        /\ o.op \in {"str", "num", "base", "endl"} /\ Width(o) \in Nat
        /\ at' = [at EXCEPT ![w] = IF o.op = "endl" THEN "lock" ELSE IF o.op = "base" THEN "next" ELSE "append"]
        /\ base' \in 2 .. 16
        /\ done' = [done EXCEPT ![w] = IF o.op = "base" THEN done[w] + 1 ELSE done[w]]
    BY <1>4, Begins
  <2>2. PICK t \in Seq(Char) : text' = [text EXCEPT ![w] = t] /\ Len(t) <= Width(o)
    BY <1>4, Begins
  <2>3. /\ UNCHANGED <<buffer, writer_position>> /\ inside' = inside \cup {w}
        /\ overlapped' = (overlapped \/ inside \ {w} # {})
        /\ said' = (IF overlapped' THEN Nothing ELSE Saying(said, o))
        /\ port' = IF overlapped' THEN <<>> ELSE port
    BY <1>4 DEF Begin, Current
  <2>4. said' \in [out : Seq(C), base : 2 .. 16]
    <3>1. Saying(said, o) \in [out : Seq(C), base : 2 .. 16]
      BY <1>1, <2>1, SayingIs DEF C
    <3>2. Nothing \in [out : Seq(C), base : 2 .. 16]
      BY DEF Nothing
    <3> QED BY <2>3, <3>1, <3>2
  <2>5. overlapped' \in BOOLEAN
    BY <1>1, <2>3
  <2>6. port' \in Seq(C) /\ inside' \subseteq Writers
    BY <1>1, <2>3
  <2>7. at'[w] = (IF o.op = "endl" THEN "lock" ELSE IF o.op = "base" THEN "next" ELSE "append")
        /\ text'[w] = t /\ done'[w] = IF o.op = "base" THEN done[w] + 1 ELSE done[w]
    BY <1>1, <2>1, <2>2
  <2>8. Position(w)'
    <3>1. CASE o.op = "base"
      BY <1>1, <2>1, <2>7, <3>1 DEF Position, Appending, Flushing
    <3>2. CASE o.op # "base"
      <4>1. Current(w)' = o
        BY <2>7, <3>2 DEF Current
      <4> HIDE DEF o
      <4> QED BY <1>1, <2>1, <2>2, <2>7, <3>2, <4>1 DEF Position, Appending, Flushing
    <3> QED BY <3>1, <3>2
  <2>9. at' \in [Writers -> {"next"} \cup Appending \cup Flushing]
    <3> HIDE DEF o
    <3> QED BY <1>1, <2>1 DEF Appending, Flushing
  <2> QED BY <1>1, <2>1, <2>2, <2>3, <2>4, <2>5, <2>6, <2>8, <2>9
<1> USE DEF Step
<1>5. CASE Load(w)
  BY <1>1, <1>5 DEF Load, Read, line, history, Position, Current, Appending, Flushing, StreamInv
<1>6. CASE Bump(w)
  BY <1>1, <1>6 DEF Bump, history, Position, Current, Appending, Flushing
<1>7. CASE Store(w)
  <2>1. Head(text[w]) \in C /\ Tail(text[w]) \in Seq(Char) /\ Len(Tail(text[w])) <= Len(text[w])
    BY <1>1, <1>7 DEF Store, Position, C
  <2>2. Len(text[w]) <= Width(Current(w)) /\ Width(Current(w)) \in Nat
    <3>1. done[w] + 1 \in 1 .. Len(Program[w])
      BY <1>1, <1>7 DEF Store, Position
    <3> QED BY <1>1, <1>7, <3>1, Operations DEF Store, Position, Appending, Current
  <2>3. buffer' \in [0 .. (BUFF_LEN - 1) -> C]
    BY <1>1, <1>7, <2>1 DEF Store
  <2>4. text'[w] = Tail(text[w]) /\ text' \in [Writers -> Seq(Char)]
    BY <1>1, <1>7, <2>1 DEF Store
  <2>5. Len(Tail(text[w])) \in Nat /\ Len(text[w]) \in Nat
    BY <1>1, <2>1
  <2>6. Current(w)' = Current(w)
    BY <1>7 DEF Store, Current
  <2>7. Position(w)'
    <3>1. Len(text'[w]) <= Width(Current(w))
      BY <2>1, <2>2, <2>4, <2>5
    <3> QED BY <1>1, <1>7, <2>6, <3>1 DEF Store, history, Position, Appending, Flushing
  <2> QED BY <1>1, <1>7, <2>3, <2>4, <2>7 DEF Store, history, Appending
<1>8. CASE Appended(w)
  BY <1>1, <1>8 DEF Appended, Finish, line, history, Position, Current, Appending, Flushing
<1>9. CASE Lock(w)
  BY <1>1, <1>9 DEF Lock, line, history, Position, Current, Appending, Flushing
<1>10. CASE Measure(w)
  BY <1>1, <1>10 DEF Measure, line, history, Position, Current, Appending, Flushing
<1>11. CASE SendChars(w)
  <2>1. port' \in Seq(C)
    <3>1. CASE overlapped
      BY <1>1, <1>11, <3>1 DEF SendChars, Put
    <3>2. CASE ~overlapped
      <4>1. Told(writer_position, <<NUL>>) /\ reg[w] = writer_position
        BY <1>11, <3>2 DEF LineInv, Alone, SendChars
      <4>2. port' = said.out
        BY <1>11, <3>2, <4>1 DEF Told, First, Whole, SendChars, Put
      <4> QED BY <1>1, <4>2
    <3> QED BY <3>1, <3>2
  <2> QED BY <1>1, <1>11, <2>1 DEF SendChars, line, history, Position, Current, Appending, Flushing
<1>12. CASE Empty(w)
  <2>1. buffer' \in [0 .. (BUFF_LEN - 1) -> C]
    BY <1>1, <1>12 DEF Empty, C
  <2> QED BY <1>1, <1>12, <2>1 DEF Empty, history, Position, Current, Appending, Flushing
<1>13. CASE Reset(w)
  BY <1>1, <1>13 DEF Reset, Finish, Position, Current, Appending, Flushing
<1> QED BY <1>4, <1>5, <1>6, <1>7, <1>8, <1>9, <1>10, <1>11, <1>12, <1>13 DEF Write

-----------------------------------------------------------------------------
\* The stream of a writer that is alone
-----------------------------------------------------------------------------
\* z is x followed by y.
Joined(z, x, y, C) == /\ z \in Seq(C) /\ Len(z) = Len(x) + Len(y) /\ Len(x) \in Nat /\ Len(y) \in Nat
                      /\ \A k \in 1 .. Len(x) : z[k] = x[k]
                      /\ \A k \in 1 .. Len(y) : z[Len(x) + k] = y[k]

\* Concatenation joins.
LEMMA ConcatIs ==
  ASSUME NEW C, NEW x \in Seq(C), NEW y \in Seq(C)
  PROVE  Joined(x \o y, x, y, C)
BY DEF Joined

\* Sequences are the same if their elements are.
LEMMA SameSeq ==
  ASSUME NEW C, NEW x \in Seq(C), NEW y \in Seq(C), Len(x) = Len(y), \A k \in 1 .. Len(x) : x[k] = y[k]
  PROVE  x = y
OBVIOUS

\* Characters stay the same when the first one moves from the text into the
\* buffer.
Moves(f, g, p, t, C) == /\ t # <<>> /\ g[p] = Head(t)
                        /\ \A k \in 0 .. (p - 1) : f[k] \in C /\ g[k] = f[k]

\* What is said stays the same.
LEMMA OneMoves ==
  ASSUME NEW C, NEW s \in Seq(C), NEW p \in Nat, NEW f, NEW g, NEW t \in Seq(C), Moves(f, g, p, t, C)
  PROVE  Whole(s, f, p, t) = Whole(s, g, p + 1, Tail(t))
<1> DEFINE a == First(f, p)
           b == First(g, p + 1)
<1>1. a \in Seq(C) /\ Len(a) = p /\ \A k \in 1 .. p : a[k] = f[k - 1]
  <2>1. \A k \in 1 .. p : f[k - 1] \in C
    BY DEF Moves
  <2> QED BY <2>1 DEF First
<1>2. Head(t) \in C /\ Tail(t) \in Seq(C) /\ Len(t) \in Nat \ {0} /\ Len(Tail(t)) = Len(t) - 1
      /\ Head(t) = t[1] /\ \A k \in 1 .. (Len(t) - 1) : Tail(t)[k] = t[k + 1]
  BY DEF Moves
<1>3. /\ b \in Seq(C) /\ Len(b) = p + 1 /\ b[p + 1] = Head(t)
      /\ \A k \in 1 .. p : b[k] = a[k]
  <2>1. ASSUME NEW k \in 1 .. p PROVE k - 1 \in 0 .. (p - 1) /\ g[k - 1] = a[k] /\ a[k] \in C
    BY <1>1 DEF Moves
  <2>2. g[p] \in C /\ g[p] = Head(t) /\ (p + 1) - 1 = p
    BY <1>2 DEF Moves
  <2> HIDE DEF a
  <2>3. \A k \in 1 .. (p + 1) : g[k - 1] \in C
    <3> SUFFICES ASSUME NEW k \in 1 .. (p + 1) PROVE g[k - 1] \in C
      OBVIOUS
    <3>1. k \in 1 .. p \/ k = p + 1
      OBVIOUS
    <3> QED BY <2>1, <2>2, <3>1
  <2>4. b = [k \in 1 .. (p + 1) |-> g[k - 1]]
    BY DEF First
  <2> HIDE DEF b
  <2>5. b \in Seq(C) /\ Len(b) = p + 1 /\ \A k \in 1 .. (p + 1) : b[k] = g[k - 1]
    BY <2>3, <2>4
  <2>6. p + 1 \in 1 .. (p + 1) /\ \A k \in 1 .. p : k \in 1 .. (p + 1)
    OBVIOUS
  <2> QED BY <2>1, <2>2, <2>5, <2>6
<1> HIDE DEF a, b
<1> DEFINE u == s \o a
           v == s \o b
           x == u \o t
           y == v \o Tail(t)
<1>4. Joined(u, s, a, C)
  BY <1>1, ConcatIs
<1>5. Joined(v, s, b, C)
  BY <1>3, ConcatIs
<1> HIDE DEF u, v
<1>6. Joined(x, u, t, C)
  <2>1. u \in Seq(C)
    BY <1>4 DEF Joined
  <2> QED BY <2>1, ConcatIs
<1>7. Joined(y, v, Tail(t), C)
  <2>1. v \in Seq(C)
    BY <1>5 DEF Joined
  <2> QED BY <1>2, <2>1, ConcatIs
<1> HIDE DEF x, y
<1>0. /\ Len(s) \in Nat /\ Len(u) = Len(s) + p /\ Len(v) = Len(s) + (p + 1)
      /\ Len(x) = Len(s) + p + Len(t) /\ Len(y) = Len(s) + p + Len(t)
  BY <1>1, <1>2, <1>3, <1>4, <1>5, <1>6, <1>7 DEF Joined
<1> USE <1>0 DEF Joined
<1>8. ASSUME NEW k \in 1 .. (Len(s) + p + Len(t)) PROVE x[k] = y[k]
  <2>1. CASE k <= Len(s)
    <3>1. k \in 1 .. Len(s) /\ k \in 1 .. Len(u) /\ k \in 1 .. Len(v)
      BY <1>4, <1>5, <2>1
    <3> QED BY <1>4, <1>5, <1>6, <1>7, <3>1
  <2>2. CASE k > Len(s) /\ k <= Len(s) + p
    <3> DEFINE j == k - Len(s)
    <3>1. j \in 1 .. p /\ j \in 1 .. (p + 1) /\ k \in 1 .. Len(u) /\ k \in 1 .. Len(v) /\ Len(s) + j = k
      BY <1>4, <1>5, <2>2
    <3> HIDE DEF j
    <3>2. x[k] = u[k] /\ y[k] = v[k]
      BY <1>6, <1>7, <3>1
    <3>3. u[Len(s) + j] = a[j] /\ v[Len(s) + j] = b[j] /\ b[j] = a[j]
      BY <1>3, <1>4, <1>5, <1>1, <3>1
    <3> QED BY <3>1, <3>2, <3>3
  <2>3. CASE k = Len(s) + p + 1
    <3>1. 1 \in 1 .. Len(t) /\ k = Len(u) + 1 /\ k \in 1 .. Len(v) /\ k = Len(s) + (p + 1) /\ p + 1 \in 1 .. (p + 1)
      BY <1>2, <1>4, <1>5, <2>3
    <3>2. x[k] = t[1]
      BY <1>6, <3>1
    <3>3. y[k] = v[k] /\ v[k] = b[p + 1]
      BY <1>5, <1>7, <3>1
    <3> QED BY Zenon, <1>2, <1>3, <3>2, <3>3
  <2>4. CASE k > Len(s) + p + 1
    <3> DEFINE j == k - (Len(s) + p + 1)
    <3>1. /\ j \in 1 .. (Len(t) - 1) /\ j + 1 \in 1 .. Len(t)
          /\ Len(v) + j = k /\ Len(u) + (j + 1) = k
      <4>1. PICK lt, ls : lt = Len(t) /\ ls = Len(s)
        OBVIOUS
      <4>2. /\ lt \in Nat \ {0} /\ ls \in Nat /\ k \in 1 .. (ls + p + lt) /\ k > ls + p + 1
            /\ j = k - (ls + p + 1) /\ Len(v) = ls + (p + 1) /\ Len(u) = ls + p
        BY <1>2, <2>4, <4>1
      <4> HIDE DEF j
      <4> HIDE <1>0
      <4> QED BY <4>1, <4>2
    <3> HIDE DEF j
    <3>2. x[k] = t[j + 1]
      BY <1>6, <3>1
    <3>3. y[k] = Tail(t)[j]
      BY <1>2, <1>7, <3>1
    <3> QED BY <1>2, <3>1, <3>2, <3>3
  <2> QED BY <1>2, <1>4, <2>1, <2>2, <2>3, <2>4
<1>9. x = y
  BY <1>6, <1>7, <1>8, SameSeq
<1> QED BY <1>9 DEF x, y, u, v, a, b, Whole

\* Without a text or a character of the buffer, a stream is what was sent.
LEMMA SeqFacts ==
  ASSUME NEW C, NEW s \in Seq(C), NEW t \in Seq(C), NEW f
  PROVE  s \o <<>> = s /\ Whole(s, f, 0, <<>>) = s /\ Len(s \o t) = Len(s) + Len(t)
<1>1. First(f, 0) = <<>>
  BY DEF First
<1> QED BY <1>1 DEF Whole

\* When a writer begins, nobody else is inside a line, and nothing is left to say.
LEMMA LineBegin ==
  ASSUME StreamInv, LineInv, NEW w \in Writers, Begin(w), ~overlapped'
  PROVE  LineInv'
<1> DEFINE o == Current(w)
           C == Char \cup {NUL}
<1>1. /\ o \in Operation /\ at[w] = "next" /\ o.op \in {"str", "num", "base", "endl"}
      /\ at' = [at EXCEPT ![w] = IF o.op = "endl" THEN "lock" ELSE IF o.op = "base" THEN "next" ELSE "append"]
      /\ base' = IF o.op = "base" THEN o.num ELSE base
  BY Begins
<1>2. PICK t \in Seq(Char) : /\ text' = [text EXCEPT ![w] = t]
                             /\ o.op # "endl" => t = Asked(o, base)
                             /\ o.op \in {"base", "endl"} => t = <<>>
  BY Begins
<1>3. /\ UNCHANGED <<buffer, writer_position, reg>> /\ inside' = inside \cup {w}
      /\ ~overlapped /\ inside \ {w} = {}
      /\ said' = Saying(said, o) /\ port' = port
  BY DEF Begin, Current
<1>4. /\ said \in [out : Seq(C), base : 2 .. 16] /\ port \in Seq(C) /\ writer_position \in Nat
      /\ buffer \in [0 .. (BUFF_LEN - 1) -> C]
      /\ at \in [Writers -> {"next"} \cup Appending \cup Flushing] /\ text \in [Writers -> Seq(Char)]
      /\ inside \subseteq Writers
  BY DEF StreamInv
<1>5. Saying(said, o).out = said.out \o Asked(o, said.base)
      /\ Saying(said, o).base = IF o.op = "base" THEN o.num ELSE said.base
  BY <1>1, <1>4, SayingIs
<1>6. base = said.base /\ Told(writer_position, <<>>)
  <2>1. CASE inside = {}
    BY <1>3, <2>1 DEF LineInv
  <2>2. CASE w \in inside
    BY <1>1, <1>3, <2>2 DEF LineInv, Alone
  <2> QED BY <1>3, <2>1, <2>2 DEF LineInv
<1> HIDE DEF o
<1>7. base' = said'.base
  BY <1>1, <1>3, <1>5, <1>6
<1>8. inside' = {w} /\ \A v \in Writers : v # w => at'[v] = "next"
  BY <1>1, <1>3, <1>4 DEF LineInv
<1>9. writer_position \in 0 .. BUFF_LEN
  BY <1>6 DEF Told
<1>10. said.out = port \o First(buffer, writer_position)
  <2>1. First(buffer, writer_position) \in Seq(C)
    <3>1. \A k \in 1 .. writer_position : k - 1 \in 0 .. (BUFF_LEN - 1)
      BY <1>9, LoggerAssumption
    <3>2. \A k \in 1 .. writer_position : buffer[k - 1] \in C
      BY <1>4, <3>1
    <3> HIDE DEF C
    <3> QED BY <1>4, <3>2 DEF First
  <2>2. port \o First(buffer, writer_position) \in Seq(C)
    BY <1>4, <2>1
  <2>3. (port \o First(buffer, writer_position)) \o <<>> = port \o First(buffer, writer_position)
    <3> HIDE DEF C
    <3> QED BY <2>2, SeqFacts
  <2> QED BY <1>6, <2>3 DEF Told, Whole
<1>0. PICK r : r = Asked(o, said.base)
  OBVIOUS
<1>11. Told(writer_position, r)'
  BY <1>0, <1>3, <1>5, <1>6, <1>10 DEF Told, Whole
<1>12. /\ o.op # "endl" => text'[w] = r
       /\ o.op = "endl" => r = <<NUL>>
       /\ o.op = "base" => r = <<>>
  BY <1>0, <1>2, <1>4, <1>6 DEF Asked
<1>13. at'[w] = IF o.op = "endl" THEN "lock" ELSE IF o.op = "base" THEN "next" ELSE "append"
  BY <1>1, <1>4
<1>14. Alone(w)'
  BY <1>1, <1>11, <1>12, <1>13 DEF Alone
<1> QED BY <1>7, <1>8, <1>14 DEF LineInv

\* The stream of a writer that is alone goes on.
LEMMA LineStep ==
  ASSUME StreamInv, LineInv, NEW w \in Writers, Write(w)
  PROVE  LineInv'
<1> DEFINE C == Char \cup {NUL}
<1>1. CASE Begin(w)
  <2>1. CASE overlapped'
    BY <2>1 DEF LineInv
  <2>2. CASE ~overlapped'
    BY <1>1, <2>2, LineBegin
  <2> QED BY <2>1, <2>2
<1>2. CASE overlapped /\ ~Begin(w)
  <2>1. overlapped' = overlapped
    BY <1>2 DEF Write, Load, Bump, Store, Appended, Lock, Measure, SendChars, Empty, Reset, history
  <2> QED BY <1>2, <2>1 DEF LineInv
<1>3. CASE ~overlapped /\ ~Begin(w)
  <2>1. /\ at \in [Writers -> {"next"} \cup Appending \cup Flushing] /\ text \in [Writers -> Seq(Char)]
        /\ said \in [out : Seq(C), base : 2 .. 16] /\ port \in Seq(C) /\ writer_position \in Nat
        /\ buffer \in [0 .. (BUFF_LEN - 1) -> C] /\ DOMAIN reg = Writers /\ text[w] \in Seq(Char)
        /\ BUFF_LEN \in Nat /\ NUL \notin Char
    BY LoggerAssumption DEF StreamInv
  <2>2. /\ said' = said /\ overlapped' = overlapped /\ base' = base
        /\ at[w] # "next" /\ at' = [at EXCEPT ![w] = at'[w]]
    BY <1>3, <2>1 DEF Write, Load, Bump, Store, Appended, Lock, Measure, SendChars, Empty, Reset, line, history, Step
  <2>3. inside = {w} /\ Alone(w) /\ base = said.base /\ \A v \in Writers : v # w => at[v] = "next"
    BY <1>3, <2>1, <2>2 DEF LineInv
  <2>4. base' = said'.base /\ \A v \in Writers : v # w => at'[v] = "next"
    BY <2>1, <2>2, <2>3
  <2>5. ASSUME inside' = inside, Alone(w)' PROVE LineInv'
    BY <2>3, <2>4, <2>5 DEF LineInv
  <2>6. CASE Load(w)
    <3>1. UNCHANGED <<buffer, writer_position, port, said, text, inside>> /\ at[w] = "append"
          /\ at'[w] = (IF writer_position < BUFF_LEN THEN "bump" ELSE "failed") /\ reg'[w] = writer_position
      BY <2>1, <2>6 DEF Load, Step, Read, line, history
    <3>2. Told(writer_position, text[w])'
      BY <2>3, <3>1 DEF Told, Alone
    <3>3. Alone(w)'
      BY <2>1, <3>1, <3>2 DEF Alone
    <3> QED BY <2>5, <3>1, <3>3
  <2>7. CASE Bump(w)
    <3>1. UNCHANGED <<buffer, port, said, text, inside, reg>> /\ at[w] = "bump"
          /\ at'[w] = "store" /\ writer_position' = reg[w] + 1
      BY <2>1, <2>7 DEF Bump, Step, history
    <3>2. Told(reg[w], text[w])'
      BY <2>3, <3>1 DEF Told, Alone
    <3>3. Alone(w)'
      BY <2>3, <3>1, <3>2 DEF Alone
    <3> QED BY <2>5, <3>1, <3>3
  <2>8. CASE Store(w)
    <3> DEFINE p == reg[w]
               t == text[w]
    <3>1. /\ UNCHANGED <<writer_position, port, said, inside>> /\ at[w] = "store" /\ at'[w] = "append"
          /\ buffer' = [buffer EXCEPT ![p] = Head(t)] /\ text'[w] = Tail(t)
      BY <2>1, <2>8 DEF Store, Step, history
    <3>2. Told(p, t) /\ writer_position = p + 1 /\ p < BUFF_LEN /\ t # <<>>
      BY <2>3, <3>1 DEF Alone, StreamInv, Position
    <3> HIDE DEF p, t
    <3>3. p \in 0 .. (BUFF_LEN - 1) /\ p \in Nat /\ p + 1 \in 0 .. BUFF_LEN
      BY <2>1, <3>2 DEF Told
    <3>4. t \in Seq(Char) /\ t \in Seq(C) /\ Head(t) \in Char
      BY <2>1, <3>2 DEF t
    <3>5. /\ buffer'[p] = Head(t)
          /\ \A k \in 0 .. (BUFF_LEN - 1) : k # p => buffer'[k] = buffer[k]
      BY <2>1, <3>1, <3>3
    <3>6. \A k \in 0 .. (p - 1) : buffer[k] \in C /\ buffer'[k] = buffer[k]
      <4>1. \A k \in 0 .. (p - 1) : k \in 0 .. (BUFF_LEN - 1) /\ k # p
        BY <2>1, <3>3
      <4> HIDE DEF C
      <4> QED BY <2>1, <3>5, <4>1
    <3>7. PICK f, g : f = buffer /\ g = buffer'
      OBVIOUS
    <3>8. Whole(port, f, p, t) = Whole(port, g, p + 1, Tail(t))
      <4>1. port \in Seq(C) /\ t \in Seq(C) /\ Moves(f, g, p, t, C)
        BY <2>1, <3>2, <3>4, <3>5, <3>6, <3>7 DEF Moves
      <4> HIDE DEF C
      <4> QED BY <3>3, <4>1, OneMoves
    <3>9. said'.out = Whole(port', buffer', p + 1, Tail(t))
      BY <3>1, <3>2, <3>7, <3>8 DEF Told
    <3>10. /\ \A k \in 0 .. p : buffer'[k] # NUL
           /\ \A k \in (p + 1) .. (BUFF_LEN - 1) : buffer'[k] = NUL
      <4>1. \A k \in 0 .. p : buffer'[k] # NUL
        BY <2>1, <3>2, <3>3, <3>4, <3>5 DEF Told
      <4>2. \A k \in (p + 1) .. (BUFF_LEN - 1) : buffer'[k] = NUL
        BY <2>1, <3>2, <3>3, <3>5 DEF Told
      <4> QED BY <4>1, <4>2
    <3>11. Told(writer_position, text[w])'
      <4>1. writer_position' = p + 1 /\ text'[w] = Tail(t) /\ (p + 1) - 1 = p
        BY <3>1, <3>2, <3>3
      <4> QED BY <3>3, <3>9, <3>10, <4>1 DEF Told
    <3>12. Alone(w)'
      BY <3>1, <3>11 DEF Alone
    <3> QED BY <2>5, <3>1, <3>12
  <2>9. CASE Appended(w)
    <3>1. UNCHANGED <<buffer, writer_position, port, said, text, inside>> /\ at[w] = "append"
          /\ at'[w] = "next" /\ text[w] = <<>>
      BY <2>1, <2>9 DEF Appended, Step, line, history
    <3>2. Told(writer_position, <<>>)'
      BY <2>3, <3>1 DEF Told, Alone
    <3>3. Alone(w)'
      BY <3>1, <3>2 DEF Alone
    <3> QED BY <2>5, <3>1, <3>3
  <2>10. CASE Lock(w)
    <3>1. UNCHANGED <<buffer, writer_position, port, said, inside>> /\ at[w] = "lock" /\ at'[w] = "wait"
      BY <2>1, <2>10 DEF Lock, Step, line, history
    <3>2. Told(writer_position, <<NUL>>)'
      BY <2>3, <3>1 DEF Told, Alone
    <3>3. Alone(w)'
      BY <3>1, <3>2 DEF Alone
    <3> QED BY <2>5, <3>1, <3>3
  <2>11. CASE Measure(w)
    <3>1. UNCHANGED <<buffer, writer_position, port, said, inside>> /\ at[w] = "wait" /\ at'[w] = "send"
          /\ reg'[w] = strlen(buffer)
      BY <2>1, <2>11 DEF Measure, Step, Read, line, history
    <3>2. Told(writer_position, <<NUL>>)
      BY <2>3, <3>1 DEF Alone
    <3>3. strlen(buffer) = writer_position
      <4>1. /\ writer_position \in 0 .. BUFF_LEN
            /\ \A k \in 0 .. (writer_position - 1) : buffer[k] # NUL
            /\ writer_position < BUFF_LEN => buffer[writer_position] = NUL
        BY <2>1, <3>2 DEF Told
      <4> QED BY <4>1, StrlenIs
    <3>4. Told(writer_position, <<NUL>>)'
      BY <3>1, <3>2 DEF Told
    <3>5. Alone(w)'
      BY <3>1, <3>3, <3>4 DEF Alone
    <3> QED BY <2>5, <3>1, <3>5
  <2>12. CASE SendChars(w)
    <3>1. UNCHANGED <<buffer, writer_position, said, inside>> /\ at[w] = "send" /\ at'[w] = "empty"
          /\ reg'[w] = 0 /\ Put(reg[w])
      BY <2>1, <2>12 DEF SendChars, Step, Read, line, history
    <3>2. Told(writer_position, <<NUL>>) /\ reg[w] = writer_position
      BY <2>3, <3>1 DEF Alone
    <3>3. port' = said'.out
      BY <1>3, <3>1, <3>2 DEF Told, Put, First, Whole
    <3>4. \A k \in 0 .. (BUFF_LEN - 1) : k < 0 \/ k >= writer_position => buffer[k] = NUL
      BY <2>1, <3>2 DEF Told
    <3>5. writer_position \in 0 .. BUFF_LEN
      BY <3>2 DEF Told
    <3>6. Alone(w)'
      BY <2>1, <3>1, <3>3, <3>4, <3>5 DEF Alone
    <3> QED BY <2>5, <3>1, <3>6
  <2>13. CASE Empty(w)
    <3>1. UNCHANGED <<writer_position, port, said, inside>> /\ at[w] = "empty" /\ at'[w] = "empty"
          /\ reg[w] < writer_position /\ reg'[w] = reg[w] + 1 /\ buffer' = [buffer EXCEPT ![reg[w]] = NUL]
      BY <2>1, <2>13 DEF Empty, Step, Read, history
    <3>2. /\ port = said.out /\ reg[w] \in 0 .. writer_position /\ writer_position <= BUFF_LEN
          /\ \A k \in 0 .. (BUFF_LEN - 1) : k < reg[w] \/ k >= writer_position => buffer[k] = NUL
      BY <2>3, <3>1 DEF Alone
    <3>3. ASSUME NEW k \in 0 .. (BUFF_LEN - 1), k < reg[w] + 1 \/ k >= writer_position PROVE buffer'[k] = NUL
      <4>1. CASE k = reg[w]
        BY <2>1, <3>1, <4>1
      <4>2. CASE k # reg[w]
        BY <2>1, <3>1, <3>2, <3>3, <4>2
      <4> QED BY <4>1, <4>2
    <3>4. reg[w] + 1 \in 0 .. writer_position
      BY <2>1, <3>1, <3>2
    <3>5. Alone(w)'
      BY <3>1, <3>2, <3>3, <3>4 DEF Alone
    <3> QED BY <2>5, <3>1, <3>5
  <2>14. CASE Reset(w)
    <3>1. UNCHANGED <<buffer, port, said>> /\ at[w] = "empty" /\ at'[w] = "next"
          /\ reg[w] >= writer_position /\ writer_position' = 0 /\ inside' = inside \ {w}
      BY <2>1, <2>14 DEF Reset, Step
    <3>2. /\ port = said.out /\ reg[w] \in 0 .. writer_position /\ writer_position <= BUFF_LEN
          /\ \A k \in 0 .. (BUFF_LEN - 1) : k < reg[w] \/ k >= writer_position => buffer[k] = NUL
      BY <2>3, <3>1 DEF Alone
    <3>3. ASSUME NEW k \in 0 .. (BUFF_LEN - 1) PROVE buffer'[k] = NUL
      <4>1. k < reg[w] \/ k >= writer_position
        BY <2>1, <3>1, <3>2
      <4> QED BY <3>1, <3>2, <4>1
    <3>4. said'.out = Whole(port', buffer', 0, <<>>)
      <4>1. PICK g : g = buffer'
        OBVIOUS
      <4>2. Whole(port, g, 0, <<>>) = port
        <5> HIDE DEF C
        <5> QED BY <2>1, SeqFacts
      <4> QED BY <3>1, <3>2, <4>1, <4>2
    <3>5. Told(0, <<>>)'
      BY <2>1, <3>3, <3>4 DEF Told
    <3>6. inside' = {} /\ at'[w] = "next" /\ \A v \in Writers : at'[v] = "next"
      BY <2>3, <2>4, <3>1
    <3> QED BY <2>4, <3>1, <3>5, <3>6 DEF LineInv
  <2> QED BY <1>3, <2>6, <2>7, <2>8, <2>9, <2>10, <2>11, <2>12, <2>13, <2>14 DEF Write
<1> QED BY <1>1, <1>2, <1>3

-----------------------------------------------------------------------------
\* The lines fit
-----------------------------------------------------------------------------
\* A writer that is alone stays within its line.
LEMMA FitStep ==
  ASSUME StreamInv, LineInv, FitInv, NEW w \in Writers, Write(w)
  PROVE  FitInv'
<1> SUFFICES ASSUME LinesFit, ~overlapped' PROVE \A v \in inside' : Fits(v)'
  BY DEF FitInv
<1> DEFINE p == writer_position
           c == Column(w)
           d == done[w]
<1>1. /\ at \in [Writers -> {"next"} \cup Appending \cup Flushing] /\ text \in [Writers -> Seq(Char)]
      /\ p \in Nat /\ DOMAIN reg = Writers /\ Position(w) /\ inside \subseteq Writers
      /\ done \in [Writers -> Nat] /\ d \in Nat /\ text[w] \in Seq(Char) /\ Len(text[w]) \in Nat
  BY DEF StreamInv
<1>2. /\ Len(Program[w]) \in Nat /\ BUFF_LEN \in Nat
      /\ \A k \in 0 .. Len(Program[w]) : c[k] \in Nat
      /\ \A k \in 1 .. Len(Program[w]) : /\ Width(Program[w][k]) \in Nat
                                         /\ c[k] <= BUFF_LEN
                                         /\ Program[w][k].op # "endl" => c[k] = c[k - 1] + Width(Program[w][k])
  <2>1. DOMAIN Program[w] = 1 .. Len(Program[w])
    BY Operations
  <2> QED BY <2>1, Operations, ColumnIs, LoggerAssumption DEF LinesFit
<1>3. CASE Begin(w)
  <2>1. /\ at[w] = "next" /\ inside' = inside \cup {w} /\ inside \ {w} = {} /\ ~overlapped
        /\ UNCHANGED writer_position
    BY <1>3, Begins DEF Begin
  <2>2. p <= c[d]
    <3>1. CASE w \in inside
      BY <2>1, <3>1 DEF FitInv, Fits
    <3>2. CASE inside = {}
      <4>1. p = 0
        BY <2>1, <3>2 DEF LineInv
      <4>2. c[d] \in Nat
        BY <1>1, <1>2 DEF Position
      <4> HIDE DEF p, c, d
      <4> QED BY <4>1, <4>2
    <3> QED BY <2>1, <3>1, <3>2
  <2>3. PICK o : o = Current(w)
    OBVIOUS
  <2>4. /\ d + 1 \in 1 .. Len(Program[w]) /\ o = Program[w][d + 1]
        /\ o.op \in {"str", "num", "base", "endl"}
        /\ at' = [at EXCEPT ![w] = IF o.op = "endl" THEN "lock" ELSE IF o.op = "base" THEN "next" ELSE "append"]
        /\ done' = [done EXCEPT ![w] = IF o.op = "base" THEN done[w] + 1 ELSE done[w]]
    BY <1>3, <2>3, Begins DEF Current
  <2>5. PICK t \in Seq(Char) : text' = [text EXCEPT ![w] = t] /\ Len(t) <= Width(o)
    BY <1>3, <2>3, Begins
  <2>6. /\ at'[w] = (IF o.op = "endl" THEN "lock" ELSE IF o.op = "base" THEN "next" ELSE "append")
        /\ done'[w] = (IF o.op = "base" THEN d + 1 ELSE d)
        /\ text'[w] = t /\ Len(t) \in Nat
    BY <1>1, <2>4, <2>5
  <2>7. /\ c[d] \in Nat /\ Width(o) \in Nat
        /\ o.op # "endl" => c[d + 1] = c[d] + Width(o)
    <3> HIDE DEF c, d
    <3>1. d \in 0 .. Len(Program[w]) /\ (d + 1) - 1 = d
      BY <1>1, <1>2, <2>4
    <3> QED BY <1>2, <2>4, <3>1
  <2>8. Fits(w)'
    <3>1. p' = p /\ p \in Nat
      BY <1>1, <2>1
    <3> HIDE DEF c, d, p
    <3>2. o.op = "base" => p <= c[d + 1]
      BY <2>2, <2>7, <3>1
    <3>3. o.op \in {"str", "num"} => p + Len(t) <= c[d + 1]
      BY <2>2, <2>5, <2>6, <2>7, <3>1
    <3> QED BY <2>4, <2>6, <3>1, <3>2, <3>3 DEF Fits, c, d, p
  <2> QED BY <2>1, <2>8
<1>4. CASE ~Begin(w)
  <2>1. /\ overlapped' = overlapped /\ at[w] # "next" /\ inside' \subseteq inside
        /\ at' = [at EXCEPT ![w] = at'[w]]
    BY <1>1, <1>4 DEF Write, Load, Bump, Store, Appended, Lock, Measure, SendChars, Empty, Reset, line, history, Step
  <2>2. inside = {w} /\ Alone(w) /\ Fits(w)
    BY <1>1, <2>1 DEF LineInv, FitInv
  <2>3. d + 1 \in 1 .. Len(Program[w]) /\ c[d + 1] <= BUFF_LEN /\ c[d + 1] \in Nat
    BY <1>1, <1>2, <2>1 DEF Position
  <2> SUFFICES ASSUME inside' = {w} PROVE Fits(w)'
    BY <2>1, <2>2
  <2>4. CASE Load(w)
    <3>1. /\ at[w] = "append" /\ text[w] # <<>> /\ UNCHANGED <<text, done, writer_position>>
          /\ at'[w] = IF p < BUFF_LEN THEN "bump" ELSE "failed"
      BY <1>1, <2>4 DEF Load, Step, line, history
    <3>2. Len(text[w]) >= 1
      BY <1>1, <3>1
    <3>3. p < BUFF_LEN
      <4>1. p + Len(text[w]) <= c[d + 1]
        BY <2>2, <3>1 DEF Fits
      <4> HIDE DEF p, c, d
      <4> QED BY <1>1, <1>2, <2>3, <3>2, <4>1
    <3> QED BY <2>2, <3>1, <3>3 DEF Fits
  <2>5. CASE Bump(w)
    <3>1. at[w] = "bump" /\ at'[w] = "store" /\ UNCHANGED <<text, done, reg>> /\ reg[w] = p
      BY <1>1, <2>2, <2>5 DEF Bump, Step, history, Alone
    <3> QED BY <2>2, <3>1 DEF Fits
  <2>6. CASE Store(w)
    <3>1. /\ at[w] = "store" /\ at'[w] = "append" /\ UNCHANGED <<done, writer_position>>
          /\ text'[w] = Tail(text[w]) /\ text[w] # <<>> /\ p = reg[w] + 1 /\ reg[w] \in Nat
      BY <1>1, <2>2, <2>6 DEF Store, Step, history, Alone, Position
    <3>2. Len(text'[w]) = Len(text[w]) - 1
      BY <1>1, <3>1
    <3>3. reg[w] + Len(text[w]) <= c[d + 1]
      BY <2>2, <3>1 DEF Fits
    <3>4. p + Len(text'[w]) <= c[d + 1]
      <4> HIDE DEF p, c, d
      <4> QED BY <1>1, <2>3, <3>1, <3>2, <3>3
    <3> QED BY <3>1, <3>4 DEF Fits
  <2>7. CASE Appended(w)
    <3>1. /\ at[w] = "append" /\ at'[w] = "next" /\ UNCHANGED writer_position /\ done'[w] = d + 1
          /\ p + Len(text[w]) <= c[d + 1]
      BY <1>1, <2>2, <2>7 DEF Appended, Finish, Step, line, history, Fits
    <3>2. p <= c[d + 1]
      <4> HIDE DEF p, c, d
      <4> QED BY <1>1, <2>3, <3>1
    <3> QED BY <3>1, <3>2 DEF Fits
  <2>8. CASE Lock(w) \/ Measure(w) \/ SendChars(w) \/ Empty(w)
    <3>1. at'[w] \in Flushing
      BY <1>1, <2>8 DEF Lock, Measure, SendChars, Empty, Step, Flushing
    <3> QED BY <3>1 DEF Fits, Flushing
  <2>9. CASE Reset(w)
    BY <2>2, <2>9 DEF Reset
  <2> QED BY <1>4, <2>4, <2>5, <2>6, <2>7, <2>8, <2>9 DEF Write
<1> QED BY <1>3, <1>4

-----------------------------------------------------------------------------
\* The characters that bound every position
-----------------------------------------------------------------------------
\* A writer spends no more than its lines have.
LEMMA SpentIs ==
  ASSUME StreamInv, NEW w \in Writers
  PROVE  Spent(w) \in Nat /\ Spent(w) <= Total(w)
<1> DEFINE s == Widths(w)
           d == done[w]
           l == Len(text[w])
<1>1. /\ Position(w) /\ d \in Nat /\ Len(Program[w]) \in Nat /\ d \in 0 .. Len(Program[w]) /\ l \in Nat
      /\ \A k \in 0 .. Len(Program[w]) : s[k] \in Nat /\ s[k] <= Total(w)
      /\ \A k \in 1 .. Len(Program[w]) : s[k] = s[k - 1] + Width(Program[w][k])
      /\ Total(w) \in Nat
  <2>1. /\ Position(w) /\ d \in Nat /\ Len(Program[w]) \in Nat /\ d \in 0 .. Len(Program[w]) /\ l \in Nat
    BY Operations DEF StreamInv, Position
  <2>2. Total(w) \in Nat
    BY <2>1, WidthsAre DEF Total
  <2> QED BY <2>1, <2>2, WidthsAre
<1>2. CASE at[w] \notin Appending
  <2>1. Spent(w) = s[d]
    BY <1>2 DEF Spent
  <2> QED BY <1>1, <2>1
<1>3. CASE at[w] \in Appending
  <2>1. /\ d + 1 \in 1 .. Len(Program[w]) /\ d + 1 \in 0 .. Len(Program[w]) /\ (d + 1) - 1 = d
        /\ l <= Width(Program[w][d + 1]) /\ (at[w] = "store" => l >= 1)
    BY <1>1, <1>3 DEF Position, Appending, Current, StreamInv
  <2>2. Width(Program[w][d + 1]) \in Nat
    BY <2>1, Operations
  <2>3. Spent(w) = s[d + 1] - l + (IF at[w] = "store" THEN 1 ELSE 0)
    BY <1>3 DEF Spent
  <2>4. s[d + 1] = s[d] + Width(Program[w][d + 1]) /\ s[d + 1] \in Nat /\ s[d] \in Nat /\ s[d + 1] <= Total(w)
    BY <1>1, <2>1
  <2>5. l \in Nat /\ Total(w) \in Nat
    BY <1>1
  <2> HIDE DEF s, d, l
  <2> QED BY <2>1, <2>2, <2>3, <2>4, <2>5
<1> QED BY <1>2, <1>3

\* A writer spends nothing back, and one character where it counts one.
LEMMA SpentGrows ==
  ASSUME StreamInv, StreamInv', NEW w \in Writers, Write(w)
  PROVE  /\ Spent(w) + (IF Bump(w) THEN 1 ELSE 0) <= Spent(w)' /\ Spent(w)' \in Int
         /\ \A v \in Writers \ {w} : Spent(v)' = Spent(v)
<1> DEFINE s == Widths(w)
           d == done[w]
           l == Len(text[w])
<1>1. /\ at \in [Writers -> {"next"} \cup Appending \cup Flushing] /\ text \in [Writers -> Seq(Char)]
      /\ DOMAIN reg = Writers /\ Position(w) /\ Position(w)' /\ done \in [Writers -> Nat] /\ d \in Nat
      /\ text[w] \in Seq(Char) /\ l \in Nat /\ Len(Program[w]) \in Nat /\ d \in 0 .. Len(Program[w])
      /\ \A k \in 0 .. Len(Program[w]) : s[k] \in Nat
      /\ \A k \in 1 .. Len(Program[w]) : s[k] = s[k - 1] + Width(Program[w][k]) /\ Width(Program[w][k]) \in Nat
  <2>1. Len(Program[w]) \in Nat /\ \A k \in 1 .. Len(Program[w]) : Width(Program[w][k]) \in Nat
    BY Operations
  <2>2. d \in Nat /\ d <= Len(Program[w]) /\ Position(w) /\ Position(w)'
    BY DEF StreamInv, Position
  <2>3. d \in 0 .. Len(Program[w])
    BY <2>1, <2>2
  <2>4. text[w] \in Seq(Char) /\ l \in Nat
    BY DEF StreamInv
  <2>5. /\ \A k \in 0 .. Len(Program[w]) : s[k] \in Nat
        /\ \A k \in 1 .. Len(Program[w]) : s[k] = s[k - 1] + Width(Program[w][k])
    BY WidthsAre
  <2>6. /\ at \in [Writers -> {"next"} \cup Appending \cup Flushing] /\ text \in [Writers -> Seq(Char)]
        /\ DOMAIN reg = Writers /\ done \in [Writers -> Nat]
    BY DEF StreamInv
  <2> HIDE DEF s, d, l
  <2> QED BY <2>1, <2>2, <2>3, <2>4, <2>5, <2>6
<1>2. \A v \in Writers \ {w} : Spent(v)' = Spent(v)
  BY OthersKeep DEF Spent
<1>3. d < Len(Program[w]) =>
        /\ s[d] \in Nat /\ s[d + 1] \in Nat /\ Width(Program[w][d + 1]) \in Nat
        /\ s[d + 1] = s[d] + Width(Program[w][d + 1])
  <2> SUFFICES ASSUME d < Len(Program[w])
               PROVE  /\ s[d] \in Nat /\ s[d + 1] \in Nat /\ Width(Program[w][d + 1]) \in Nat
                      /\ s[d + 1] = s[d] + Width(Program[w][d + 1])
    OBVIOUS
  <2>1. d + 1 \in 1 .. Len(Program[w]) /\ d + 1 \in 0 .. Len(Program[w]) /\ (d + 1) - 1 = d
    BY <1>1
  <2> HIDE DEF s, d
  <2> QED BY <1>1, <2>1
<1>4. CASE Begin(w)
  <2>1. PICK o : o = Current(w)
    OBVIOUS
  <2>2. /\ at[w] = "next" /\ d < Len(Program[w]) /\ ~Bump(w) /\ o = Program[w][d + 1]
        /\ at' = [at EXCEPT ![w] = IF o.op = "endl" THEN "lock" ELSE IF o.op = "base" THEN "next" ELSE "append"]
        /\ done' = [done EXCEPT ![w] = IF o.op = "base" THEN done[w] + 1 ELSE done[w]]
    BY <1>4, <2>1, Begins DEF Begin, Bump, Step, Current
  <2>3. PICK t \in Seq(Char) : text' = [text EXCEPT ![w] = t] /\ Len(t) <= Width(o)
    BY <1>4, <2>1, Begins
  <2>4. /\ at'[w] = (IF o.op = "endl" THEN "lock" ELSE IF o.op = "base" THEN "next" ELSE "append")
        /\ done'[w] = (IF o.op = "base" THEN d + 1 ELSE d)
        /\ text'[w] = t /\ Len(t) \in Nat
    BY <1>1, <2>2, <2>3
  <2>5. Spent(w) = s[d]
    BY <2>2 DEF Spent, Appending
  <2>6. Spent(w)' = IF o.op = "endl" THEN s[d] ELSE IF o.op = "base" THEN s[d + 1] ELSE s[d + 1] - Len(t) + 0
    BY <2>4 DEF Spent, Appending
  <2>7. s[d] \in Nat /\ s[d + 1] \in Nat /\ Width(o) \in Nat /\ s[d + 1] = s[d] + Width(o)
    BY <1>3, <2>2
  <2> HIDE DEF s, d, l
  <2> QED BY <1>2, <2>2, <2>3, <2>4, <2>5, <2>6, <2>7
<1>5. CASE ~Begin(w)
  <2>1. at[w] # "next" /\ d < Len(Program[w])
    <3>1. at[w] # "next"
      BY <1>5 DEF Write, Load, Bump, Store, Appended, Lock, Measure, SendChars, Empty, Reset, Step
    <3> QED BY <1>1, <3>1 DEF Position
  <2>2. s[d] \in Nat /\ s[d + 1] \in Nat /\ s[d] <= s[d + 1]
    <3> HIDE DEF s, d
    <3> QED BY <1>3, <2>1
  <2>3. CASE Load(w)
    <3>1. at[w] = "append" /\ at'[w] \in {"bump", "failed"} /\ UNCHANGED <<text, done>> /\ ~Bump(w)
      BY <1>1, <2>3 DEF Load, Bump, Step, history
    <3>2. Spent(w)' = s[d + 1] - l + 0 /\ Spent(w) = s[d + 1] - l + 0
      BY <3>1 DEF Spent, Appending
    <3> HIDE DEF s, d, l
    <3> QED BY <1>1, <1>2, <2>2, <3>1, <3>2
  <2>4. CASE Bump(w)
    <3>1. at[w] = "bump" /\ at'[w] = "store" /\ UNCHANGED <<text, done>>
      BY <1>1, <2>4 DEF Bump, Step, history
    <3>2. Spent(w)' = s[d + 1] - l + 1 /\ Spent(w) = s[d + 1] - l + 0
      BY <3>1 DEF Spent, Appending
    <3> HIDE DEF s, d, l
    <3> QED BY <1>1, <1>2, <2>2, <2>4, <3>2
  <2>5. CASE Store(w)
    <3>1. at[w] = "store" /\ at'[w] = "append" /\ UNCHANGED done /\ text'[w] = Tail(text[w]) /\ ~Bump(w)
          /\ text[w] # <<>>
      BY <1>1, <2>5 DEF Store, Bump, Step, history, Position
    <3>2. Len(text'[w]) = l - 1
      BY <1>1, <3>1
    <3>3. Spent(w)' = s[d + 1] - Len(text'[w]) + 0 /\ Spent(w) = s[d + 1] - l + 1
      BY <3>1 DEF Spent, Appending
    <3> HIDE DEF s, d, l
    <3> QED BY <1>1, <1>2, <2>2, <3>1, <3>2, <3>3
  <2>6. CASE Appended(w)
    <3>1. at[w] = "append" /\ at'[w] = "next" /\ done'[w] = d + 1 /\ ~Bump(w)
      BY <1>1, <2>6 DEF Appended, Finish, Bump, Step, history
    <3>2. Spent(w)' = s[d + 1] /\ Spent(w) = s[d + 1] - l + 0
      BY <3>1 DEF Spent, Appending
    <3> HIDE DEF s, d, l
    <3> QED BY <1>1, <1>2, <2>2, <3>1, <3>2
  <2>7. CASE Lock(w) \/ Measure(w) \/ SendChars(w) \/ Empty(w)
    <3>1. at[w] \in Flushing /\ at'[w] \in Flushing /\ UNCHANGED done /\ ~Bump(w)
      BY <1>1, <2>7 DEF Lock, Measure, SendChars, Empty, Bump, Step, history, Flushing, line
    <3>2. Spent(w)' = s[d] /\ Spent(w) = s[d]
      BY <3>1 DEF Spent, Appending, Flushing
    <3> HIDE DEF s, d, l
    <3> QED BY <1>2, <2>2, <3>1, <3>2
  <2>8. CASE Reset(w)
    <3>1. at[w] = "empty" /\ at'[w] = "next" /\ done'[w] = d + 1 /\ ~Bump(w)
      BY <1>1, <2>8 DEF Reset, Finish, Bump, Step
    <3>2. Spent(w)' = s[d + 1] /\ Spent(w) = s[d]
      BY <3>1 DEF Spent, Appending
    <3> HIDE DEF s, d, l
    <3> QED BY <1>2, <2>2, <3>1, <3>2
  <2> QED BY <1>5, <2>3, <2>4, <2>5, <2>6, <2>7, <2>8 DEF Write
<1> QED BY <1>4, <1>5

\* Nor do the writers together.
LEMMA AllSpentIs ==
  ASSUME StreamInv
  PROVE  AllSpent \in Nat /\ AllSpent <= Characters /\ Characters \in Nat
<1>1. Len(Program) \in Nat /\ Writers = 1 .. Len(Program)
  BY Operations
<1>2. \A w \in Writers : Spent(w) \in Nat /\ Spent(w) <= Total(w) /\ Total(w) \in Nat
  <2>1. \A w \in Writers : Total(w) \in Nat
    BY WidthsAre, Operations DEF Total
  <2> QED BY <2>1, SpentIs
<1>3. PICK f, g : f = [w \in Writers |-> Spent(w)] /\ g = [w \in Writers |-> Total(w)]
  OBVIOUS
<1>4. f \in [1 .. Len(Program) -> Nat] /\ g \in [1 .. Len(Program) -> Nat]
  BY <1>1, <1>2, <1>3
<1>5. More(f, g, Len(Program), 1, 0)
  BY <1>1, <1>2, <1>3 DEF More
<1>6. Sums(f)[Len(Program)] + (IF 1 <= Len(Program) THEN 0 ELSE 0) <= Sums(g)[Len(Program)]
  <2>1. 1 \in Nat \ {0} /\ 0 \in Nat
    OBVIOUS
  <2> QED BY Zenon, <1>1, <1>4, <1>5, <2>1, SumsGrow
<1>7. Len(Program) \in 0 .. Len(Program) /\ Sums(f)[Len(Program)] \in Nat /\ Sums(g)[Len(Program)] \in Nat
  BY <1>1, <1>4, SumsAre
<1>8. AllSpent = Sums(f)[Len(Program)] /\ Characters = Sums(g)[Len(Program)]
  BY <1>3 DEF AllSpent, Characters
<1> QED BY <1>6, <1>7, <1>8

\* Where one writer spends more, all do.
LEMMA AllSpentGrows ==
  ASSUME StreamInv, StreamInv', NEW w \in Writers, Write(w)
  PROVE  AllSpent + (IF Bump(w) THEN 1 ELSE 0) <= AllSpent' /\ AllSpent' \in Nat
<1>1. Len(Program) \in Nat /\ Writers = 1 .. Len(Program)
  BY Operations
<1>2. PICK f, g, e : /\ f = [v \in Writers |-> Spent(v)] /\ g = [v \in Writers |-> Spent(v)']
                     /\ e = IF Bump(w) THEN 1 ELSE 0
  OBVIOUS
<1>3. \A v \in Writers : Spent(v) \in Nat /\ Spent(v)' \in Nat
  <2>1. \A v \in Writers : Spent(v) \in Nat
    BY SpentIs
  <2>2. Spent(w)' \in Nat
    BY <2>1, SpentGrows
  <2> QED BY <2>1, <2>2, SpentGrows
<1>4. f \in [1 .. Len(Program) -> Nat] /\ g \in [1 .. Len(Program) -> Nat] /\ e \in Nat
  BY <1>1, <1>2, <1>3
<1>5. More(f, g, Len(Program), w, e)
  BY <1>1, <1>2, <1>3, SpentGrows DEF More
<1>6. Sums(f)[Len(Program)] + (IF w <= Len(Program) THEN e ELSE 0) <= Sums(g)[Len(Program)]
  <2>1. w \in Nat \ {0}
    BY <1>1
  <2> QED BY Zenon, <1>1, <1>4, <1>5, <2>1, SumsGrow
<1>7. Len(Program) \in 0 .. Len(Program) /\ w <= Len(Program) /\ Sums(g)[Len(Program)] \in Nat
  BY <1>1, <1>4, SumsAre
<1>8. AllSpent = Sums(f)[Len(Program)] /\ AllSpent' = Sums(g)[Len(Program)]
  BY <1>2 DEF AllSpent
<1> QED BY <1>2, <1>6, <1>7, <1>8

\* The position is one more than a writer has read only when it spends one more.
LEMMA CountStep ==
  ASSUME StreamInv, StreamInv', CountInv, NEW w \in Writers, Write(w)
  PROVE  CountInv'
<1>1. /\ writer_position \in Nat /\ writer_position' \in Nat /\ AllSpent \in Nat /\ AllSpent' \in Nat
      /\ at \in [Writers -> {"next"} \cup Appending \cup Flushing] /\ DOMAIN reg = Writers
  BY AllSpentIs, AllSpentGrows DEF StreamInv
<1>2. AllSpent <= AllSpent' /\ (Bump(w) => AllSpent + 1 <= AllSpent')
  <2>1. AllSpent + (IF Bump(w) THEN 1 ELSE 0) <= AllSpent'
    BY AllSpentGrows
  <2> QED BY <1>1, <2>1
<1>3. writer_position <= AllSpent /\ (at[w] = "bump" => reg[w] <= AllSpent)
  BY DEF CountInv
<1>4. \A v \in Writers \ {w} : at'[v] = "bump" => reg'[v] <= AllSpent'
  <2> SUFFICES ASSUME NEW v \in Writers \ {w}, at'[v] = "bump" PROVE reg'[v] <= AllSpent'
    OBVIOUS
  <2>1. at[v] = "bump" /\ reg'[v] = reg[v]
    BY OthersKeep
  <2>2. reg[v] \in Nat /\ reg[v] <= AllSpent
    BY <2>1 DEF CountInv, StreamInv, Position
  <2> QED BY <1>1, <1>2, <2>1, <2>2
<1>5. CASE Bump(w)
  <2>1. writer_position' = reg[w] + 1 /\ at[w] = "bump" /\ at'[w] = "store"
    BY <1>1, <1>5 DEF Bump, Step
  <2>2. reg[w] \in Nat
    BY <2>1 DEF StreamInv, Position
  <2>3. writer_position' <= AllSpent'
    BY <1>1, <1>2, <1>3, <1>5, <2>1, <2>2
  <2> QED BY <1>4, <2>1, <2>3 DEF CountInv
<1>6. CASE ~Bump(w)
  <2>1. writer_position' \in {0, writer_position}
    BY <1>6 DEF Write, Begin, Load, Store, Appended, Lock, Measure, SendChars, Empty, Reset, line
  <2>2. at'[w] = "bump" => reg'[w] = writer_position
    <3>1. CASE Load(w)
      BY <1>1, <3>1 DEF Load, Read
    <3>2. CASE Begin(w)
      BY <1>1, <3>2, Begins
    <3>3. CASE ~Load(w) /\ ~Begin(w)
      BY <1>1, <1>6, <3>3 DEF Write, Store, Appended, Lock, Measure, SendChars, Empty, Reset, Step
    <3> QED BY <3>1, <3>2, <3>3
  <2>3. writer_position' <= AllSpent' /\ (at'[w] = "bump" => reg'[w] <= AllSpent')
    BY <1>1, <1>2, <1>3, <2>1, <2>2
  <2> QED BY <1>4, <2>3 DEF CountInv
<1> QED BY <1>5, <1>6

-----------------------------------------------------------------------------
\* The writers' steps keep the invariant: the stream's positions, what a writer
\* that is alone has said, the room that is left in the line, and the count of
\* characters that bounds every position.
THEOREM LogInvariant == LogSpec => []LogInv
<1>1. ASSUME LogInv, [LogNext]_logVars PROVE LogInv'
  <2>1. CASE UNCHANGED logVars
    <3>1. /\ UNCHANGED <<buffer, writer_position, base, port, done, at, text, reg, inside, said, overlapped>>
      BY <2>1 DEF logVars
    <3>2. StreamInv'
      <4>1. \A w \in Writers : Position(w)' = Position(w)
        BY <3>1 DEF Position, Current
      <4> QED BY <1>1, <3>1, <4>1 DEF LogInv, StreamInv
    <3>5. LineInv'
      <4>1. \A p, t : Told(p, t)' = Told(p, t)
        BY <3>1 DEF Told, Whole, First
      <4>2. \A w \in Writers : Alone(w)' = Alone(w)
        BY <3>1, <4>1 DEF Alone
      <4> QED BY <1>1, <3>1, <4>1, <4>2 DEF LogInv, LineInv, StreamInv
    <3>3. FitInv'
      BY <1>1, <3>1 DEF LogInv, FitInv, Fits
    <3>4. CountInv'
      BY <1>1, <3>1 DEF LogInv, CountInv, AllSpent, Spent
    <3> QED BY <3>2, <3>3, <3>4, <3>5 DEF LogInv
  <2>2. CASE LogNext
    <3>1. PICK w \in Writers : Write(w)
      BY <2>2 DEF LogNext
    <3>2. StreamInv'
      BY <1>1, <3>1, StreamStep DEF LogInv
    <3> QED BY <1>1, <3>1, <3>2, LineStep, FitStep, CountStep DEF LogInv
  <2> QED BY <1>1, <2>1, <2>2
<1> QED BY <1>1, LogInvInit, PTL DEF LogSpec

\* A text is told by a prefix of it.
LEMMA PrefixOf ==
  ASSUME NEW C, NEW s \in Seq(C), NEW t \in Seq(C)
  PROVE  IsPrefix(s, s \o t)
BY DEF IsPrefix

\* As long as the prints did not overlap, the serial port was sent what the
\* tasks printed, line by line, and between two lines the buffer of debugLine
\* is empty, for every text, base and number of tasks.
THEOREM LinesAreWhole == LogSpec => []WholeUnlessOverlap
<1>1. ASSUME LogInv PROVE WholeUnlessOverlap
  <2> DEFINE C == Char \cup {NUL}
  <2> SUFFICES ASSUME ~overlapped
               PROVE  /\ IsPrefix(port, said.out)
                      /\ inside = {} => port = said.out /\ strlen(buffer) = 0 /\ writer_position = 0
    BY DEF WholeUnlessOverlap
  <2>1. /\ port \in Seq(C) /\ buffer \in [0 .. (BUFF_LEN - 1) -> C] /\ writer_position \in Nat
        /\ text \in [Writers -> Seq(Char)] /\ at \in [Writers -> {"next"} \cup Appending \cup Flushing]
        /\ inside \subseteq Writers /\ BUFF_LEN \in Nat
    BY <1>1, LoggerAssumption DEF LogInv, StreamInv
  <2>2. ASSUME NEW p, NEW t \in Seq(C), Told(p, t) PROVE IsPrefix(port, said.out)
    <3>1. p \in 0 .. BUFF_LEN /\ said.out = (port \o First(buffer, p)) \o t
      BY <2>2 DEF Told, Whole
    <3>2. \A k \in 1 .. p : buffer[k - 1] \in C
      BY <2>1, <3>1
    <3> HIDE DEF C
    <3>3. First(buffer, p) \in Seq(C)
      BY <3>1, <3>2 DEF First
    <3>4. First(buffer, p) \o t \in Seq(C) /\ said.out = port \o (First(buffer, p) \o t)
      BY <2>1, <2>2, <3>1, <3>3
    <3> QED BY <2>1, <3>4, PrefixOf
  <2>3. CASE inside = {}
    <3>1. writer_position = 0 /\ Told(0, <<>>)
      BY <1>1, <2>3 DEF LogInv, LineInv
    <3>2. strlen(buffer) = 0
      <4>1. /\ 0 \in 0 .. BUFF_LEN /\ \A k \in 0 .. (0 - 1) : buffer[k] # NUL
            /\ 0 < BUFF_LEN => buffer[0] = NUL
        BY <2>1, <3>1 DEF Told
      <4> QED BY <4>1, StrlenIs
    <3>3. port = said.out
      <4>1. Whole(port, buffer, 0, <<>>) = port
        <5> HIDE DEF C
        <5> QED BY <2>1, SeqFacts
      <4> QED BY <3>1, <4>1 DEF Told
    <3>4. <<>> \in Seq(C)
      OBVIOUS
    <3> QED BY <2>2, <3>1, <3>2, <3>3, <3>4
  <2>4. ASSUME NEW w \in inside PROVE IsPrefix(port, said.out)
    <3>1. Alone(w) /\ w \in Writers /\ text[w] \in Seq(C)
      BY <1>1, <2>1, <2>4 DEF LogInv, LineInv
    <3>2. <<NUL>> \in Seq(C) /\ <<>> \in Seq(C)
      OBVIOUS
    <3>3. CASE at[w] = "empty"
      <4>1. port \o <<>> = port /\ said.out = port
        BY <2>1, <3>1, <3>3 DEF Alone
      <4> HIDE DEF C
      <4> QED BY <2>1, <3>2, <4>1, PrefixOf
    <3>4. CASE at[w] # "empty"
      <4>1. at[w] \in {"next", "append", "failed", "bump", "store", "lock", "wait", "send"}
        BY <2>1, <3>1, <3>4 DEF Appending, Flushing
      <4>2. \E p : \E t \in Seq(C) : Told(p, t)
        BY <3>1, <3>2, <4>1 DEF Alone
      <4> QED BY <2>2, <4>2
    <3> QED BY <3>3, <3>4
  <2> QED BY <2>3, <2>4
<1> QED BY <1>1, LogInvariant, PTL

\* A task that prints alone never fails appendToBuffer's assertion with a line
\* that fits, and the position never exceeds the characters of all the lines.
THEOREM AssertionFails == LogSpec => []FailsOnlyIf
<1>1. ASSUME LogInv PROVE FailsOnlyIf
  <2>1. writer_position <= Characters
    BY <1>1, AllSpentIs DEF LogInv, StreamInv, CountInv
  <2>2. ASSUME LinesFit, Stopped, ~overlapped PROVE FALSE
    <3>1. PICK w \in Writers : at[w] = "failed"
      BY <2>2 DEF Stopped
    <3>2. w \in inside
      BY <1>1, <2>2, <3>1 DEF LogInv, LineInv
    <3> QED BY <1>1, <2>2, <3>1, <3>2 DEF LogInv, FitInv, Fits
  <2>3. overlapped \in BOOLEAN
    BY <1>1 DEF LogInv, StreamInv
  <2> QED BY <2>1, <2>2, <2>3 DEF FailsOnlyIf
<1> QED BY <1>1, LogInvariant, PTL
===============================================================================

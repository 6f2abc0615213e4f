------------------------------ MODULE Scheduler -------------------------------
(***************************************************************************)
(* The boot processor from the last steps of kernel_main (kernel.cpp) on:  *)
(* kernel_main enables the keyboard, creates the tasks and starts the      *)
(* timer; the timer interrupt (timer.cpp) saves the interrupted registers  *)
(* into the current task and loads the next one's; the keyboard interrupt  *)
(* (ps2.cpp) writes to the console.  Each task prints a line on the serial *)
(* port and halts (loop1 to loop3).                                        *)
(*                                                                         *)
(* Registers are abstracted to <<whose code runs, where in it>>.           *)
(* Interrupt gates keep interrupts off in handlers, so a handler is one    *)
(* step up to the lock it waits for.  The timer counts from the            *)
(* calibration on (apic.cpp:110 unmasks it and leaves it running for about *)
(* a minute), so that the first tick may come before start().              *)
(***************************************************************************)
EXTENDS Integers, Sequences

CONSTANTS NTasks,       \* tasks kernel_main adds, 3
          StdinLength,  \* max_stdin_length, 255
          Largest,      \* tasks in an object of the heap's last cache, 2
          MaxKeys       \* bound: keys that are pressed

Task == 1 .. NTasks
Main == 0
Nobody == "nobody"
NullPtr == [store |-> 0, index |-> 0]
Booting == {"log", "print", "unmask", "status", "data", "sched", "add", "slab", "beyond",
            "start", "wait"}
Running == {"lock", "spin", "send", "hlt", "panic"}

ASSUME SchedulerAssumption == /\ NTasks \in Nat \ {0}
                              /\ {StdinLength, MaxKeys, Largest} \subseteq Nat

VARIABLES regs,        \* the registers of the code outside handlers
          tasks,       \* Scheduler::tasks: the saved registers of each task
          store,       \* the vector's storage: how many tasks it has room for
          currentTask, \* the storage and index it points to, or NullPtr
          n,           \* Scheduler::n
          ready,       \* schedSingleton is initialized
          armed,       \* the timer's one shot is counting
          pending,     \* interrupts requested and not yet taken
          unmasked,    \* the keyboard's redirection entry is written
          full,        \* the controller's output buffer holds a scancode
          edge,        \* the keyboard's request is on its way
          keys,        \* keys pressed
          handling,    \* the keyboard handler waits for the console
          stdin_index, \* characters in stdin
          console,     \* the line of kernel_main that holds console_lock
          serial,      \* serial_lock: who has a ticket, the holder first
          lost         \* nothing of the system is known any more

vars == <<regs, tasks, store, currentTask, n, ready, armed, pending, unmasked,
          full, edge, keys, handling, stdin_index, console, serial, lost>>

sched == <<tasks, store, currentTask, n, ready>>
keyboard == <<unmasked, full, edge, keys, handling, stdin_index>>

\* timer::init() has registered the handler and calibrated the timer, and a
\* key may have been pressed while the keyboard was masked.
Init == /\ regs = [who |-> Main, at |-> "log"]
        /\ tasks = <<>> /\ store = 0 /\ currentTask = NullPtr /\ n = 0 /\ ready = FALSE
        /\ armed = TRUE /\ pending = {}
        /\ unmasked = FALSE /\ full \in BOOLEAN /\ edge = FALSE /\ keys = 0
        /\ handling = FALSE /\ stdin_index = 0
        /\ console = Nobody /\ serial = <<>> /\ lost = FALSE

\* Code outside handlers runs.
Executes(who, at) == /\ ~lost /\ ~handling
                     /\ regs.who = who /\ regs.at = at

GoTo(at) == regs' = [regs EXCEPT !.at = at]

(***************************************************************************)
(* kernel_main                                                             *)
(***************************************************************************)

\* Mutant: the interrupt is unmasked before the line is logged.
MutLog == /\ Executes(Main, "log") /\ console = Nobody
          /\ console' = "print"
          /\ GoTo("print")
          /\ unmasked' = TRUE
          /\ UNCHANGED <<sched, armed, pending, full, edge, keys, handling, stdin_index,
                         serial, lost>>

\* enableIRQ() logs (ioapic.cpp:68): console::write() takes console_lock.
Log == /\ Executes(Main, "log") /\ console = Nobody
       /\ console' = "print"
       /\ GoTo("print")
       /\ UNCHANGED <<sched, armed, pending, keyboard, serial, lost>>

Logged == /\ Executes(Main, "print")
          /\ console' = Nobody
          /\ GoTo("unmask")
          /\ UNCHANGED <<sched, armed, pending, keyboard, serial, lost>>

\* Mutant: nothing is read from the controller.
MutSkipDrain == /\ Executes(Main, "unmask")
                /\ unmasked' = TRUE
                /\ GoTo("sched")
                /\ UNCHANGED <<sched, armed, pending, full, edge, keys, handling,
                               stdin_index, console, serial, lost>>

\* updateIRQ() writes the redirection entry (ioapic.cpp:54-64).
Unmask == /\ Executes(Main, "unmask")
          /\ unmasked' = TRUE
          /\ GoTo("status")
          /\ UNCHANGED <<sched, armed, pending, full, edge, keys, handling, stdin_index,
                         console, serial, lost>>

\* ps2::init() reads what the controller holds until it is empty
\* (ps2.cpp:146-148).
ReadStatus == /\ Executes(Main, "status")
              /\ GoTo(IF full THEN "data" ELSE "sched")
              /\ UNCHANGED <<sched, armed, pending, keyboard, console, serial, lost>>

ReadData == /\ Executes(Main, "data")
            /\ full' = FALSE
            /\ GoTo("status")
            /\ UNCHANGED <<sched, armed, pending, unmasked, edge, keys, handling,
                           stdin_index, console, serial, lost>>

\* Mutant: the scheduler is not initialized.
MutInitScheduler == /\ Executes(Main, "sched")
                    /\ GoTo("add")
                    /\ UNCHANGED <<sched, armed, pending, keyboard, console, serial, lost>>

\* Scheduler::init().
InitScheduler == /\ Executes(Main, "sched")
                 /\ ready' = TRUE
                 /\ GoTo("add")
                 /\ UNCHANGED <<tasks, store, currentTask, n, armed, pending, keyboard,
                                console, serial, lost>>

\* addTask() (scheduler.hpp:30-32): push() moves a full vector to twice what
\* it needs.
Grows == Len(tasks) = store
Grown == 2 * (Len(tasks) + 1)

\* Of the flags of a new Context only two are written (context.hpp:21-24), so
\* that the others may make the first instruction trap.
Pushed == /\ \E ok \in BOOLEAN :
               tasks' = Append(tasks, [who |-> Len(tasks) + 1, at |-> "lock", ok |-> ok])
          /\ store' = IF Grows THEN Grown ELSE store
          /\ GoTo(IF Len(tasks) + 1 = NTasks THEN "start" ELSE "add")
          /\ UNCHANGED <<currentTask, n, ready, armed, pending, keyboard, serial, lost>>

\* There is room, or the heap has an object for the new storage.
AddTask == /\ Executes(Main, "add")
           /\ Pushed
           /\ UNCHANGED console

\* Or it makes a slab, whose constructor logs (slab.hpp:217) while keys may
\* interrupt it.
MakeSlab == /\ Executes(Main, "add") /\ Grows /\ console = Nobody
            /\ console' = "slab"
            /\ GoTo("slab")
            /\ UNCHANGED <<sched, armed, pending, keyboard, serial, lost>>

SlabMade == /\ Executes(Main, "slab")
            /\ console' = Nobody
            /\ Pushed

\* Or it uses what is behind the last of its caches as one (heap.cpp:67), as
\* for a third task.  If that gives no storage, nothing is known any more.
AddBeyond == /\ Executes(Main, "add") /\ Grows /\ Grown > Largest
             /\ lost' = TRUE
             /\ GoTo("beyond")
             /\ UNCHANGED <<sched, armed, pending, keyboard, console, serial>>

\* timer::start(); kernel_main then waits for ever.
Start == /\ Executes(Main, "start")
         /\ armed' = TRUE
         /\ GoTo("wait")
         /\ UNCHANGED <<sched, pending, keyboard, console, serial, lost>>

KernelMain == \/ Log \/ Logged \/ Unmask \/ ReadStatus \/ ReadData
              \/ InitScheduler \/ AddTask \/ MakeSlab \/ SlabMade \/ AddBeyond \/ Start

(***************************************************************************)
(* The tasks                                                               *)
(***************************************************************************)

\* debugLine << "loop ..." << endl: send_chars() draws a ticket of
\* serial_lock, waits to be served, sends and unlocks (serial.cpp:62-73).
Ticket(t) == /\ Executes(t, "lock")
             /\ serial' = Append(serial, t)
             /\ GoTo("spin")
             /\ UNCHANGED <<sched, armed, pending, keyboard, console, lost>>

Served(t) == /\ Executes(t, "spin") /\ Head(serial) = t
             /\ GoTo("send")
             /\ UNCHANGED <<sched, armed, pending, keyboard, console, serial, lost>>

\* Mutant: the lock is not released.
MutSend(t) == /\ Executes(t, "send")
              /\ GoTo("hlt")
              /\ UNCHANGED <<sched, armed, pending, keyboard, console, serial, lost>>

Send(t) == /\ Executes(t, "send")
           /\ serial' = Tail(serial)
           /\ GoTo("hlt")
           /\ UNCHANGED <<sched, armed, pending, keyboard, console, lost>>

PrintLine(t) == Ticket(t) \/ Served(t) \/ Send(t)

(***************************************************************************)
(* The timer interrupt                                                     *)
(***************************************************************************)

\* The one shot expires.
TimerExpires == /\ ~lost /\ armed
                /\ armed' = FALSE
                /\ pending' = pending \cup {"timer"}
                /\ UNCHANGED <<regs, sched, keyboard, console, serial, lost>>

\* Interrupts are on in all code outside handlers, panic() included
\* (panic.hpp:14-16); of the two vectors the keyboard's is the higher.
Interrupted(irq) == /\ ~lost /\ ~handling /\ irq \in pending
                    /\ irq = "timer" => "keyboard" \notin pending

\* Mutant: the last task is never scheduled.
MutNext == IF n + 1 >= Len(tasks) THEN 1 ELSE n + 1

\* schedule() (scheduler.hpp:23-28): ++n, from 1 again behind the last task.
NextTask == IF n + 1 > Len(tasks) THEN 1 ELSE n + 1

\* Mutant: the next task is chosen before the current one is saved.
MutSaved == IF currentTask = NullPtr THEN tasks
            ELSE [tasks EXCEPT ![NextTask] = [who |-> regs.who, at |-> regs.at, ok |-> TRUE]]

\* getTask()->save(stack), once there is a current task (timer.cpp:25-29).
Saved == IF currentTask = NullPtr THEN tasks
         ELSE [tasks EXCEPT ![currentTask.index] =
                 [who |-> regs.who, at |-> regs.at, ok |-> TRUE]]

\* accessor() of what is not initialized, an element of an empty vector, and
\* a current task in storage the vector has left.
NothingToRun == \/ ~ready
                \/ tasks = <<>>
                \/ currentTask # NullPtr /\ currentTask.store # store

\* iretq to what load() put in the frame.  If its flags make it trap,
\* interrupt_handler() panics on the task's stack: it logs, for which it
\* waits in vain if the console is held, and walks the stack, which may never
\* end (symbols.cpp:18-32), or halts with interrupts on.
Resume(context) ==
  \/ /\ context.ok
     /\ regs' = [who |-> context.who, at |-> context.at]
     /\ UNCHANGED lost
  \/ /\ ~context.ok /\ console = Nobody
     /\ regs' = [who |-> context.who, at |-> "panic"]
     /\ UNCHANGED lost
  \/ /\ ~context.ok
     /\ lost' = TRUE
     /\ UNCHANGED regs

\* timer_irq() (timer.cpp:24-34) and irq_handler()'s EOI.
TimerIrq == /\ Interrupted("timer") /\ ~NothingToRun
            /\ tasks' = Saved
            /\ n' = NextTask
            /\ currentTask' = [store |-> store, index |-> NextTask]
            /\ Resume(Saved[NextTask])
            /\ armed' = TRUE
            /\ pending' = pending \ {"timer"}
            /\ UNCHANGED <<store, ready, keyboard, console, serial>>

\* timer_irq() without a task to schedule.
TimerIrqLost == /\ Interrupted("timer") /\ NothingToRun
                /\ lost' = TRUE
                /\ UNCHANGED <<regs, sched, armed, pending, keyboard, console, serial>>

(***************************************************************************)
(* The keyboard                                                            *)
(***************************************************************************)

\* The controller takes a scancode when its buffer is empty.
KeyPressed == /\ ~lost /\ ~full /\ keys < MaxKeys
              /\ full' = TRUE /\ edge' = TRUE /\ keys' = keys + 1
              /\ UNCHANGED <<regs, sched, armed, pending, unmasked, handling, stdin_index,
                             console, serial, lost>>

\* The I/O APIC forwards an edge, or forgets it if the entry is masked.
EdgeArrives == /\ ~lost /\ edge
               /\ edge' = FALSE
               /\ pending' = IF unmasked THEN pending \cup {"keyboard"} ELSE pending
               /\ UNCHANGED <<regs, sched, armed, unmasked, full, keys, handling,
                              stdin_index, console, serial, lost>>

\* ps2_irq_handler() (ps2.cpp:134-139): get_scancode() empties the buffer and
\* answers 0, a '?', if it finds it empty.  Shift, caps lock and the release
\* of a key are done with at once.
KeyboardIrq == /\ Interrupted("keyboard")
               /\ pending' = pending \ {"keyboard"}
               /\ full' = FALSE
               /\ handling' \in (IF full THEN BOOLEAN ELSE {TRUE})
               /\ UNCHANGED <<regs, sched, armed, unmasked, edge, keys, stdin_index,
                              console, serial, lost>>

\* handle_input() (ps2.cpp:101-132) for what prints: console::write() gets
\* the lock, and append_cin() stores at stdin_index, whatever it is.
HandleInput == /\ ~lost /\ handling /\ console = Nobody
               /\ handling' = FALSE
               /\ IF stdin_index = StdinLength
                  THEN lost' = TRUE /\ UNCHANGED stdin_index
                  ELSE stdin_index' = stdin_index + 1 /\ UNCHANGED lost
               /\ UNCHANGED <<regs, sched, armed, pending, unmasked, full, edge, keys,
                              console, serial>>

\* The keyboard's handler, with interrupts off, waits for the console that
\* the code it interrupted holds, or that held it when the first tick came.
Stuck == handling /\ console # Nobody

Done == (lost \/ Stuck) /\ UNCHANGED vars

Next == \/ KernelMain \/ \E t \in Task : PrintLine(t)
        \/ TimerExpires \/ TimerIrq \/ TimerIrqLost
        \/ KeyPressed \/ EdgeArrives \/ KeyboardIrq \/ HandleInput \/ Done

Spec == Init /\ [][Next]_vars

\* Devices and handlers go on.  A time slice is long enough for a task that is
\* not waiting to do something (20 ms): tasks run again and again, so strong
\* fairness says that they get somewhere.
Fairness == /\ WF_vars(KernelMain) /\ WF_vars(TimerExpires)
            /\ WF_vars(TimerIrq) /\ WF_vars(TimerIrqLost)
            /\ WF_vars(EdgeArrives) /\ WF_vars(KeyboardIrq) /\ WF_vars(HandleInput)
            /\ \A t \in Task : SF_vars(PrintLine(t))

FairSpec == Spec /\ Fairness

(***************************************************************************)
(* Properties                                                              *)
(***************************************************************************)
Context == [who : Task, at : Running, ok : BOOLEAN]

\* Each task's saved registers are its own, and the code that runs is the
\* current task's: save(), schedule() and load() never hand the registers of
\* one task to another (timer.cpp:25-32), whatever was interrupted.
OwnContext == /\ \A i \in DOMAIN tasks : tasks[i].who = i
              /\ ~lost => IF currentTask = NullPtr THEN regs.who = Main
                          ELSE regs.who = currentTask.index

\* A handler never waits for a lock that only the code it interrupted can
\* release, although console::write() leaves interrupts on and the keyboard's
\* handler prints, except for one line: that of a slab made for a new task,
\* as no other is logged once the keyboard may interrupt.
HandlerMayLock == handling => console \in {Nobody, "slab"}

\* kernel_main has emptied the controller.
Drained == \/ regs.at \in {"sched", "add", "slab", "start", "wait"}
           \/ currentTask # NullPtr

\* After ps2::init() a scancode in the controller has its interrupt on the
\* way: a full buffer without one would silence the keyboard for ever, as the
\* controller raises no other.
KeyboardNeverStalls == Drained /\ full => edge \/ "keyboard" \in pending \/ lost

\* The system is lost only if the first tick came before a task was added,
\* the vector outgrew the heap's caches, a task began with flags that trap, or
\* stdin overflowed; not through the current task's address, although push()
\* moves the tasks.
LostOnlyIf == lost => \/ tasks = <<>> \/ regs.at = "beyond" \/ stdin_index = StdinLength
                      \/ \E i \in DOMAIN tasks : ~tasks[i].ok

\* Every task that was added runs again and again, whatever the others do, a
\* panic included, unless the keyboard's handler is stuck.
TasksTakeTurns == \A t \in Task :
  [](t \in DOMAIN tasks /\ currentTask # NullPtr => <>(lost \/ Stuck \/ regs.who = t))

At(t) == IF regs.who = t THEN regs.at
         ELSE IF t \in DOMAIN tasks THEN tasks[t].at ELSE "lock"

\* A task that runs once gets its line out, although tasks are interrupted
\* holding serial_lock and others spin for it until their time is up, unless
\* the keyboard's handler is stuck.
LinesPrinted == \A t \in Task : regs.who = t ~> (lost \/ Stuck \/ At(t) \in {"hlt", "panic"})
=============================================================================

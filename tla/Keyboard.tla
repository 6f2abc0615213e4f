------------------------------- MODULE Keyboard --------------------------------
(***************************************************************************)
(* The keyboard, its controller's buffer, and what ps2.cpp makes of the    *)
(* scancodes of the keys that decide between small and capital letters.    *)
(* The characters that are printed and stored are part of Scheduler.       *)
(***************************************************************************)
VARIABLES buffer,        \* the scancode in the controller, or none
          shift_pressed,
          held,          \* the keys that are down
          caps,          \* caps lock, as the user means it
          astray         \* whether a scancode too many, or too few, was taken for theirs

keyVars == <<buffer, shift_pressed, held, caps, astray>>

Empty == [key |-> "none", up |-> FALSE]
Scancode(key, up) == [key |-> key, up |-> up]
full == buffer # Empty

lshift == "lshift"
caps_lock == "caps_lock"

\* Before the kernel, the firmware took the scancodes, but for the last.
KeyboardInit == /\ shift_pressed = FALSE /\ caps = FALSE
                /\ held \in {{}, {lshift}}
                /\ buffer \in {Empty, Scancode("other", FALSE)} \cup { Scancode(k, FALSE) : k \in held }
                /\ astray = (held # {} /\ buffer.key # lshift)

(***************************************************************************)
(* The keyboard.  The controller takes a scancode when its buffer is empty *)
(***************************************************************************)
Press(key) == /\ key \notin held
              /\ held' = held \cup {key}
              /\ caps' = IF key = caps_lock THEN ~caps ELSE caps
              /\ buffer' = Scancode(key, FALSE) /\ UNCHANGED astray

\* A key that is held sends its scancode again and again.
Repeat(key) == /\ key \in held
               /\ buffer' = Scancode(key, FALSE) /\ astray' = ~astray
               /\ UNCHANGED <<held, caps>>

Release(key) == /\ key \in held
                /\ held' = held \ {key}
                /\ buffer' = Scancode(key, TRUE) /\ UNCHANGED <<caps, astray>>

\* The right shift key is another key, for handle_input() has no case for its code.
OtherKey == buffer' = Scancode("other", FALSE) /\ UNCHANGED <<held, caps, astray>>

\* The keys between the blocks send scancodes of the left shift key before and
\* after their own, as num lock and shift have it, each behind 0xE0, which is
\* ignored.
FakeShift == /\ \E up \in BOOLEAN : buffer' = Scancode(lshift, up)
             /\ astray' = ~astray /\ UNCHANGED <<held, caps>>

Strike == /\ ~full /\ UNCHANGED shift_pressed
          /\ \/ OtherKey \/ FakeShift
             \/ \E key \in {lshift, caps_lock} : Press(key) \/ Repeat(key) \/ Release(key)

(***************************************************************************)
(* ps2.cpp                                                                 *)
(***************************************************************************)

\* Mutant: shift's release is ignored, like that of other keys.
Muthandle_input(scancode) ==
  shift_pressed' = IF scancode.key \in {lshift, caps_lock} /\ ~scancode.up THEN ~shift_pressed ELSE shift_pressed

\* Both keys toggle, caps lock when it is pressed and shift also when it is released.
handle_input(scancode) ==
  shift_pressed' = IF scancode.key = lshift \/ (scancode.key = caps_lock /\ ~scancode.up)
                   THEN ~shift_pressed ELSE shift_pressed

\* The interrupt handler: the buffer is read, which is empty if init() was faster.
TakeScancode == /\ handle_input(buffer)
                /\ buffer' = Empty /\ UNCHANGED <<held, caps, astray>>

\* init() reads and drops what waits.
Drop == /\ buffer' = Empty
        /\ astray' = IF buffer \in {Scancode(lshift, FALSE), Scancode(lshift, TRUE), Scancode(caps_lock, FALSE)}
                     THEN ~astray ELSE astray
        /\ UNCHANGED <<shift_pressed, held, caps>>

KeyboardNext == Strike \/ TakeScancode \/ Drop

KeyboardSpec == KeyboardInit /\ [][KeyboardNext]_keyVars

\* The left shift key or caps lock is active, but not both.
Capitals == ~(lshift \in held <=> caps)

\* shift_pressed is what its comment says, shift or caps lock (ps2.cpp:37-40), for
\* the left of the shift keys, or the contrary if both are active: unless, and
\* exactly if, an odd number of scancodes of theirs was repeated, sent by another
\* key, or lost before the handler was there.
ShiftAgrees == ~full => ((shift_pressed <=> Capitals) <=> ~astray)
===============================================================================

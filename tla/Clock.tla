--------------------------------- MODULE Clock ---------------------------------
(***************************************************************************)
(* timer::init() (timer.cpp): the HPET is set up (hpet.cpp), and the local *)
(* APIC's timer is calibrated against it (apic.cpp).                       *)
(*                                                                         *)
(* Time passes in ticks of the APIC timer.  The HPET ticks once in Ratio   *)
(* of them, unless it is disabled, and its counter has Width values.       *)
(***************************************************************************)
EXTENDS Integers

CONSTANTS Width,     \* values of the HPET's counter
          Ratio,     \* ticks of the APIC timer in one of the HPET
          Sleep,     \* usec * femtosecond / period: 100 microseconds in HPET ticks
          Slices,    \* what the calibrated ticks are multiplied with, 200
          APICWidth, \* values of the APIC timer's count, 2^32
          MaxDelay   \* bound: ticks that pass before the code takes a step it can take

ASSUME ClockAssumption ==
  /\ {Width, Ratio} \subseteq Nat \ {0} /\ {Slices, APICWidth} \subseteq Nat \ {0, 1}
  /\ {Sleep, MaxDelay} \subseteq Nat

VARIABLES phase,    \* of the HPET's tick
          counter,  \* MAIN_COUNTER_VALUE_REG
          enabled,  \* bit 0 of GENERAL_CONF_REG
          periodic, \* whether timer 0 has the capability
          required, \* required_hpet_ticks in usleep()
          count,    \* APIC_TIMER_CURRENT
          masked,   \* APIC_MASKED in APIC_LVTT
          ticks_20ms,
          step,     \* where timer::init() is
          delay     \* ticks since the code could take its next step

clockVars == <<phase, counter, enabled, periodic, required, count, masked, ticks_20ms, step, delay>>
hpet == <<phase, counter, enabled>>

\* What the firmware left in the counter is anything, and it may be running.
ClockInit == /\ phase \in 0 .. (Ratio - 1) /\ counter \in 0 .. (Width - 1) /\ enabled \in BOOLEAN
             /\ periodic \in BOOLEAN
             /\ required = 0 /\ count = 0 /\ masked = TRUE /\ ticks_20ms = 0
             /\ step = "init" /\ delay = 0

\* The code waits for the counter.
Waiting == step = "wait" /\ counter < required

\* The hardware: the timer counts down to 0 and stays there.
Tick == /\ step \in {"calibrate", "usleep", "wait", "read"}
        /\ Waiting \/ delay < MaxDelay
        /\ delay' = IF Waiting THEN 0 ELSE delay + 1
        /\ phase' = (phase + 1) % Ratio
        /\ counter' = IF enabled /\ phase' = 0 THEN (counter + 1) % Width ELSE counter
        /\ count' = IF count > 0 THEN count - 1 ELSE 0
        /\ UNCHANGED <<enabled, periodic, required, masked, ticks_20ms, step>>

GoTo(next) == step' = next /\ delay' = 0

\* HPET::init(): the counter is halted and cleared; setPeriodicMode() panics
\* if timer 0 cannot; enable().
HpetInit == /\ step = "init"
            /\ counter' = 0
            /\ enabled' = periodic
            /\ GoTo(IF periodic THEN "calibrate" ELSE "panic")
            /\ UNCHANGED <<phase, periodic, required, count, masked, ticks_20ms>>

\* calibrate() sets the count to its largest value.
Calibrate == /\ step = "calibrate"
             /\ count' = APICWidth - 1
             /\ GoTo("usleep")
             /\ UNCHANGED <<hpet, periodic, required, masked, ticks_20ms>>

\* usleep() computes the counter's value to wait for, in 64 bits.
Usleep == /\ step = "usleep"
          /\ required' = counter + Sleep
          /\ GoTo("wait")
          /\ UNCHANGED <<hpet, periodic, count, masked, ticks_20ms>>

\* counter() is read until it has reached it.
Wait == /\ step = "wait" /\ counter >= required
        /\ GoTo("read")
        /\ UNCHANGED <<hpet, periodic, required, count, masked, ticks_20ms>>

\* Mutant: the ticks are those that are left.
MutRead == /\ step = "read"
           /\ ticks_20ms' = (Slices * count) % APICWidth
           /\ masked' = FALSE
           /\ GoTo("done")
           /\ UNCHANGED <<hpet, periodic, required, count>>

\* The ticks that passed; the timer is unmasked and goes on from where it is.
Read == /\ step = "read"
        /\ ticks_20ms' = (Slices * (APICWidth - 1 - count)) % APICWidth
        /\ masked' = FALSE
        /\ GoTo("done")
        /\ UNCHANGED <<hpet, periodic, required, count>>

Code == HpetInit \/ Calibrate \/ Usleep \/ Wait \/ Read

ClockNext == Tick \/ Code

ClockSpec == ClockInit /\ [][ClockNext]_clockVars

\* The timer is set to at least what Slices sleeps take, less the HPET's tick that
\* had begun (timer.cpp:46, hpet.hpp:45-49), unless the code is held up for so
\* long that the product needs more than 32 bits.
TicksEnough ==
  step = "done" =>
    \/ ticks_20ms >= Slices * Ratio * (Sleep - 1)
    \/ Slices * (APICWidth - 1 - count) >= APICWidth
===============================================================================

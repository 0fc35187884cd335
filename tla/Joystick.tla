------------------------------ MODULE Joystick ------------------------------
(***************************************************************************)
(* The joystick and the user LED: the keys raise the lines of the external *)
(* interrupt controller, its handlers signal the Sensor task, the commands *)
(* of the shell signal it too, and the task reports keys and sets the LED. *)
(***************************************************************************)
EXTENDS Naturals, FiniteSets

CONSTANTS Keys  \* the keys that are pressed

(* The pins of the device tree are the lines of the controller. *)
LineOf == [up |-> 7, down |-> 15, left |-> 13, right |-> 6, center |-> 14]

ASSUME KeysAssumption == Keys \subseteq DOMAIN LineOf

VARIABLES pressed,  \* the keys that are down
          pending,  \* the lines whose pending flag is set
          routine,  \* the interrupt routine: at which line, and what it does
          noted,    \* the notification bits of the Sensor task
          sensor,   \* the task: where it is, and the bits it received
          led,      \* the LED
          wanted,   \* history: the LED as the commands, one by one, have it
          merged,   \* history: a command came before another was carried out,
                    \* and none since then that sets the LED by itself
          unheard,  \* history: the keys whose press is not reported yet
          wiped     \* history: the keys that are down whose flag, set by their
                    \* press, the handler of another line cleared

joyVars == <<pressed, pending, routine, noted, sensor, led, wanted, merged, unheard, wiped>>

Lights == {"on", "off", "toggle"}
Lines  == {LineOf[k] : k \in Keys}

JoyInit == /\ pressed = {} /\ pending = {} /\ routine = [pc |-> "none", line |-> 0]
           /\ noted = {} /\ sensor = [pc |-> "wait", got |-> {}]
           /\ led = FALSE /\ wanted = FALSE /\ merged = FALSE /\ unheard = {} /\ wiped = {}

-----------------------------------------------------------------------------
(* The keys: the rising edge sets the pending flag of the line. *)

Press(k) == /\ k \notin pressed
            /\ pressed' = pressed \cup {k} /\ unheard' = unheard \cup {k}
            /\ pending' = pending \cup {LineOf[k]} /\ wiped' = wiped \ {k}
            /\ UNCHANGED <<routine, noted, sensor, led, wanted, merged>>

Release(k) == /\ k \in pressed
              /\ pressed' = pressed \ {k} /\ unheard' = unheard \ {k}
              /\ wiped' = wiped \ {k}
              /\ UNCHANGED <<pending, routine, noted, sensor, led, wanted, merged>>

-----------------------------------------------------------------------------
(* The controller.  Two vectors serve the lines of the keys; each checks   *)
(* its lines in order, up to the line before the last of its range.  The   *)
(* lines that no key raises are passed over, but for that last one.        *)

First(line) == IF line < 10 THEN 5 ELSE 10

(* Mutant of EndOf: one line less is checked. *)
EndShort(line) == IF line < 10 THEN 8 ELSE 14

EndOf(line) == IF line < 10 THEN 9 ELSE 15

Onward(from, end) ==
    LET left == {l \in Lines : from <= l /\ l < end} \cup {end - 1}
    IN  CHOOSE l \in left : \A m \in left : l <= m

Raised  == pending # {}
Quiet   == routine.pc = "none" /\ ~Raised
Advance == LET end == EndOf(routine.line) IN
           IF routine.line + 1 >= end THEN [pc |-> "none", line |-> 0]
           ELSE [pc |-> "check", line |-> Onward(routine.line + 1, end)]

(* Of the two vectors, of one priority, the lower is taken first.          *)
EnterVector(line) ==
    /\ routine.pc = "none" /\ line \in pending
    /\ \A l \in pending : First(line) <= First(l)
    /\ routine' = [pc |-> "check", line |-> Onward(First(line), EndOf(line))]
    /\ UNCHANGED <<pressed, pending, noted, sensor, led, wanted, merged, unheard, wiped>>

(* Write(1) of one flag reads the register and writes it back, and every   *)
(* flag that is read as 1 is cleared by that, not only the one meant.      *)
Check ==
    /\ routine.pc = "check"
    /\ IF routine.line \in pending
       THEN /\ pending' = {} /\ routine' = [routine EXCEPT !.pc = "call"]
            /\ wiped' = wiped \cup {k \in pressed : LineOf[k] \in pending \ {routine.line}}
       ELSE routine' = Advance /\ UNCHANGED <<pending, wiped>>
    /\ UNCHANGED <<pressed, noted, sensor, led, wanted, merged, unheard>>

Notified(s) == noted \cup {s}

(* The callback signals the task if the pin is still high. *)
Call ==
    /\ routine.pc = "call" /\ routine' = Advance
    /\ LET k == CHOOSE key \in Keys : LineOf[key] = routine.line
       IN  noted' = IF k \in pressed THEN Notified(k) ELSE noted
    /\ UNCHANGED <<pressed, pending, sensor, led, wanted, merged, unheard, wiped>>

-----------------------------------------------------------------------------
(* The tasks run when no interrupt is pending.  The shell has the lower    *)
(* priority: it runs while the Sensor task waits, or writes its report.    *)

Request(light) ==
    /\ Quiet /\ (sensor.pc = "report" \/ (sensor.pc = "wait" /\ noted = {}))
    /\ noted' = Notified(light)
    /\ wanted' = CASE light = "on" -> TRUE [] light = "off" -> FALSE [] OTHER -> ~wanted
    /\ merged' = \/ (noted \cup sensor.got) \cap Lights # {}
                 \/ merged /\ light = "toggle"
    /\ UNCHANGED <<pressed, pending, routine, sensor, led, unheard, wiped>>

Receive ==
    /\ Quiet /\ sensor.pc = "wait" /\ noted # {}
    /\ sensor' = [pc |-> "report", got |-> noted] /\ noted' = {}
    /\ UNCHANGED <<pressed, pending, routine, led, wanted, merged, unheard, wiped>>

(* on, then off, then toggle. *)
Lit(got) ==
    LET on  == IF "on" \in got THEN TRUE ELSE led
        off == IF "off" \in got THEN FALSE ELSE on
    IN  IF "toggle" \in got THEN ~off ELSE off

(* The keys are reported, which takes its time, and the LED is set. *)
Report ==
    /\ Quiet /\ sensor.pc = "report" /\ sensor' = [pc |-> "wait", got |-> {}]
    /\ unheard' = unheard \ sensor.got
    /\ led' = Lit(sensor.got)
    /\ UNCHANGED <<pressed, pending, routine, noted, wanted, merged, wiped>>

Interrupts == (\E line \in Lines : EnterVector(line)) \/ Check \/ Call
SensorTask == Receive \/ Report

JoyNext == \/ \E k \in Keys : Press(k) \/ Release(k)
           \/ Interrupts \/ SensorTask
           \/ \E light \in Lights : Request(light)

(* The processor takes a pending interrupt and finishes its routine, and a *)
(* task that can run and is not interrupted runs.                          *)
JoyFairness == WF_joyVars(Interrupts) /\ WF_joyVars(SensorTask)
JoySpec == JoyInit /\ [][JoyNext]_joyVars /\ JoyFairness

-----------------------------------------------------------------------------
(* What is checked. *)

(* The variables have their types. *)
JoyTypeOK ==
    /\ pressed \subseteq Keys /\ pending \subseteq Lines
    /\ unheard \subseteq pressed /\ wiped \subseteq pressed
    /\ routine.pc \in {"none", "check", "call"} /\ routine.line \in 0..15
    /\ noted \subseteq Keys \cup Lights /\ sensor.got \subseteq Keys \cup Lights
    /\ sensor.pc \in {"wait", "report"}
    /\ led \in BOOLEAN /\ wanted \in BOOLEAN /\ merged \in BOOLEAN

(* When the Sensor task has nothing left to do the LED is as the commands  *)
(* led-on, led-off and led-toggle have it.  Commands that came while the   *)
(* task was busy with others are merged, bit by bit, and may end another   *)
(* way; the next led-on or led-off sets it right.                          *)
LedFollowsCommands ==
    sensor.pc = "wait" /\ noted \cap Lights = {} /\ ~merged => led = wanted

(* A key that is held is reported in the end, however its edge falls into  *)
(* the routine of another line or into the work of the task (the flag is   *)
(* cleared before the pin is read), unless keys are pressed on and on, or  *)
(* the handler of another line found its flag set and cleared it too.      *)
HeldKeyReported ==
    \/ []<><<\E k \in Keys : Press(k)>>_joyVars
    \/ \A k \in Keys : (k \in unheard \ wiped) ~> (k \notin unheard \/ k \in wiped)

(* Every line that is enabled and raised gets its flag cleared, and the    *)
(* tasks go on ("Check and handle External line interrupts from 'k_begin'  *)
(* offset to 'end'").                                                      *)
EnabledLineServed == \A line \in Lines : (line \in pending) ~> (line \notin pending)
=============================================================================

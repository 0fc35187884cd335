------------------------------- MODULE Panel -------------------------------
(***************************************************************************)
(* The display: the Display task, which draws the time every second while  *)
(* the display is on, the commands of the shell that signal it, and the    *)
(* panel behind the I2C bus, where any write may fail unseen.              *)
(***************************************************************************)
EXTENDS Naturals, FiniteSets

VARIABLES task,    \* where the Display task is, and the bits it received
          bits,    \* its notification bits
          status,  \* whether it takes the display to be on
          lit,     \* whether the panel is on
          command, \* history: the last of display-on and display-off
          missed   \* history: since then a write to the panel failed

panelVars == <<task, bits, status, lit, command, missed>>

Orders == {"on", "off", "invert"}

PanelInit == /\ task = [pc |-> "start", got |-> {}] /\ bits = {}
             /\ status = TRUE /\ lit = FALSE /\ command = "on" /\ missed = FALSE

-----------------------------------------------------------------------------
(* The task deletes itself if the bus does not come up; the panel is       *)
(* started with one write, whose result nobody looks at.                   *)
StartUp == /\ task.pc = "start"
           /\ \/ task' = [task EXCEPT !.pc = "gone"] /\ UNCHANGED <<lit, missed>>
              \/ /\ task' = [task EXCEPT !.pc = "wait"]
                 /\ \E ok \in BOOLEAN : lit' = ok /\ missed' = ~ok
           /\ UNCHANGED <<bits, status, command>>

Wake(got) == /\ task.pc = "wait" /\ task' = [pc |-> "draw", got |-> got]
             /\ UNCHANGED <<status, lit, command, missed>>

Signalled == bits # {} /\ Wake(bits) /\ bits' = {}

(* Mutant of SecondOver: the task waits with a timeout while it is off. *)
SecondOverInTheDark == ~status /\ Wake({}) /\ UNCHANGED bits

SecondOver == status /\ Wake({}) /\ UNCHANGED bits

(* Mutant of Redraw: the bits are forgotten over the drawing. *)
RedrawAndForget == /\ task.pc = "draw" /\ status
                   /\ task' = [task EXCEPT !.pc = "wait"]
                   /\ UNCHANGED <<bits, status, lit, command, missed>>

(* The time is drawn before the bits are looked at. *)
Redraw == /\ task.pc = "draw" /\ status
          /\ task' = [task EXCEPT !.pc = IF task.got = {} THEN "wait" ELSE "obey"]
          /\ UNCHANGED <<bits, status, lit, command, missed>>

KeepDark == /\ task.pc = "draw" /\ ~status /\ task' = [task EXCEPT !.pc = "obey"]
            /\ UNCHANGED <<bits, status, lit, command, missed>>

Switched(before, orders) ==
    IF "off" \in orders THEN FALSE ELSE IF "on" \in orders THEN TRUE ELSE before

(* on, then off, one write each; those that fail are not heard.  The byte  *)
(* of an inversion is written as data of the image: it switches nothing.   *)
Obey == LET asked == task.got \ {"invert"} IN
    /\ task.pc = "obey" /\ task' = [pc |-> "wait", got |-> {}]
    /\ status' = Switched(status, asked)
    /\ \E heard \in SUBSET asked :
           /\ lit' = Switched(lit, heard)
           /\ missed' = IF asked = {} THEN missed ELSE heard # asked
    /\ UNCHANGED <<bits, command>>

(* The shell has a lower priority than the Display task, which waits for   *)
(* the bus without giving up the processor.                                *)
Order(order) == /\ task.pc = "gone" \/ (task.pc = "wait" /\ bits = {})
                /\ bits' = bits \cup {order}
                /\ command' = IF order = "invert" THEN command ELSE order
                /\ UNCHANGED <<task, status, lit, missed>>

DisplayTask == Signalled \/ SecondOver \/ Redraw \/ KeepDark \/ Obey
PanelNext == StartUp \/ DisplayTask \/ \E order \in Orders : Order(order)

(* The Display task runs when it can: nothing of its priority runs long,   *)
(* and its second passes.                                                  *)
PanelFairness == WF_panelVars(StartUp) /\ WF_panelVars(DisplayTask)
PanelSpec == PanelInit /\ [][PanelNext]_panelVars /\ PanelFairness

-----------------------------------------------------------------------------
(* What is checked. *)

(* The variables have their types. *)
PanelTypeOK ==
    /\ task.pc \in {"start", "wait", "draw", "obey", "gone"} /\ task.got \subseteq Orders
    /\ bits \subseteq Orders /\ status \in BOOLEAN
    /\ lit \in BOOLEAN /\ command \in {"on", "off"} /\ missed \in BOOLEAN

(* When the Display task waits and has nothing to do, the panel is on or   *)
(* off as the last display-on or display-off has it, and the task knows,   *)
(* unless the write of that command failed.                                *)
PanelFollowsCommands ==
    task.pc = "wait" /\ bits = {} =>
        /\ status = (command = "on")
        /\ ~missed => lit = status

(* While the display is on the clock goes on: the time is drawn again and  *)
(* again, whatever commands come, unless the task gave up at its start.    *)
ClockGoesOn == \/ []<><<Redraw>>_panelVars
               \/ []<>~status
               \/ <>[](task.pc \in {"start", "gone"})
=============================================================================

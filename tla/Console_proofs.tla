--------------------------- MODULE Console_proofs ---------------------------
(***************************************************************************)
(* Proofs about the four parts of the console.  Commands to the Display    *)
(* and the Sensor task take effect in the order given (PanelFollows,       *)
(* LedFollows: what is on its way explains how what is seen differs from   *)
(* what was asked for).  Whoever reads the clock undisturbed reads one     *)
(* instant (Instant, with what makes the shadows current).  The slots of   *)
(* the history are the last lines (SlotsHoldEntries: which line each slot  *)
(* holds).  The row of the terminal is the line, or stands for any after a *)
(* control byte or a zero (ScreenFollows), and a completed name is what    *)
(* the names have in common (Found: what the loop over the commands has    *)
(* found, by induction on the sets of places it went over).                *)
(* For any keys, names, tasks, times, dates and sizes of the history.      *)
(***************************************************************************)
EXTENDS Console, SequenceTheorems, FiniteSetTheorems, WellFoundedInduction, TLAPS

(*------------------------------ The display ------------------------------*)

(* The bits that are on their way to the Display task, received or not.    *)
OnWay == bits \cup task.got

(* At most one order is on its way: the shell gives one only while the     *)
(* task waits and has none.  The status, and the panel unless a write was  *)
(* missed, are as the last command has it, but for the order on its way,   *)
(* which is that command.                                                  *)
PanelFollows ==
    /\ task.pc = "start" => bits = {} /\ status /\ command = "on"
    /\ task.pc \in {"start", "wait", "gone"} => task.got = {}
    /\ bits = {} \/ task.got = {}
    /\ task.pc \in {"wait", "draw", "obey"} =>
          \/ /\ OnWay \subseteq {"invert"}
             /\ status = (command = "on")
             /\ ~missed => lit = status
          \/ OnWay = {command}

PanelShape == task = [pc |-> task.pc, got |-> task.got]

PanelInv == PanelTypeOK /\ PanelShape /\ PanelFollows

(* At the start no command was given and the display is on.                *)
LEMMA PanelInitInv == PanelInit => PanelInv
<1> SUFFICES ASSUME PanelInit PROVE PanelInv
  OBVIOUS
<1> USE DEF PanelInit, Orders
<1>1. PanelTypeOK
  BY DEF PanelTypeOK
<1>2. PanelShape /\ PanelFollows
  BY DEF PanelShape, PanelFollows, OnWay
<1> QED
  BY <1>1, <1>2 DEF PanelInv

(* Starting up: the one write decides whether the panel is on.             *)
LEMMA StartUpInv == PanelInv /\ StartUp => PanelInv'
<1> SUFFICES ASSUME PanelInv, StartUp PROVE PanelInv'
  OBVIOUS
<1> USE DEF PanelInv, PanelTypeOK, PanelShape, PanelFollows, OnWay, Orders, StartUp
<1>1. CASE task' = [task EXCEPT !.pc = "gone"] /\ UNCHANGED <<lit, missed>>
  BY <1>1
<1>2. CASE /\ task' = [task EXCEPT !.pc = "wait"]
           /\ \E ok \in BOOLEAN : lit' = ok /\ missed' = ~ok
  <2> PICK ok \in BOOLEAN : lit' = ok /\ missed' = ~ok
    BY <1>2
  <2> QED
    BY <1>2
<1> QED
  BY <1>1, <1>2

(* The commands for the panel are carried out one by one.                  *)
LEMMA ObeyInv == PanelInv /\ Obey => PanelInv'
<1> SUFFICES ASSUME PanelInv, Obey PROVE PanelInv'
  OBVIOUS
<1> DEFINE asked == task.got \ {"invert"}
<1>1. /\ task.pc = "obey" /\ task' = [pc |-> "wait", got |-> {}]
      /\ status' = Switched(status, asked) /\ bits' = bits /\ command' = command
  BY DEF Obey
<1>2. PICK heard \in SUBSET asked :
          /\ lit' = Switched(lit, heard)
          /\ missed' = IF asked = {} THEN missed ELSE heard # asked
  BY DEF Obey
<1>3. bits = {} \/ task.got = {}
  BY <1>1 DEF PanelInv, PanelFollows
<1>4. OnWay = bits \cup task.got /\ OnWay' = bits
  BY <1>1 DEF OnWay
<1>5. PanelTypeOK' /\ PanelShape'
  BY <1>1, <1>2 DEF PanelInv, PanelTypeOK, PanelShape, Switched
<1>6. \/ /\ OnWay' \subseteq {"invert"}
         /\ status' = (command' = "on")
         /\ ~missed' => lit' = status'
      \/ OnWay' = {command'}
  <2>1. CASE asked = {}
    <3>1. heard = {} /\ status' = status /\ lit' = lit /\ missed' = missed
      BY <2>1, <1>1, <1>2 DEF Switched
    <3>2. bits \subseteq OnWay
      BY <1>4
    <3>3. CASE /\ OnWay \subseteq {"invert"}
               /\ status = (command = "on")
               /\ ~missed => lit = status
      BY <3>1, <3>2, <3>3, <1>1, <1>4
    <3>4. CASE OnWay = {command}
      <4>1. command # "invert"
        BY DEF PanelInv, PanelTypeOK
      <4>2. task.got = {}
        BY <4>1, <3>4, <2>1, <1>4
      <4> QED
        BY <4>2, <3>4, <1>1, <1>4
    <3> QED
      BY <3>3, <3>4, <1>1 DEF PanelInv, PanelFollows
  <2>2. CASE asked # {}
    <3>1. bits = {} /\ OnWay = task.got
      BY <1>3, <1>4, <2>2
    <3>2. OnWay = {command}
      BY <2>2, <3>1, <1>1 DEF PanelInv, PanelFollows
    <3>3. command = "on" \/ command = "off"
      BY DEF PanelInv, PanelTypeOK
    <3>4. asked = {command}
      BY <3>1, <3>2, <3>3
    <3>5. missed' = (heard # asked)
      BY <2>2, <1>2
    <3>6. status' = (command = "on")
      BY <3>3, <3>4, <1>1 DEF Switched
    <3>7. ~missed' => lit' = (command = "on")
      BY <3>3, <3>4, <3>5, <1>2 DEF Switched
    <3> QED
      BY <3>1, <3>6, <3>7, <1>1, <1>4
  <2> QED
    BY <2>1, <2>2
<1> QED
  BY <1>1, <1>5, <1>6 DEF PanelInv, PanelFollows

(* An order of the shell, given when none is on its way.                   *)
LEMMA OrderInv == ASSUME PanelInv, NEW order \in Orders, Order(order) PROVE PanelInv'
<1> USE DEF PanelInv, PanelTypeOK, PanelShape, PanelFollows, OnWay, Orders, Order
<1>1. CASE task.pc = "gone"
  <2>1. task' = task /\ bits' = bits \cup {order} /\ task'.pc = "gone"
    BY <1>1
  <2>2. command' \in {"on", "off"}
    OBVIOUS
  <2>3. task.got = {} \/ bits = {}
    BY <1>1
  <2> QED
    BY <1>1, <2>1, <2>2, <2>3
<1>2. CASE task.pc = "wait" /\ bits = {}
  <2>1. PanelTypeOK' /\ PanelShape' /\ OnWay' = {order} /\ task' = task
    BY <1>2
  <2>2. CASE order = "invert"
    <3>1. OnWay' \subseteq {"invert"} /\ status' = (command' = "on") /\ (~missed' => lit' = status')
      BY <1>2, <2>1, <2>2
    <3> QED
      BY <1>2, <2>1, <3>1
  <2>3. CASE order # "invert"
    BY <1>2, <2>1, <2>3
  <2> QED
    BY <2>2, <2>3
<1> QED
  BY <1>1, <1>2

(* Every step of the display task, of its commands and of its second.      *)
LEMMA PanelStep == PanelInv /\ [PanelNext]_panelVars => PanelInv'
<1> SUFFICES ASSUME PanelInv, [PanelNext]_panelVars PROVE PanelInv'
  OBVIOUS
<1>1. CASE StartUp
  BY <1>1, StartUpInv
<1>2. CASE Signalled
  BY <1>2 DEF PanelInv, PanelTypeOK, PanelShape, PanelFollows, OnWay, Orders, Signalled, Wake
<1>3. CASE SecondOver
  BY <1>3 DEF PanelInv, PanelTypeOK, PanelShape, PanelFollows, OnWay, Orders, SecondOver, Wake
<1>4. CASE Redraw
  BY <1>4 DEF PanelInv, PanelTypeOK, PanelShape, PanelFollows, OnWay, Orders, Redraw
<1>5. CASE KeepDark
  BY <1>5 DEF PanelInv, PanelTypeOK, PanelShape, PanelFollows, OnWay, Orders, KeepDark
<1>6. CASE Obey
  BY <1>6, ObeyInv
<1>7. CASE \E order \in Orders : Order(order)
  BY <1>7, OrderInv
<1>8. CASE UNCHANGED panelVars
  BY <1>8 DEF PanelInv, PanelTypeOK, PanelShape, PanelFollows, OnWay, Orders, panelVars
<1> QED
  BY <1>1, <1>2, <1>3, <1>4, <1>5, <1>6, <1>7, <1>8 DEF PanelNext, DisplayTask

(*------------------------- The joystick and the LED -----------------------*)

(* No key has the name of a command for the LED. *)
LEMMA KeysAreNoLights == Keys \cap Lights = {}
  BY KeysAssumption DEF Lights, LineOf

(* The lines of the keys are lines of the controller. *)
LEMMA LinesInRange == \A l \in Lines : l \in 6..15
<1> SUFFICES ASSUME NEW k \in Keys PROVE LineOf[k] \in 6..15
  BY DEF Lines
<1>1. \/ k = "up" \/ k = "down" \/ k = "left" \/ k = "right" \/ k = "center"
  BY KeysAssumption DEF LineOf
<1> QED
  BY <1>1 DEF LineOf

(* A set of naturals that is not empty has a least element. *)
LEMMA LeastOf == ASSUME NEW S \in SUBSET Nat, S # {}
                 PROVE  \E l \in S : \A m \in S : l <= m
<1> DEFINE R == OpToRel(<, Nat)
<1>1. R = {ss \in Nat \X Nat : ss[1] < ss[2]}
  BY Zenon DEF OpToRel
<1>2. IsWellFoundedOn(R, Nat)
  BY NatLessThanWellFounded, Zenon
<1> HIDE DEF R
<1>3. PICK h \in S : \A g \in S : ~(<<g, h>> \in R)
  BY <1>2, WFMin
<1>4. ASSUME NEW g \in Nat, NEW m \in Nat, g < m PROVE <<g, m>> \in R
  <2> DEFINE pair == <<g, m>>
  <2>1. pair \in Nat \X Nat /\ pair[1] < pair[2]
    BY <1>4
  <2> QED
    BY <1>1, <2>1, Zenon
<1>5. \A g \in S : ~(g < h)
  BY <1>3, <1>4, Zenon
<1> QED
  BY <1>5

(* The next line to be checked is in the range of the vector.              *)
LEMMA OnwardInRange ==
    ASSUME NEW from \in Nat, NEW end \in Nat \ {0} PROVE Onward(from, end) \in 0..(end - 1)
<1> DEFINE left == {l \in Lines : from <= l /\ l < end} \cup {end - 1}
<1>1. left \in SUBSET (0..(end - 1))
  BY LinesInRange
<1>2. left # {} /\ left \in SUBSET Nat
  BY <1>1
<1>3. Onward(from, end) = CHOOSE l \in left : \A m \in left : l <= m
  BY DEF Onward
<1> HIDE DEF left
<1>4. \E l \in left : \A m \in left : l <= m
  BY <1>2, LeastOf
<1> QED
  BY <1>1, <1>3, <1>4

(* The interrupt routine goes on to a line of its range, or returns.       *)
LEMMA AdvanceInRange ==
    ASSUME routine.line \in 0..15
    PROVE  /\ Advance.pc \in {"none", "check"} /\ Advance.line \in 0..15
           /\ Advance = [pc |-> Advance.pc, line |-> Advance.line]
<1> DEFINE end == EndOf(routine.line)
<1>1. end \in Nat \ {0} /\ end <= 15
  BY DEF EndOf
<1>2. Onward(routine.line + 1, end) \in 0..15
  <2> HIDE DEF end
  <2>1. routine.line + 1 \in Nat
    OBVIOUS
  <2>2. Onward(routine.line + 1, end) \in 0..(end - 1)
    BY <1>1, <2>1, OnwardInRange
  <2> QED
    BY <1>1, <2>2
<1>3. \/ Advance = [pc |-> "none", line |-> 0]
      \/ Advance = [pc |-> "check", line |-> Onward(routine.line + 1, end)]
  BY DEF Advance
<1> QED
  BY <1>2, <1>3

(* While no command is merged with another, the LED with the commands that *)
(* are on their way carried out is as the commands one by one have it.     *)
LedFollows ==
    /\ sensor.pc = "wait" => sensor.got = {}
    /\ ~merged => /\ wanted = Lit(noted \cup sensor.got)
                  /\ noted \cap Lights = {} \/ sensor.got \cap Lights = {}

JoyShape == /\ routine = [pc |-> routine.pc, line |-> routine.line]
            /\ sensor = [pc |-> sensor.pc, got |-> sensor.got]

JoyInv == JoyTypeOK /\ JoyShape /\ LedFollows

(* At the start no key is down and no command given.                       *)
LEMMA JoyInitInv == JoyInit => JoyInv
<1> SUFFICES ASSUME JoyInit PROVE JoyInv
  OBVIOUS
<1> USE DEF JoyInit
<1>1. JoyShape
  BY DEF JoyShape
<1>3. /\ pressed \subseteq Keys /\ pending \subseteq Lines
      /\ unheard \subseteq pressed /\ wiped \subseteq pressed
      /\ routine.pc = "none" /\ routine.line = 0 /\ sensor.pc = "wait"
      /\ noted = {} /\ sensor.got = {}
  OBVIOUS
<1>4. led \in BOOLEAN /\ wanted \in BOOLEAN /\ merged \in BOOLEAN
  OBVIOUS
<1>5. JoyTypeOK
  BY <1>3, <1>4 DEF JoyTypeOK
<1>2. LedFollows
  BY DEF LedFollows, Lit, Lights
<1> QED
  BY <1>1, <1>2, <1>5 DEF JoyInv

(* Only commands for the LED change it.                                    *)
LEMMA LitByLights ==
    ASSUME NEW S, NEW T, S \cap Lights = T \cap Lights PROVE Lit(S) = Lit(T)
<1>1. ("on" \in S <=> "on" \in T) /\ ("off" \in S <=> "off" \in T) /\ ("toggle" \in S <=> "toggle" \in T)
  BY DEF Lights
<1> QED
  BY <1>1 DEF Lit

(* What leaves the commands on their way alone leaves the invariant true.  *)
LEMMA LedAlone ==
    ASSUME LedFollows, led' = led, wanted' = wanted, merged' = merged, sensor' = sensor,
           noted' \cap Lights = noted \cap Lights
    PROVE  LedFollows'
<1>1. (noted \cup sensor.got)' \cap Lights = (noted \cup sensor.got) \cap Lights
  OBVIOUS
<1> DEFINE S == noted \cup sensor.got
           T == (noted \cup sensor.got)'
<1>2. Lit(noted \cup sensor.got)' = Lit(T)
  BY DEF Lit
<1>3. Lit(T) = Lit(S)
  <2> HIDE DEF S, T
  <2>1. S \cap Lights = T \cap Lights
    BY <1>1 DEF S, T
  <2> QED
    BY <2>1, LitByLights
<1> QED
  BY <1>2, <1>3 DEF LedFollows

(* The callback of a line adds a key, never a command, to what is noted.   *)
LEMMA CallInv == JoyInv /\ Call => JoyInv'
<1> SUFFICES ASSUME JoyInv, Call PROVE JoyInv'
  OBVIOUS
<1>1. routine.line \in 0..15 /\ pressed \subseteq Keys
  BY DEF JoyInv, JoyTypeOK
<1>2. routine' = Advance /\ UNCHANGED <<pressed, pending, sensor, led, wanted, merged, unheard, wiped>>
  BY DEF Call
<1> DEFINE k == CHOOSE key \in Keys : LineOf[key] = routine.line
<1>3. noted' = IF k \in pressed THEN Notified(k) ELSE noted
  BY Zenon DEF Call
<1> HIDE DEF k
<1>4. noted' \subseteq noted \cup Keys
  BY <1>1, <1>3 DEF Notified
<1>5. noted' \cap Lights = noted \cap Lights
  BY <1>3, <1>1, KeysAreNoLights DEF Notified
<1>6. LedFollows'
  BY <1>2, <1>5, LedAlone DEF JoyInv
<1>7. JoyTypeOK' /\ JoyShape'
  BY <1>1, <1>2, <1>4, AdvanceInRange DEF JoyInv, JoyTypeOK, JoyShape
<1> QED
  BY <1>6, <1>7 DEF JoyInv

(* The shell gives a command for the LED.                                  *)
LEMMA RequestInv == ASSUME JoyInv, NEW light \in Lights, Request(light) PROVE JoyInv'
<1>1. /\ noted' = noted \cup {light}
      /\ wanted' = CASE light = "on" -> TRUE [] light = "off" -> FALSE [] OTHER -> ~wanted
      /\ merged' = (\/ (noted \cup sensor.got) \cap Lights # {}
                    \/ merged /\ light = "toggle")
      /\ UNCHANGED <<pressed, pending, routine, sensor, led, unheard, wiped>>
  BY DEF Request, Notified
<1>2. light = "on" \/ light = "off" \/ light = "toggle"
  BY DEF Lights
<1>3. JoyTypeOK' /\ JoyShape'
  BY <1>1, <1>2 DEF JoyInv, JoyTypeOK, JoyShape
<1>4. LedFollows'
  <2>1. sensor'.pc = "wait" => sensor'.got = {}
    BY <1>1 DEF JoyInv, LedFollows
  <2>2. ASSUME ~merged'
        PROVE  /\ wanted' = Lit(noted \cup sensor.got)'
               /\ sensor'.got \cap Lights = {}
    <3>1. (noted \cup sensor.got) \cap Lights = {} /\ (merged => light # "toggle")
      BY <1>1, <2>2
    <3>2. ~merged => wanted = led
      <4>1. Lit(noted \cup sensor.got) = led
        BY <3>1 DEF Lit, Lights, JoyInv, JoyTypeOK
      <4> QED
        BY <4>1 DEF JoyInv, LedFollows
    <3>3. led \in BOOLEAN /\ wanted \in BOOLEAN
      BY DEF JoyInv, JoyTypeOK
    <3>4. (noted \cup sensor.got)' \cap Lights = {light}
      BY <3>1, <1>1
    <3>5. /\ "on" \in (noted \cup sensor.got)' <=> light = "on"
          /\ "off" \in (noted \cup sensor.got)' <=> light = "off"
          /\ "toggle" \in (noted \cup sensor.got)' <=> light = "toggle"
      BY <3>4 DEF Lights
    <3>6. wanted' = Lit(noted \cup sensor.got)'
      <4>1. CASE light = "on"
        BY <4>1, <3>5, <1>1 DEF Lit
      <4>2. CASE light = "off"
        BY <4>2, <3>5, <1>1 DEF Lit
      <4>3. CASE light = "toggle"
        <5>1. ~merged /\ wanted = led
          BY <4>3, <3>1, <3>2
        <5> QED
          BY <4>3, <3>3, <3>5, <5>1, <1>1 DEF Lit
      <4> QED
        BY <4>1, <4>2, <4>3, <1>2
    <3> QED
      BY <3>6, <3>1, <1>1
  <2> QED
    BY <2>1, <2>2 DEF LedFollows
<1> QED
  BY <1>3, <1>4 DEF JoyInv

(* The task receives what is noted: it stays on its way.                   *)
LEMMA ReceiveInv == JoyInv /\ Receive => JoyInv'
<1> SUFFICES ASSUME JoyInv, Receive PROVE JoyInv'
  OBVIOUS
<1>1. /\ sensor.pc = "wait" /\ sensor' = [pc |-> "report", got |-> noted] /\ noted' = {}
      /\ UNCHANGED <<pressed, pending, routine, led, wanted, merged, unheard, wiped>>
  BY DEF Receive
<1>2. JoyTypeOK' /\ JoyShape'
  BY <1>1 DEF JoyInv, JoyTypeOK, JoyShape
<1>3. sensor.got = {}
  BY <1>1 DEF JoyInv, LedFollows
<1>4. (noted \cup sensor.got)' = noted \cup sensor.got
  BY <1>1, <1>3
<1>5. Lit(noted \cup sensor.got)' = Lit(noted \cup sensor.got)
  BY <1>4, <1>1 DEF Lit
<1>6. sensor'.pc = "report" /\ noted' \cap Lights = {}
  BY <1>1
<1>7. LedFollows'
  BY <1>1, <1>5, <1>6 DEF JoyInv, LedFollows
<1> QED
  BY <1>2, <1>7 DEF JoyInv

(* The task carries out the commands it has received.                      *)
LEMMA ReportInv == JoyInv /\ Report => JoyInv'
<1> SUFFICES ASSUME JoyInv, Report PROVE JoyInv'
  OBVIOUS
<1>1. /\ sensor.pc = "report" /\ sensor' = [pc |-> "wait", got |-> {}]
      /\ unheard' = unheard \ sensor.got /\ led' = Lit(sensor.got)
      /\ UNCHANGED <<pressed, pending, routine, noted, wanted, merged, wiped>>
  BY DEF Report
<1>2. led \in BOOLEAN /\ Lit(sensor.got) \in BOOLEAN
  BY DEF JoyInv, JoyTypeOK, Lit
<1>3. JoyTypeOK' /\ JoyShape'
  BY <1>1, <1>2 DEF JoyInv, JoyTypeOK, JoyShape
<1>4. ASSUME ~merged' PROVE wanted' = Lit(noted \cup sensor.got)'
  <2>1. ~merged /\ wanted = Lit(noted \cup sensor.got)
        /\ (noted \cap Lights = {} \/ sensor.got \cap Lights = {})
    BY <1>1, <1>4 DEF JoyInv, LedFollows
  <2>2. (noted \cup sensor.got)' = noted
    BY <1>1
  <2>3. CASE noted \cap Lights = {}
    <3>1. wanted = Lit(sensor.got)
      <4>1. (noted \cup sensor.got) \cap Lights = sensor.got \cap Lights
        BY <2>3
      <4> QED
        BY <4>1, <2>1, LitByLights
    <3>2. Lit(noted \cup sensor.got)' = led'
      BY <2>2, <2>3, <1>1, <1>2 DEF Lit, Lights
    <3> QED
      BY <3>1, <3>2, <1>1
  <2>4. CASE sensor.got \cap Lights = {}
    <3>1. led' = led
      BY <1>1, <1>2, <2>4 DEF Lit, Lights
    <3>2. (noted \cup sensor.got) \cap Lights = noted \cap Lights
      BY <2>4
    <3>3. wanted = Lit(noted)
      BY <2>1, <3>2, LitByLights
    <3>4. Lit(noted \cup sensor.got)' = Lit(noted)
      BY <2>2, <3>1 DEF Lit
    <3> QED
      BY <3>3, <3>4, <1>1
  <2> QED
    BY <2>1, <2>3, <2>4
<1>5. LedFollows'
  BY <1>1, <1>4 DEF LedFollows
<1> QED
  BY <1>3, <1>5 DEF JoyInv

(* Every step of the keys, the interrupts, the Sensor task and the shell.  *)
LEMMA JoyStep == JoyInv /\ [JoyNext]_joyVars => JoyInv'
<1> SUFFICES ASSUME JoyInv, [JoyNext]_joyVars PROVE JoyInv'
  OBVIOUS
<1>1. ASSUME NEW k \in Keys, Press(k) PROVE JoyInv'
  <2>1. LedFollows'
    BY <1>1, LedAlone DEF JoyInv, Press
  <2>2. LineOf[k] \in Lines
    BY DEF Lines
  <2>3. JoyTypeOK' /\ JoyShape'
    BY <1>1, <2>2 DEF Press, JoyInv, JoyTypeOK, JoyShape
  <2> QED
    BY <2>1, <2>3 DEF JoyInv
<1>2. ASSUME NEW k \in Keys, Release(k) PROVE JoyInv'
  <2>1. LedFollows'
    BY <1>2, LedAlone DEF JoyInv, Release
  <2>2. JoyTypeOK' /\ JoyShape'
    BY <1>2 DEF Release, JoyInv, JoyTypeOK, JoyShape
  <2> QED
    BY <2>1, <2>2 DEF JoyInv
<1>3. ASSUME NEW l \in Lines, EnterVector(l) PROVE JoyInv'
  <2>1. LedFollows'
    BY <1>3, LedAlone DEF JoyInv, EnterVector
  <2>2. Onward(First(l), EndOf(l)) \in 0..15
    <3>1. First(l) \in Nat /\ EndOf(l) \in Nat \ {0} /\ EndOf(l) <= 15
      BY DEF First, EndOf
    <3>2. Onward(First(l), EndOf(l)) \in 0..(EndOf(l) - 1)
      BY <3>1, OnwardInRange
    <3> QED
      BY <3>1, <3>2
  <2>3. JoyTypeOK' /\ JoyShape'
    BY <1>3, <2>2 DEF EnterVector, JoyInv, JoyTypeOK, JoyShape
  <2> QED
    BY <2>1, <2>3 DEF JoyInv
<1>4. CASE Check
  <2>1. LedFollows'
    BY <1>4, LedAlone DEF JoyInv, Check
  <2>2. routine.line \in 0..15
    BY DEF JoyInv, JoyTypeOK
  <2>3. JoyTypeOK' /\ JoyShape'
    BY <1>4, <2>2, AdvanceInRange DEF Check, JoyInv, JoyTypeOK, JoyShape
  <2> QED
    BY <2>1, <2>3 DEF JoyInv
<1>5. CASE Call
  BY <1>5, CallInv
<1>6. CASE Receive
  BY <1>6, ReceiveInv
<1>7. CASE Report
  BY <1>7, ReportInv
<1>8. ASSUME NEW light \in Lights, Request(light) PROVE JoyInv'
  BY <1>8, RequestInv
<1>9. CASE UNCHANGED joyVars
  <2>1. LedFollows'
    BY <1>9, LedAlone DEF JoyInv, joyVars
  <2>2. JoyTypeOK' /\ JoyShape'
    BY <1>9 DEF joyVars, JoyInv, JoyTypeOK, JoyShape
  <2> QED
    BY <2>1, <2>2 DEF JoyInv
<1> QED
  BY <1>1, <1>2, <1>3, <1>4, <1>5, <1>6, <1>7, <1>8, <1>9 DEF JoyNext, Interrupts, SensorTask

(*------------------------------- The clock -------------------------------*)

RtcShape ==
    /\ calendar = [time |-> calendar.time, date |-> calendar.date]
    /\ shadow   = [time |-> shadow.time, date |-> shadow.date]
    /\ setting  = [op |-> setting.op, pc |-> setting.pc, time |-> setting.time,
                   date |-> setting.date]
    /\ reader = [t \in Readers |-> [pc |-> reader[t].pc, time |-> reader[t].time,
                                    seen |-> reader[t].seen]]

RtcPlaces ==
    /\ phase \in {"free", "asked", "init"}
    /\ synced \in BOOLEAN /\ frozen \in BOOLEAN /\ failed \in BOOLEAN
    /\ \A t \in Readers : reader[t].pc \in {"idle", "date"}
    /\ setting.pc \in {"idle", "read", "enable", "wait", "time", "date",
                       "leave", "invalidate", "sync"}

(* A reading whose instants are remembered is alone between the registers. *)
Alone ==
    \A t \in Readers : reader[t].seen # {} =>
        /\ reader[t].pc = "date" /\ ~Writing
        /\ \A u \in Readers \ {t} : reader[u].pc = "idle"

(* The shadow of the date waits only while somebody is between the two     *)
(* registers; the rest of the time, unless a set_time() gave up, the       *)
(* shadows are copied and the mode of initialisation is off.               *)
FrozenByReader == frozen => setting.pc = "date" \/ \E t \in Readers : reader[t].pc = "date"
AtWork ==
    /\ setting.pc \in {"invalidate", "sync"} => phase = "free"
    /\ ~Writing /\ ~failed => synced /\ phase = "free"

(* Shadows that are copied show the calendar, but for a date that waits.   *)
ShadowsCopied ==
    synced /\ (setting.pc = "sync" \/ (~Writing /\ ~failed)) =>
        /\ shadow.time = calendar.time
        /\ ~frozen => shadow.date = calendar.date

(* What such a reading has got and will get is an instant it remembers.    *)
Reads(t) == [time |-> reader[t].time, date |-> Shown(shadow.date)]
Instant ==
    \A t \in Readers :
        reader[t].seen # {} /\ ~failed => frozen /\ Reads(t) \in reader[t].seen

RtcInv == RtcShape /\ RtcPlaces /\ Alone /\ FrozenByReader /\ AtWork /\ ShadowsCopied /\ Instant
          /\ ~torn

(* At the start the clock runs and the shadows are copied, or init() has   *)
(* given up; and nobody reads.                                             *)
LEMMA RtcInitInv == RtcInit => RtcInv
<1> SUFFICES ASSUME RtcInit PROVE RtcInv
  OBVIOUS
<1>1. /\ calendar = [time |-> LastTime, date |-> FirstDate]
      /\ frozen = FALSE /\ torn = FALSE
      /\ setting = [op |-> "none", pc |-> "idle", time |-> 0, date |-> FirstDate]
      /\ reader = [t \in Readers |-> [pc |-> "idle", time |-> 0, seen |-> {}]]
  BY DEF RtcInit, Nobody, Ready
<1>2. \/ phase = "free" /\ synced = TRUE /\ failed = FALSE /\ shadow = calendar
      \/ /\ phase = "asked" /\ synced = FALSE /\ failed = TRUE
         /\ shadow = [time |-> 0, date |-> [day |-> 1, month |-> 1, year |-> 0]]
  BY DEF RtcInit
<1>3. RtcShape
  <2>1. shadow = [time |-> shadow.time, date |-> shadow.date]
    BY <1>1, <1>2
  <2> QED
    BY <1>1, <2>1 DEF RtcShape
<1>4. RtcPlaces /\ Alone
  BY <1>1, <1>2 DEF RtcPlaces, Alone
<1>5. FrozenByReader /\ AtWork /\ ShadowsCopied /\ Instant
  BY <1>1, <1>2 DEF FrozenByReader, AtWork, ShadowsCopied, Instant
<1> QED
  BY <1>1, <1>3, <1>4, <1>5 DEF RtcInv

(* The calendar goes on: the shadow of the time with it, that of the date  *)
(* unless it waits; and every reading remembers the new instant.           *)
LEMMA TickInv == RtcInv /\ Tick => RtcInv'
<1> SUFFICES ASSUME RtcInv, Tick PROVE RtcInv'
  OBVIOUS
<1>1. /\ calendar' = Later(calendar) /\ reader' = Witnessed(calendar')
      /\ shadow' = IF ~synced THEN shadow
                   ELSE [time |-> calendar'.time,
                         date |-> IF frozen THEN shadow.date ELSE calendar'.date]
      /\ UNCHANGED <<running, phase, frozen, synced, setting, sets, torn, failed>>
  BY DEF Tick
<1> DEFINE shown == Shows(calendar')
<1>2. reader' = [t \in Readers |-> IF reader[t].seen = {} THEN reader[t]
                       ELSE [reader[t] EXCEPT !.seen = @ \union {shown}]]
  BY <1>1 DEF Witnessed
<1> HIDE DEF shown
<1>3. calendar' = [time |-> calendar'.time, date |-> calendar'.date]
  <2>1. \/ calendar' = [calendar EXCEPT !.time = calendar.time + 1]
        \/ calendar' = [time |-> 0, date |-> Tomorrow(calendar.date)]
    BY <1>1 DEF Later
  <2> QED
    BY <2>1 DEF RtcInv, RtcShape
<1>4. \A t \in Readers : reader[t] = [pc |-> reader[t].pc, time |-> reader[t].time,
                                     seen |-> reader[t].seen]
  BY DEF RtcInv, RtcShape
<1>5. ASSUME NEW t \in Readers
      PROVE  /\ reader'[t].pc = reader[t].pc /\ reader'[t].time = reader[t].time
             /\ reader[t].seen \subseteq reader'[t].seen
             /\ reader'[t].seen = {} <=> reader[t].seen = {}
             /\ reader'[t] = [pc |-> reader'[t].pc, time |-> reader'[t].time,
                             seen |-> reader'[t].seen]
  <2>1. CASE reader[t].seen = {}
    BY <2>1, <1>2, <1>4
  <2>2. CASE reader[t].seen # {}
    <3>1. reader'[t] = [reader[t] EXCEPT !.seen = @ \union {shown}]
      BY <2>2, <1>2
    <3>2. reader'[t] = [pc |-> reader[t].pc, time |-> reader[t].time,
                       seen |-> reader[t].seen \union {shown}]
      BY <3>1, <1>4
    <3> QED
      BY <3>2, <2>2
  <2> QED
    BY <2>1, <2>2
<1>6. RtcShape'
  <2>1. shadow' = [time |-> shadow'.time, date |-> shadow'.date]
    BY <1>1 DEF RtcInv, RtcShape
  <2>2. reader' = [t \in Readers |-> [pc |-> reader'[t].pc, time |-> reader'[t].time,
                                     seen |-> reader'[t].seen]]
    BY <1>2, <1>5
  <2>3. setting' = [op |-> setting'.op, pc |-> setting'.pc, time |-> setting'.time,
                   date |-> setting'.date]
    BY <1>1 DEF RtcInv, RtcShape
  <2> QED
    BY <1>3, <2>1, <2>2, <2>3 DEF RtcShape
<1>7. RtcPlaces'
  BY <1>1, <1>5 DEF RtcInv, RtcPlaces
<1>8. Alone'
  BY <1>1, <1>5 DEF RtcInv, Alone, Writing
<1>9. FrozenByReader' /\ AtWork'
  BY <1>1, <1>5 DEF RtcInv, FrozenByReader, AtWork, Writing
<1>10. ShadowsCopied'
  BY <1>1 DEF ShadowsCopied, Writing
<1>11. Instant'
  <2> SUFFICES ASSUME NEW t \in Readers, reader'[t].seen # {}, ~failed'
               PROVE  frozen' /\ Reads(t)' \in reader'[t].seen
    BY DEF Instant
  <2>1. reader[t].seen # {} /\ ~failed /\ frozen /\ Reads(t) \in reader[t].seen
    BY <1>1, <1>5 DEF RtcInv, Instant
  <2>2. shadow'.date = shadow.date
    BY <2>1, <1>1
  <2>3. Reads(t)' = Reads(t)
    BY <2>2, <1>5 DEF Reads
  <2> QED
    BY <2>1, <2>3, <1>1, <1>5
<1> QED
  BY <1>1, <1>6, <1>7, <1>8, <1>9, <1>10, <1>11 DEF RtcInv

(* What leaves the readers and the registers alone need only keep what     *)
(* depends on where the others are.                                        *)
LEMMA ReadersAlone ==
    ASSUME RtcInv, RtcShape', RtcPlaces', AtWork', ShadowsCopied', FrozenByReader',
           reader' = reader, torn' = torn, failed => failed', Writing' => Writing,
           frozen => frozen', shadow'.date = shadow.date
    PROVE  RtcInv'
<1>1. Alone'
  BY DEF RtcInv, Alone
<1>2. Instant'
  <2> SUFFICES ASSUME NEW t \in Readers, reader'[t].seen # {}, ~failed'
               PROVE  frozen' /\ Reads(t)' \in reader'[t].seen
    BY DEF Instant
  <2>1. frozen /\ Reads(t) \in reader[t].seen
    BY DEF RtcInv, Instant
  <2>2. Reads(t)' = Reads(t)
    BY DEF Reads
  <2> QED
    BY <2>1, <2>2
<1> QED
  BY <1>1, <1>2 DEF RtcInv

(* While set_time() is at work no reading remembers its instants.          *)
LEMMA NobodyReads ==
    ASSUME RtcInv, RtcShape', RtcPlaces', AtWork', ShadowsCopied', FrozenByReader',
           torn' = torn,
           \A t \in Readers : reader'[t].seen = {}
    PROVE  RtcInv'
<1>1. Alone' /\ Instant'
  BY DEF Alone, Instant
<1> QED
  BY <1>1 DEF RtcInv

(* The oscillator stops and starts without touching a register.           *)
LEMMA OscillatorInv == RtcInv /\ Oscillator => RtcInv'
<1> SUFFICES ASSUME RtcInv, Oscillator PROVE RtcInv'
  OBVIOUS
<1>1. UNCHANGED <<calendar, phase, shadow, frozen, synced, reader, setting, torn, failed>>
  BY DEF Oscillator
<1>2. RtcShape' /\ RtcPlaces' /\ AtWork' /\ ShadowsCopied' /\ FrozenByReader'
  BY <1>1 DEF RtcInv, RtcShape, RtcPlaces, AtWork, ShadowsCopied, FrozenByReader, Writing
<1> QED
  BY <1>1, <1>2, ReadersAlone DEF Writing

(* The initialisation mode is only entered when it was asked for.          *)
LEMMA EnterInitInv == RtcInv /\ EnterInit => RtcInv'
<1> SUFFICES ASSUME RtcInv, EnterInit PROVE RtcInv'
  OBVIOUS
<1>1. /\ phase = "asked" /\ phase' = "init" /\ synced' = FALSE
      /\ UNCHANGED <<calendar, shadow, frozen, reader, setting, torn, failed>>
  BY DEF EnterInit
<1>2. RtcShape' /\ RtcPlaces' /\ ShadowsCopied' /\ FrozenByReader'
  BY <1>1 DEF RtcInv, RtcShape, RtcPlaces, ShadowsCopied, FrozenByReader
<1>3. AtWork'
  BY <1>1 DEF RtcInv, AtWork, Writing
<1> QED
  BY <1>1, <1>2, <1>3, ReadersAlone DEF Writing

(* The readings are disturbed and keep the rest.                           *)
LEMMA DisturbedShape ==
    ASSUME RtcInv
    PROVE  \A t \in Readers :
              /\ Disturbing[t] = [pc |-> reader[t].pc, time |-> reader[t].time, seen |-> {}]
              /\ Disturbing[t].pc = reader[t].pc /\ Disturbing[t].time = reader[t].time
              /\ Disturbing[t].seen = {}
<1> SUFFICES ASSUME NEW t \in Readers
             PROVE  Disturbing[t] = [pc |-> reader[t].pc, time |-> reader[t].time, seen |-> {}]
  OBVIOUS
<1>1. reader[t] = [pc |-> reader[t].pc, time |-> reader[t].time, seen |-> reader[t].seen]
  BY DEF RtcInv, RtcShape
<1> QED
  BY <1>1 DEF Disturbing

(* The shadows are copied, which only happens while set_time() works or    *)
(* after it or init() gave up: nobody reads what it remembers.             *)
LEMMA CopyShadowsInv == RtcInv /\ CopyShadows => RtcInv'
<1> SUFFICES ASSUME RtcInv, CopyShadows PROVE RtcInv'
  OBVIOUS
<1>1. /\ phase # "init" /\ ~synced /\ synced' = TRUE
      /\ shadow' = [time |-> calendar.time,
                    date |-> IF frozen THEN shadow.date ELSE calendar.date]
      /\ reader' = (IF failed THEN Disturbing ELSE reader)
      /\ failed' = (failed /\ phase # "free")
      /\ UNCHANGED <<calendar, phase, frozen, setting, torn>>
  BY DEF CopyShadows
<1>2. \A t \in Readers : reader'[t].seen = {} /\ reader'[t].pc = reader[t].pc
  <2>1. CASE failed
    BY <2>1, <1>1, DisturbedShape
  <2>2. CASE ~failed
    <3>1. Writing
      BY <2>2, <1>1 DEF RtcInv, AtWork
    <3> QED
      BY <2>2, <3>1, <1>1 DEF RtcInv, Alone
  <2> QED
    BY <2>1, <2>2
<1>3. RtcShape'
  <2>1. reader' = [t \in Readers |-> [pc |-> reader'[t].pc, time |-> reader'[t].time,
                                     seen |-> reader'[t].seen]]
    <3>1. CASE failed
      <4>1. Disturbing = [t \in Readers |-> Disturbing[t]]
        BY DEF Disturbing
      <4> QED
        BY <3>1, <4>1, <1>1, DisturbedShape
    <3>2. CASE ~failed
      BY <3>2, <1>1 DEF RtcInv, RtcShape
    <3> QED
      BY <3>1, <3>2
  <2>2. /\ calendar' = [time |-> calendar'.time, date |-> calendar'.date]
        /\ shadow' = [time |-> shadow'.time, date |-> shadow'.date]
        /\ setting' = [op |-> setting'.op, pc |-> setting'.pc, time |-> setting'.time,
                       date |-> setting'.date]
    BY <1>1 DEF RtcInv, RtcShape
  <2> QED
    BY <2>1, <2>2 DEF RtcShape
<1>4. RtcPlaces'
  BY <1>1, <1>2 DEF RtcInv, RtcPlaces
<1>5. AtWork' /\ FrozenByReader'
  BY <1>1, <1>2 DEF RtcInv, AtWork, FrozenByReader, Writing
<1>6. ShadowsCopied'
  BY <1>1 DEF ShadowsCopied
<1> QED
  BY <1>1, <1>2, <1>3, <1>4, <1>5, <1>6, NobodyReads DEF RtcInv

(* Reading the time: the date waits; others between the registers are      *)
(* disturbed; and if nobody is, the time is that of the calendar, and so   *)
(* is the date that waits.                                                 *)
LEMMA ReadTimeInv ==
    ASSUME RtcInv, NEW t \in Readers, ReadTime(t), RtcShape',
           setting'.pc = setting.pc \/ (setting.pc = "idle" /\ setting'.pc = "read")
    PROVE  RtcInv'
<1>1. /\ reader[t].pc = "idle" /\ frozen' = TRUE
      /\ UNCHANGED <<calendar, phase, shadow, synced, torn, failed>>
  BY DEF ReadTime
<1>2. Writing' = Writing
  BY DEF Writing
<1> DEFINE mine == IF Met(t) \/ Writing THEN {} ELSE {Shows(calendar)}
           others == [u \in Readers |-> [reader[u] EXCEPT !.seen = {}]]
<1>3. reader' = [others EXCEPT ![t] = [pc |-> "date", time |-> shadow.time, seen |-> mine]]
  BY DEF ReadTime, Disturbing
<1> HIDE DEF mine
<1>4. reader'[t] = [pc |-> "date", time |-> shadow.time, seen |-> mine]
  BY <1>3
<1>5. ASSUME NEW u \in Readers \ {t}
      PROVE  reader'[u].pc = reader[u].pc /\ reader'[u].seen = {}
  <2>1. reader[u] = [pc |-> reader[u].pc, time |-> reader[u].time, seen |-> reader[u].seen]
    BY DEF RtcInv, RtcShape
  <2>2. reader'[u] = [reader[u] EXCEPT !.seen = {}]
    BY <1>3
  <2> QED
    BY <2>1, <2>2
<1>6. RtcPlaces'
  BY <1>1, <1>4, <1>5 DEF RtcInv, RtcPlaces
<1>7. Alone'
  <2> SUFFICES ASSUME NEW u \in Readers, reader'[u].seen # {}
               PROVE  /\ reader'[u].pc = "date" /\ ~Writing'
                      /\ \A v \in Readers \ {u} : reader'[v].pc = "idle"
    BY DEF Alone
  <2>1. u = t
    BY <1>5
  <2>2. ~Met(t) /\ ~Writing
    BY <2>1, <1>4 DEF mine
  <2>3. \A v \in Readers \ {t} : reader'[v].pc = "idle"
    BY <2>2, <1>5 DEF Met
  <2> QED
    BY <2>1, <2>2, <2>3, <1>2, <1>4
<1>8. FrozenByReader'
  BY <1>4 DEF FrozenByReader
<1>9. AtWork' /\ ShadowsCopied'
  BY <1>1, <1>2 DEF RtcInv, AtWork, ShadowsCopied, Writing
<1>10. Instant'
  <2> SUFFICES ASSUME NEW u \in Readers, reader'[u].seen # {}, ~failed'
               PROVE  frozen' /\ Reads(u)' \in reader'[u].seen
    BY DEF Instant
  <2>1. u = t
    BY <1>5
  <2>2. ~Met(t) /\ ~Writing /\ mine = {Shows(calendar)} /\ ~failed
    BY <2>1, <1>1, <1>4 DEF mine
  <2>3. \A v \in Readers : reader[v].pc # "date"
    BY <2>2, <1>1 DEF Met
  <2>4. ~frozen
    BY <2>2, <2>3 DEF RtcInv, FrozenByReader, Writing
  <2>5. shadow.time = calendar.time /\ shadow.date = calendar.date
    BY <2>2, <2>4 DEF RtcInv, AtWork, ShadowsCopied
  <2>6. Reads(t)' = [time |-> shadow.time, date |-> Shown(shadow.date)]
    BY <1>1, <1>4 DEF Reads, Shown
  <2>7. Reads(t)' = Shows(calendar)
    BY <2>5, <2>6 DEF Shows
  <2> QED
    BY <2>1, <2>2, <2>7, <1>1, <1>4
<1> QED
  BY <1>1, <1>6, <1>7, <1>8, <1>9, <1>10 DEF RtcInv

(* Reading the date: it no longer waits, and what was read is an instant   *)
(* the reading remembers.                                                  *)
LEMMA ReadDateInv ==
    ASSUME RtcInv, NEW t \in Readers, ReadDate(t), RtcShape', RtcPlaces',
           setting' = setting \/ (setting.pc = "read" /\ setting'.pc = "enable")
    PROVE  RtcInv'
<1>1. /\ reader[t].pc = "date" /\ frozen' = FALSE /\ shadow' = Thawed
      /\ torn' = (torn \/ /\ reader[t].seen # {} /\ ~failed
                          /\ Reads(t) \notin reader[t].seen)
      /\ reader' = [reader EXCEPT ![t] = Ready]
      /\ UNCHANGED <<calendar, phase, synced, failed>>
  BY DEF ReadDate, Reads
<1>2. ~torn'
  BY <1>1 DEF RtcInv, Instant
<1>3. \A u \in Readers : reader'[u].seen = {}
  <2>1. reader'[t].seen = {}
    BY <1>1 DEF Ready, RtcInv, RtcShape
  <2>2. \A u \in Readers \ {t} : reader'[u] = reader[u]
    BY <1>1
  <2>3. \A u \in Readers \ {t} : reader[u].seen = {}
    BY <1>1 DEF RtcInv, Alone
  <2> QED
    BY <2>1, <2>2, <2>3
<1>4. Alone' /\ Instant'
  BY <1>3 DEF Alone, Instant
<1>5. FrozenByReader'
  BY <1>1 DEF FrozenByReader
<1>6. Writing => Writing'
  BY DEF Writing
<1>7. AtWork'
  BY <1>1, <1>6 DEF RtcInv, AtWork, Writing
<1>8. ShadowsCopied'
  <2>1. shadow'.time = shadow.time /\ (synced => shadow'.date = calendar.date)
    BY <1>1 DEF Thawed, RtcInv, RtcShape
  <2> QED
    BY <2>1, <1>1, <1>6 DEF RtcInv, ShadowsCopied, Writing
<1> QED
  BY <1>2, <1>4, <1>5, <1>7, <1>8 DEF RtcInv
(* Reading the registers keeps the state in shape. *)
LEMMA ReadShape ==
    ASSUME RtcInv, NEW t \in Readers, ReadTime(t) \/ ReadDate(t),
           setting' = [op |-> setting'.op, pc |-> setting'.pc, time |-> setting'.time,
                       date |-> setting'.date]
    PROVE  RtcShape'
<1>1. calendar' = calendar
  BY DEF ReadTime, ReadDate
<1>2. shadow' = [time |-> shadow'.time, date |-> shadow'.date]
  BY DEF ReadTime, ReadDate, Thawed, RtcInv, RtcShape
<1>3. \A u \in Readers : reader[u] = [pc |-> reader[u].pc, time |-> reader[u].time,
                                     seen |-> reader[u].seen]
  BY DEF RtcInv, RtcShape
<1>4. reader' = [u \in Readers |-> [pc |-> reader'[u].pc, time |-> reader'[u].time,
                                   seen |-> reader'[u].seen]]
  <2>1. CASE ReadTime(t)
    <3> DEFINE mine == IF Met(t) \/ Writing THEN {} ELSE {Shows(calendar)}
               others == [u \in Readers |-> [reader[u] EXCEPT !.seen = {}]]
    <3>1. reader' = [others EXCEPT ![t] = [pc |-> "date", time |-> shadow.time, seen |-> mine]]
      BY <2>1 DEF ReadTime, Disturbing
    <3> HIDE DEF mine
    <3>2. \A u \in Readers :
             reader'[u] = IF u = t THEN [pc |-> "date", time |-> shadow.time, seen |-> mine]
                          ELSE [pc |-> reader[u].pc, time |-> reader[u].time, seen |-> {}]
      <4>1. \A u \in Readers : others[u] = [reader[u] EXCEPT !.seen = {}]
        OBVIOUS
      <4>2. ASSUME NEW u \in Readers
            PROVE  others[u] = [pc |-> reader[u].pc, time |-> reader[u].time, seen |-> {}]
        <5> HIDE DEF others
        <5>1. reader[u] = [pc |-> reader[u].pc, time |-> reader[u].time, seen |-> reader[u].seen]
          BY <1>3
        <5> QED
          BY <4>1, <5>1
      <4> QED
        BY <3>1, <4>2
    <3>3. reader' = [u \in Readers |-> reader'[u]]
      <4> HIDE DEF others
      <4>1. others = [u \in Readers |-> others[u]]
        BY DEF others
      <4> QED
        BY <3>1, <4>1
    <3> QED
      BY <3>2, <3>3
  <2>2. CASE ReadDate(t)
    <3>1. reader' = [reader EXCEPT ![t] = [pc |-> "idle", time |-> 0, seen |-> {}]]
      BY <2>2 DEF ReadDate, Ready
    <3>2. reader = [u \in Readers |-> reader[u]]
      BY DEF RtcInv, RtcShape
    <3> QED
      BY <3>1, <3>2, <1>3
  <2> QED
    BY <2>1, <2>2
<1> QED
  BY <1>1, <1>2, <1>4 DEF RtcInv, RtcShape

(* A step of a reading task.                                               *)
LEMMA ReadingInv == ASSUME RtcInv, NEW t \in Readers, Reading(t) PROVE RtcInv'
<1>1. setting' = setting
  BY DEF Reading
<1>2. RtcShape'
  BY <1>1, ReadShape DEF Reading, RtcInv, RtcShape
<1>3. CASE ReadTime(t)
  BY <1>1, <1>2, <1>3, ReadTimeInv
<1>4. CASE ReadDate(t)
  <2>1. \A u \in Readers : reader'[u].pc \in {"idle", "date"}
    BY <1>4 DEF ReadDate, Ready, RtcInv, RtcPlaces
  <2>2. RtcPlaces'
    BY <1>1, <1>4, <2>1 DEF ReadDate, RtcInv, RtcPlaces
  <2> QED
    BY <1>1, <1>2, <1>4, <2>2, ReadDateInv
<1> QED
  BY <1>3, <1>4 DEF Reading

(* The commands of the shell that set the clock read it first.             *)
LEMMA SetCommandInv == RtcInv /\ SetCommand => RtcInv'
<1> SUFFICES ASSUME RtcInv, SetCommand PROVE RtcInv'
  OBVIOUS
<1>1. setting.pc = "idle" /\ ReadTime("shell") /\ "shell" \in Readers
  BY RtcAssumption DEF SetCommand
<1>2. /\ setting' = [op |-> setting'.op, pc |-> setting'.pc, time |-> setting'.time,
                     date |-> setting'.date]
      /\ setting'.pc = "read"
  <2>1. \/ \E n \in SetTimes :
             setting' = [Nobody EXCEPT !.op = "set-time", !.pc = "read", !.time = n]
        \/ \E d \in SetDates :
             setting' = [Nobody EXCEPT !.op = "set-date", !.pc = "read", !.date = d]
    BY DEF SetCommand
  <2> QED
    BY <2>1 DEF Nobody
<1>3. RtcShape'
  BY <1>1, <1>2, ReadShape
<1> QED
  BY <1>1, <1>2, <1>3, ReadTimeInv

(* rtc-set-time and rtc-set-date finish reading before they write.         *)
LEMMA SetReadInv == RtcInv /\ SetRead => RtcInv'
<1> SUFFICES ASSUME RtcInv, SetRead PROVE RtcInv'
  OBVIOUS
<1>1. setting.pc = "read" /\ ReadDate("shell") /\ "shell" \in Readers
  BY RtcAssumption DEF SetRead
<1>2. /\ setting' = [op |-> setting'.op, pc |-> setting'.pc, time |-> setting'.time,
                     date |-> setting'.date]
      /\ setting'.pc = "enable"
  <2>1. \/ setting' = [setting EXCEPT !.pc = "enable", !.time = reader["shell"].time]
        \/ setting' = [setting EXCEPT !.pc = "enable",
                                      !.date = [Shown(shadow.date) EXCEPT !.year = YearRead(@)]]
    BY DEF SetRead
  <2> QED
    BY <2>1 DEF RtcInv, RtcShape
<1>3. RtcShape'
  BY <1>1, <1>2, ReadShape
<1>4. RtcPlaces'
  <2>1. /\ reader' = [reader EXCEPT !["shell"] = [pc |-> "idle", time |-> 0, seen |-> {}]]
        /\ frozen' = FALSE /\ UNCHANGED <<phase, synced, failed>>
    BY <1>1 DEF ReadDate, Ready
  <2>2. \A t \in Readers : reader'[t].pc \in {"idle", "date"}
    BY <2>1 DEF RtcInv, RtcPlaces, RtcShape
  <2> QED
    BY <1>2, <2>1, <2>2 DEF RtcInv, RtcPlaces
<1> QED
  BY <1>1, <1>2, <1>3, <1>4, ReadDateInv

(* Setting the clock disturbs every reading under way.                     *)
LEMMA EnableInitInv == RtcInv /\ EnableInit => RtcInv'
<1> SUFFICES ASSUME RtcInv, EnableInit PROVE RtcInv'
  OBVIOUS
<1>1. /\ setting.pc = "enable"
      /\ \/ phase = "init" /\ setting' = [setting EXCEPT !.pc = "time"] /\ phase' = phase
         \/ phase # "init" /\ setting' = [setting EXCEPT !.pc = "wait"] /\ phase' = "asked"
      /\ reader' = [u \in Readers |-> [reader[u] EXCEPT !.seen = {}]]
      /\ UNCHANGED <<calendar, shadow, frozen, synced, torn, failed>>
  BY DEF EnableInit, SetGoes, Disturbing
<1>2. \A u \in Readers : reader'[u] = [pc |-> reader[u].pc, time |-> reader[u].time, seen |-> {}]
  <2> SUFFICES ASSUME NEW u \in Readers
               PROVE  reader'[u] = [pc |-> reader[u].pc, time |-> reader[u].time, seen |-> {}]
    OBVIOUS
  <2>1. reader[u] = [pc |-> reader[u].pc, time |-> reader[u].time, seen |-> reader[u].seen]
    BY DEF RtcInv, RtcShape
  <2>2. reader'[u] = [reader[u] EXCEPT !.seen = {}]
    BY <1>1
  <2> QED
    BY <2>1, <2>2
<1>3. RtcShape'
  <2>1. reader' = [u \in Readers |-> [pc |-> reader'[u].pc, time |-> reader'[u].time,
                                     seen |-> reader'[u].seen]]
    BY <1>1, <1>2
  <2>2. setting' = [op |-> setting'.op, pc |-> setting'.pc, time |-> setting'.time,
                   date |-> setting'.date]
    BY <1>1 DEF RtcInv, RtcShape
  <2> QED
    BY <2>1, <2>2, <1>1 DEF RtcInv, RtcShape
<1>4. setting'.pc \in {"time", "wait"} /\ Writing'
  BY <1>1 DEF Writing, RtcInv, RtcShape
<1>5. RtcPlaces'
  <2>1. ASSUME NEW u \in Readers PROVE reader'[u].pc \in {"idle", "date"}
    <3> DEFINE old == reader[u]
               new == reader'[u]
    <3>0. new = [pc |-> old.pc, time |-> old.time, seen |-> {}]
      BY <1>2
    <3>1. reader'[u].pc = reader[u].pc
      <4> HIDE DEF old, new
      <4>1. new.pc = old.pc
        BY <3>0
      <4> QED
        BY <4>1 DEF old, new
    <3> QED
      BY <3>1 DEF RtcInv, RtcPlaces
  <2>2. phase' \in {"free", "asked", "init"}
    BY <1>1
  <2> QED
    BY <1>1, <1>4, <2>1, <2>2 DEF RtcInv, RtcPlaces
<1>6. AtWork' /\ ShadowsCopied'
  BY <1>4 DEF AtWork, ShadowsCopied
<1>7. FrozenByReader'
  BY <1>1, <1>2 DEF RtcInv, FrozenByReader
<1> QED
  BY <1>1, <1>2, <1>3, <1>5, <1>6, <1>7, NobodyReads

(* A set_time() that gives up lets go of everything it has claimed.        *)
LEMMA GiveUpInv == RtcInv /\ GiveUp => RtcInv'
<1> SUFFICES ASSUME RtcInv, GiveUp PROVE RtcInv'
  OBVIOUS
<1>1. /\ setting.pc \in {"wait", "sync"} /\ failed' = TRUE
      /\ setting' = [op |-> "none", pc |-> "idle", time |-> 0, date |-> FirstDate]
      /\ UNCHANGED <<calendar, phase, shadow, frozen, synced, reader, torn>>
  BY DEF GiveUp, Nobody
<1>2. RtcShape' /\ RtcPlaces' /\ AtWork' /\ ShadowsCopied' /\ FrozenByReader'
  BY <1>1 DEF RtcInv, RtcShape, RtcPlaces, AtWork, ShadowsCopied, FrozenByReader, Writing
<1>3. \A t \in Readers : reader'[t].seen = {}
  BY <1>1 DEF RtcInv, Alone, Writing
<1> QED
  BY <1>1, <1>2, <1>3, NobodyReads

(* The registers are written while nobody's instants are remembered.       *)
LEMMA WritesInv ==
    ASSUME RtcInv, InitEnabled \/ WriteTime \/ WriteDate \/ LeaveInit \/ Invalidate
    PROVE  RtcInv'
<1>1. /\ UNCHANGED <<reader, torn, failed, shadow>>
      /\ setting.pc \in {"wait", "time", "date", "leave", "invalidate"}
      /\ setting' = [setting EXCEPT !.pc = setting'.pc]
  BY DEF InitEnabled, WriteTime, WriteDate, LeaveInit, Invalidate, SetOnly, SetGoes, RtcInv, RtcShape
<1>2. /\ setting.pc = "wait" => setting'.pc = "time"
      /\ setting.pc = "time" => setting'.pc = "date"
      /\ setting.pc = "date" => setting'.pc = "leave"
      /\ setting.pc = "leave" => setting'.pc = "invalidate" /\ phase' = "free"
      /\ setting.pc = "invalidate" => setting'.pc = "sync" /\ phase' = phase /\ synced' = FALSE
  BY DEF InitEnabled, WriteTime, WriteDate, LeaveInit, Invalidate, SetGoes, RtcInv, RtcShape
<1>3. /\ setting.pc # "leave" => phase' = phase
      /\ setting.pc # "invalidate" => synced' = synced
      /\ setting.pc = "time" => frozen' = TRUE
      /\ setting.pc = "date" => frozen' = FALSE
      /\ setting.pc \notin {"time", "date"} => frozen' = frozen
  BY DEF InitEnabled, WriteTime, WriteDate, LeaveInit, Invalidate
<1>4. RtcShape'
  <2>1. calendar' = [time |-> calendar'.time, date |-> calendar'.date]
    BY DEF InitEnabled, WriteTime, WriteDate, LeaveInit, Invalidate, RtcInv, RtcShape
  <2> QED
    BY <2>1, <1>1 DEF RtcInv, RtcShape
<1>5. RtcPlaces'
  BY <1>1, <1>2, <1>3 DEF RtcInv, RtcPlaces
<1>6. AtWork' /\ ShadowsCopied'
  BY <1>1, <1>2, <1>3 DEF RtcInv, AtWork, ShadowsCopied, Writing
<1>7. FrozenByReader'
  BY <1>1, <1>2, <1>3 DEF RtcInv, FrozenByReader
<1>8. \A t \in Readers : reader'[t].seen = {}
  BY <1>1 DEF RtcInv, Alone, Writing
<1> QED
  BY <1>1, <1>4, <1>5, <1>6, <1>7, <1>8, NobodyReads

(* set_time() returns when the shadows have been copied: from here on, a   *)
(* reading finds the calendar in them.                                     *)
LEMMA SynchronisedInv == RtcInv /\ Synchronised => RtcInv'
<1> SUFFICES ASSUME RtcInv, Synchronised PROVE RtcInv'
  OBVIOUS
<1>1. /\ setting.pc = "sync" /\ synced
      /\ setting' = [op |-> "none", pc |-> "idle", time |-> 0, date |-> FirstDate]
      /\ UNCHANGED <<reader, torn, failed, calendar, phase, shadow, frozen, synced>>
  BY DEF Synchronised, SetOnly, Nobody
<1>2. RtcShape' /\ RtcPlaces' /\ AtWork' /\ ShadowsCopied' /\ FrozenByReader'
  BY <1>1 DEF RtcInv, RtcShape, RtcPlaces, AtWork, ShadowsCopied, FrozenByReader, Writing
<1>3. \A t \in Readers : reader'[t].seen = {}
  BY <1>1 DEF RtcInv, Alone, Writing
<1> QED
  BY <1>1, <1>2, <1>3, NobodyReads

(* Every step of the clock and of the tasks that read and set it.          *)
LEMMA RtcStep == RtcInv /\ [RtcNext]_rtcVars => RtcInv'
<1> SUFFICES ASSUME RtcInv, [RtcNext]_rtcVars PROVE RtcInv'
  OBVIOUS
<1>1. CASE Tick
  BY <1>1, TickInv
<1>2. CASE Oscillator
  BY <1>2, OscillatorInv
<1>3. CASE EnterInit
  BY <1>3, EnterInitInv
<1>4. CASE CopyShadows
  BY <1>4, CopyShadowsInv
<1>5. CASE \E t \in Readers : Reading(t)
  BY <1>5, ReadingInv
<1>6. CASE SetTime
  BY <1>6, SetCommandInv, SetReadInv, EnableInitInv, GiveUpInv, WritesInv, SynchronisedInv DEF SetTime
<1>7. CASE UNCHANGED rtcVars
  <2>1. UNCHANGED <<calendar, phase, shadow, frozen, synced, reader, setting, torn, failed>>
    BY <1>7 DEF rtcVars
  <2>2. RtcShape' /\ RtcPlaces' /\ AtWork' /\ ShadowsCopied' /\ FrozenByReader'
    BY <2>1 DEF RtcInv, RtcShape, RtcPlaces, AtWork, ShadowsCopied, FrozenByReader, Writing
  <2> QED
    BY <2>1, <2>2, ReadersAlone DEF Writing
<1> QED
  BY <1>1, <1>2, <1>3, <1>4, <1>5, <1>6, <1>7 DEF RtcNext

(* The registers: a day, five bits of a month, two digits of a year; what  *)
(* set_time() is given.                                                    *)
Years     == 0..99
Registers == [day : 1..31, month : 0..19, year : Years]
YearsSet  == 0..2099
DatesSet  == [day : 1..31, month : 0..19, year : YearsSet]

(* What the calendar counts, the registers show, get_time() returns and    *)
(* the commands for the clock carry about.                                 *)
Counts == running \in BOOLEAN /\ torn \in BOOLEAN /\ ticks \in 0..MaxTicks /\ sets \in 0..MaxSet
CalendarHolds == calendar.time \in 0..LastTime /\ calendar.date \in Registers
ShadowHolds == shadow.time \in 0..LastTime /\ shadow.date \in Registers
ReadersHold == \A t \in Readers : reader[t].time \in 0..LastTime
SettingHolds == /\ setting.time \in 0..LastTime
                /\ setting.date \in DatesSet
RtcHolds == Counts /\ CalendarHolds /\ ShadowHolds /\ ReadersHold /\ SettingHolds

(* The year is written one digit to the tens.                              *)
LEMMA YearHolds == ASSUME NEW y \in YearsSet PROVE TensWritten(y) \in 0..9
<1>1. PICK b : b = Byte(y + 2048 - 2000)
  OBVIOUS
<1>2. b \in 0..255
  BY <1>1 DEF Byte, YearsSet
<1>3. b % 10 \in 0..9
  BY <1>2
<1> QED
  BY <1>1, <1>3 DEF TensWritten

(* A date written over another fits the registers, *)
LEMMA MergedHolds ==
    ASSUME NEW r \in Registers, NEW tm \in DatesSet
    PROVE  Merged(r, tm) \in Registers
<1>1. tm.day \in 1..31 /\ (10 * TensWritten(tm.year)) + (r.year % 10) \in Years
  <2>1. tm.day \in 1..31 /\ tm.year \in YearsSet /\ r.year \in 0..99
    BY DEF DatesSet, Registers, Years
  <2>2. PICK tens : tens = TensWritten(tm.year)
    OBVIOUS
  <2>3. tens \in 0..9 /\ r.year % 10 \in 0..9
    BY <2>1, <2>2, YearHolds
  <2>4. (10 * tens) + (r.year % 10) \in 0..99
    BY <2>3
  <2> QED
    BY <2>1, <2>2, <2>4 DEF Years
<1>2. (10 * (r.month \div 10)) + (tm.month % 10) \in 0..19
  <2>1. r.month \in 0..19 /\ tm.month \in 0..19
    BY DEF Registers, DatesSet
  <2>2. r.month \div 10 \in 0..1 /\ tm.month % 10 \in 0..9
    BY <2>1
  <2> QED
    BY <2>2
<1> QED
  BY <1>1, <1>2 DEF Merged, Registers

(* and so does the next day, and what is shown of a date. *)
LEMMA LaterHolds ==
    ASSUME NEW c, c.time \in 0..LastTime, c.date \in Registers
    PROVE  Later(c).time \in 0..LastTime /\ Later(c).date \in Registers
<1>1. c.time \in Int /\ LastTime \in Nat /\ LastTime > 0
  BY RtcAssumption
<1>2. PICK d : d = c.date
  OBVIOUS
<1>3. d.day \in 1..31 /\ d.month \in 0..19 /\ d.year \in Years /\ d \in Registers
  BY <1>2 DEF Registers
<1>4. Tomorrow(d) \in Registers
  <2>1. CASE d.day < DaysOf(d)
    <3>1. DaysOf(d) \in 1..31
      BY DEF DaysOf
    <3>2. d.day + 1 \in 1..31
      BY <1>3, <2>1, <3>1
    <3>3. Tomorrow(d) = [d EXCEPT !.day = d.day + 1]
      BY <2>1 DEF Tomorrow
    <3> HIDE DEF Registers
    <3> QED
      BY <1>3, <3>2, <3>3 DEF Registers
  <2>2. CASE ~(d.day < DaysOf(d))
    <3>1. (d.month + 1) % 20 \in 0..19 /\ (d.year + 1) % 100 \in Years
      BY <1>3 DEF Years
    <3>2. Tomorrow(d) = IF d.month = 12 THEN [day |-> 1, month |-> 1, year |-> (d.year + 1) % 100]
                        ELSE [day |-> 1, month |-> (d.month + 1) % 20, year |-> d.year]
      BY <2>2 DEF Tomorrow
    <3> QED
      BY <1>3, <3>1, <3>2 DEF Registers
  <2> QED
    BY <2>1, <2>2
<1>5. CASE c.time < LastTime
  <2>1. Later(c) = [c EXCEPT !.time = c.time + 1]
    BY <1>5 DEF Later
  <2>2. c.time + 1 \in 0..LastTime
    BY <1>1, <1>5
  <2>3. Later(c).time = c.time + 1 /\ Later(c).date = c.date
    BY <2>1
  <2> QED
    BY <2>2, <2>3
<1>6. CASE ~(c.time < LastTime)
  <2>1. Later(c) = [time |-> 0, date |-> Tomorrow(d)]
    BY <1>2, <1>6 DEF Later
  <2> QED
    BY <1>1, <1>4, <2>1
<1> QED
  BY <1>5, <1>6

(* The clock starts with a time and a date. *)
LEMMA RtcInitHolds == RtcInit => RtcHolds
<1> SUFFICES ASSUME RtcInit PROVE RtcHolds
  OBVIOUS
<1>1. /\ LastTime \in Nat /\ MaxTicks \in Nat /\ MaxSet \in Nat
      /\ FirstDate \in [day : 1..31, month : 1..12, year : 0..99]
  BY RtcAssumption, DatesAssumption
<1>2. FirstDate \in Registers /\ FirstDate \in DatesSet
  BY <1>1 DEF Registers, DatesSet, Years, YearsSet
<1>3. /\ calendar.time = LastTime /\ calendar.date = FirstDate
      /\ \/ shadow = calendar
         \/ shadow = [time |-> 0, date |-> [day |-> 1, month |-> 1, year |-> 0]]
  BY DEF RtcInit
<1>4. CalendarHolds /\ ShadowHolds
  <2>1. [day |-> 1, month |-> 1, year |-> 0] \in Registers
    BY DEF Registers, Years
  <2> QED
    BY <1>1, <1>2, <1>3, <2>1 DEF CalendarHolds, ShadowHolds
<1>5. ReadersHold
  BY <1>1 DEF RtcInit, ReadersHold, Ready
<1>6. SettingHolds
  BY <1>1, <1>2 DEF RtcInit, SettingHolds, Nobody
<1>7. Counts
  <2>1. running \in BOOLEAN /\ torn = FALSE /\ ticks = 0 /\ sets = 0
    BY Zenon DEF RtcInit
  <2>2. ticks \in 0..MaxTicks /\ sets \in 0..MaxSet
    BY <1>1, <2>1
  <2> QED
    BY <2>1, <2>2, Zenon DEF Counts
<1> QED
  BY <1>4, <1>5, <1>6, <1>7 DEF RtcHolds

(* The calendar moves on. *)
LEMMA TickHolds == RtcInv /\ RtcHolds /\ Tick => RtcHolds'
<1> SUFFICES ASSUME RtcInv, RtcHolds, Tick PROVE RtcHolds'
  OBVIOUS
<1>1. /\ running' = running /\ sets' = sets /\ setting' = setting
      /\ ticks' = ticks + 1 /\ ticks < MaxTicks /\ torn' = torn
      /\ calendar' = Later(calendar) /\ reader' = Witnessed(calendar')
      /\ shadow' = IF ~synced THEN shadow
                   ELSE [time |-> calendar'.time,
                         date |-> IF frozen THEN shadow.date ELSE calendar'.date]
  BY DEF Tick
<1>2. Counts'
  BY <1>1, RtcAssumption DEF RtcHolds, Counts
<1>3. CalendarHolds'
  BY <1>1, LaterHolds DEF RtcHolds, CalendarHolds
<1>4. ShadowHolds'
  BY <1>1, <1>3 DEF RtcHolds, ShadowHolds, CalendarHolds
<1>5. ReadersHold'
  <2> SUFFICES ASSUME NEW t \in Readers PROVE reader'[t].time \in 0..LastTime
    BY DEF ReadersHold
  <2>1. PICK c : c = Shows(calendar')
    OBVIOUS
  <2>2. reader'[t] = IF reader[t].seen = {} THEN reader[t] ELSE [reader[t] EXCEPT !.seen = @ \union {c}]
    BY <1>1, <2>1 DEF Witnessed
  <2>3. reader'[t].time = reader[t].time
    BY <2>2
  <2> QED
    BY <2>3 DEF RtcHolds, ReadersHold
<1>6. SettingHolds'
  BY <1>1 DEF RtcHolds, SettingHolds
<1> QED
  BY <1>2, <1>3, <1>4, <1>5, <1>6 DEF RtcHolds

(* A task reads a register. *)
LEMMA ReadHolds ==
    ASSUME RtcInv, RtcHolds, NEW t \in Readers, ReadTime(t) \/ ReadDate(t)
    PROVE  /\ CalendarHolds' /\ ShadowHolds' /\ ReadersHold'
           /\ running' = running /\ ticks' = ticks /\ torn' \in BOOLEAN
<1>1. calendar' = calendar /\ running' = running /\ ticks' = ticks
  BY DEF ReadTime, ReadDate
<1>5. torn' \in BOOLEAN
  BY DEF ReadTime, ReadDate, RtcHolds, Counts
<1>2. CalendarHolds'
  BY <1>1 DEF RtcHolds, CalendarHolds
<1>3. ShadowHolds'
  <2>1. shadow' = shadow \/ shadow' = [shadow EXCEPT !.date = IF synced THEN calendar.date ELSE shadow.date]
    BY DEF ReadTime, ReadDate, Thawed
  <2>2. shadow = [time |-> shadow.time, date |-> shadow.date]
    BY DEF RtcInv, RtcShape
  <2>3. shadow'.time = shadow.time /\ (shadow'.date = shadow.date \/ shadow'.date = calendar.date)
    BY <2>1, <2>2
  <2> QED
    BY <2>3 DEF RtcHolds, ShadowHolds, CalendarHolds
<1>4. ReadersHold'
  <2> SUFFICES ASSUME NEW u \in Readers PROVE reader'[u].time \in 0..LastTime
    BY DEF ReadersHold
  <2>1. /\ DOMAIN reader = Readers
        /\ reader[u] = [pc |-> reader[u].pc, time |-> reader[u].time, seen |-> reader[u].seen]
    BY DEF RtcInv, RtcShape
  <2>2. reader[u].time \in 0..LastTime /\ shadow.time \in 0..LastTime /\ 0 \in 0..LastTime
    BY RtcAssumption DEF RtcHolds, ReadersHold, ShadowHolds
  <2>3. CASE ReadTime(t)
    <3>1. PICK s : reader' = [Disturbing EXCEPT ![t] = [pc |-> "date", time |-> shadow.time, seen |-> s]]
      BY <2>3 DEF ReadTime
    <3>2. DOMAIN Disturbing = Readers /\ Disturbing[u].time = reader[u].time
      BY <2>1 DEF Disturbing
    <3>3. reader'[u].time \in {shadow.time, reader[u].time}
      BY <3>1, <3>2
    <3> QED
      BY <2>2, <3>3
  <2>4. CASE ReadDate(t)
    <3>1. reader' = [reader EXCEPT ![t] = Ready]
      BY <2>4 DEF ReadDate
    <3> QED
      BY <2>1, <2>2, <3>1 DEF Ready
  <2> QED
    BY <2>3, <2>4
<1> QED
  BY <1>1, <1>2, <1>3, <1>4, <1>5

(* A command to set the clock begins with a reading. *)
LEMMA SetBeginHolds == RtcInv /\ RtcHolds /\ (SetCommand \/ SetRead) => RtcHolds'
<1> SUFFICES ASSUME RtcInv, RtcHolds, SetCommand \/ SetRead PROVE RtcHolds'
  OBVIOUS
<1>1. "shell" \in Readers /\ MaxSet \in Nat /\ LastTime \in Nat
  BY RtcAssumption
<1>2. ReadTime("shell") \/ ReadDate("shell")
  BY DEF SetCommand, SetRead
<1>3. /\ CalendarHolds' /\ ShadowHolds' /\ ReadersHold'
      /\ running' = running /\ ticks' = ticks /\ torn' \in BOOLEAN
  BY <1>1, <1>2, ReadHolds
<1>4. Counts'
  <2>1. sets' = sets \/ (sets < MaxSet /\ sets' = sets + 1)
    BY DEF SetCommand, SetRead
  <2> QED
    BY <1>1, <1>3, <2>1 DEF RtcHolds, Counts
<1>5. ASSUME SetCommand PROVE SettingHolds'
  <2>1. FirstDate \in DatesSet
    BY DatesAssumption DEF DatesSet, YearsSet
  <2>2. \/ \E n \in SetTimes : setting' = [Nobody EXCEPT !.op = "set-time", !.pc = "read", !.time = n]
        \/ \E d \in SetDates : setting' = [Nobody EXCEPT !.op = "set-date", !.pc = "read", !.date = d]
    BY <1>5 DEF SetCommand
  <2>3. ASSUME NEW n \in SetTimes, setting' = [Nobody EXCEPT !.op = "set-time", !.pc = "read", !.time = n]
        PROVE  SettingHolds'
    <3>1. n \in 0..LastTime
      BY RtcAssumption
    <3>2. setting'.time = n /\ setting'.date = FirstDate
      BY <2>3 DEF Nobody
    <3> QED
      BY <2>1, <3>1, <3>2 DEF SettingHolds
  <2>4. ASSUME NEW d \in SetDates, setting' = [Nobody EXCEPT !.op = "set-date", !.pc = "read", !.date = d]
        PROVE  SettingHolds'
    <3>1. d \in [day : 1..31, month : 1..12, year : 2000..2099]
      BY DatesAssumption
    <3>2. d \in DatesSet
      BY <3>1 DEF DatesSet, YearsSet
    <3>3. setting'.time = 0 /\ setting'.date = d
      BY <2>4 DEF Nobody
    <3> QED
      BY <1>1, <3>2, <3>3 DEF SettingHolds
  <2> QED
    BY <2>2, <2>3, <2>4
<1>6. ASSUME SetRead PROVE SettingHolds'
  <2>1. setting = [op |-> setting.op, pc |-> setting.pc, time |-> setting.time, date |-> setting.date]
    BY DEF RtcInv, RtcShape
  <2>2. PICK d : d = [Shown(shadow.date) EXCEPT !.year = YearRead(@)]
    OBVIOUS
  <2>3. d \in DatesSet
    <3>1. PICK r \in Registers : r = shadow.date
      BY DEF RtcHolds, ShadowHolds
    <3>2. r.day \in 1..31 /\ r.month % 10 \in 0..19 /\ (r.year \div 10) + 100 \in YearsSet
      BY DEF Registers, Years, YearsSet
    <3>3. d = [[r EXCEPT !.month = r.month % 10, !.year = r.year \div 10] EXCEPT !.year = (r.year \div 10) + 100]
      BY <2>2, <3>1 DEF Shown, YearRead, Registers
    <3>4. d = [day |-> r.day, month |-> r.month % 10, year |-> (r.year \div 10) + 100]
      BY <3>3 DEF Registers
    <3> QED
      BY <3>2, <3>4 DEF DatesSet
  <2>4. \/ setting' = [setting EXCEPT !.pc = "enable", !.time = reader["shell"].time]
        \/ setting' = [setting EXCEPT !.pc = "enable", !.date = d]
    BY <1>6, <2>2 DEF SetRead
  <2>5. /\ setting'.time \in {setting.time, reader["shell"].time}
        /\ setting'.date \in {setting.date, d}
    BY <2>1, <2>4
  <2> QED
    BY <1>1, <2>3, <2>5 DEF RtcHolds, SettingHolds, ReadersHold
<1> QED
  BY <1>3, <1>4, <1>5, <1>6 DEF RtcHolds

(* The rest of set_time(): going on and giving up, *)
LEMMA SetGoesHolds ==
    RtcInv /\ RtcHolds /\ (EnableInit \/ InitEnabled \/ GiveUp \/ LeaveInit \/ Invalidate \/ Synchronised)
        => RtcHolds'
<1> SUFFICES ASSUME RtcInv, RtcHolds,
                    EnableInit \/ InitEnabled \/ GiveUp \/ LeaveInit \/ Invalidate \/ Synchronised
             PROVE  RtcHolds'
  OBVIOUS
<1>1. /\ calendar' = calendar /\ shadow' = shadow /\ running' = running /\ ticks' = ticks /\ sets' = sets
      /\ torn' = torn
      /\ reader' = reader \/ reader' = Disturbing
      /\ (\E p : SetGoes(p)) \/ setting' = Nobody
  BY DEF EnableInit, InitEnabled, GiveUp, LeaveInit, Invalidate, Synchronised, SetOnly
<1>2. CalendarHolds' /\ ShadowHolds' /\ Counts'
  BY <1>1 DEF RtcHolds, CalendarHolds, ShadowHolds, Counts
<1>3. ReadersHold'
  BY <1>1 DEF RtcHolds, ReadersHold, Disturbing, RtcInv, RtcShape
<1>4. SettingHolds'
  <2>1. setting = [op |-> setting.op, pc |-> setting.pc, time |-> setting.time, date |-> setting.date]
    BY DEF RtcInv, RtcShape
  <2>2. CASE setting' = Nobody
    <3>1. setting'.time = 0 /\ setting'.date = FirstDate
      BY <2>2 DEF Nobody
    <3>2. FirstDate \in DatesSet /\ 0 \in 0..LastTime
      BY RtcAssumption, DatesAssumption DEF DatesSet, YearsSet
    <3> QED
      BY <3>1, <3>2 DEF SettingHolds
  <2>3. ASSUME NEW p, SetGoes(p) PROVE SettingHolds'
    <3>1. setting'.time = setting.time /\ setting'.date = setting.date
      BY <2>1, <2>3 DEF SetGoes
    <3> QED
      BY <3>1 DEF RtcHolds, SettingHolds
  <2> QED
    BY <1>1, <2>2, <2>3
<1> QED
  BY <1>2, <1>3, <1>4 DEF RtcHolds

(* and writing the registers. *)
LEMMA WriteHolds == RtcInv /\ RtcHolds /\ (WriteTime \/ WriteDate) => RtcHolds'
<1> SUFFICES ASSUME RtcInv, RtcHolds, WriteTime \/ WriteDate PROVE RtcHolds'
  OBVIOUS
<1>1. /\ shadow' = shadow /\ running' = running /\ ticks' = ticks /\ sets' = sets /\ reader' = reader
      /\ torn' = torn
      /\ \E p : SetGoes(p)
  BY DEF WriteTime, WriteDate, SetOnly
<1>2. ShadowHolds' /\ Counts' /\ ReadersHold'
  BY <1>1 DEF RtcHolds, ShadowHolds, Counts, ReadersHold
<1>3. SettingHolds'
  <2>1. setting = [op |-> setting.op, pc |-> setting.pc, time |-> setting.time, date |-> setting.date]
    BY DEF RtcInv, RtcShape
  <2>2. setting'.time = setting.time /\ setting'.date = setting.date
    BY <1>1, <2>1 DEF SetGoes
  <2> QED
    BY <2>2 DEF RtcHolds, SettingHolds
<1>4. CalendarHolds'
  <2>1. PICK d : d = Merged(shadow.date, setting.date)
    OBVIOUS
  <2>2. d \in Registers /\ setting.time \in 0..LastTime
    BY <2>1, MergedHolds DEF RtcHolds, ShadowHolds, SettingHolds
  <2>3. calendar' = [calendar EXCEPT !.time = setting.time] \/ calendar' = [calendar EXCEPT !.date = d]
    BY <2>1 DEF WriteTime, WriteDate
  <2>4. calendar = [time |-> calendar.time, date |-> calendar.date]
    BY DEF RtcInv, RtcShape
  <2>5. calendar'.time \in {calendar.time, setting.time} /\ calendar'.date \in {calendar.date, d}
    BY <2>3, <2>4
  <2> QED
    BY <2>2, <2>5 DEF RtcHolds, CalendarHolds
<1> QED
  BY <1>2, <1>3, <1>4 DEF RtcHolds

(* Every step keeps what the variables of the clock hold. *)
LEMMA RtcStepHolds == RtcInv /\ RtcHolds /\ [RtcNext]_rtcVars => RtcHolds'
<1> SUFFICES ASSUME RtcInv, RtcHolds, [RtcNext]_rtcVars PROVE RtcHolds'
  OBVIOUS
<1>1. CASE Tick
  BY <1>1, TickHolds
<1>2. CASE Oscillator \/ EnterInit \/ CopyShadows \/ UNCHANGED rtcVars
  <2>1. /\ calendar' = calendar /\ setting' = setting /\ ticks' = ticks /\ sets' = sets
        /\ torn' = torn
        /\ reader' = reader \/ reader' = Disturbing
        /\ running' = running \/ running' = ~running
        /\ \/ shadow' = shadow
           \/ shadow' = [time |-> calendar.time, date |-> IF frozen THEN shadow.date ELSE calendar.date]
    BY <1>2 DEF Oscillator, EnterInit, CopyShadows, rtcVars
  <2>2. CalendarHolds' /\ ReadersHold' /\ SettingHolds'
    BY <2>1, DisturbedShape DEF RtcHolds, CalendarHolds, ReadersHold, SettingHolds
  <2>3. Counts'
    BY <2>1 DEF RtcHolds, Counts
  <2>4. ShadowHolds'
    BY <2>1 DEF RtcHolds, CalendarHolds, ShadowHolds
  <2> QED
    BY <2>2, <2>3, <2>4 DEF RtcHolds
<1>3. ASSUME NEW t \in Readers, Reading(t) PROVE RtcHolds'
  <2>1. setting' = setting /\ sets' = sets /\ (ReadTime(t) \/ ReadDate(t))
    BY <1>3 DEF Reading
  <2>2. /\ CalendarHolds' /\ ShadowHolds' /\ ReadersHold'
        /\ running' = running /\ ticks' = ticks /\ torn' \in BOOLEAN
    BY <2>1, ReadHolds
  <2> QED
    BY <2>1, <2>2 DEF RtcHolds, Counts, SettingHolds
<1>4. CASE SetTime
  BY <1>4, SetBeginHolds, SetGoesHolds, WriteHolds DEF SetTime
<1> QED
  BY <1>1, <1>2, <1>3, <1>4 DEF RtcNext

(* The types follow. *)
LEMMA RtcTypes == RtcInv /\ RtcHolds => RtcTypeOK
<1> SUFFICES ASSUME RtcInv, RtcHolds PROVE RtcTypeOK
  OBVIOUS
<1>1. RtcPlaces
  BY DEF RtcInv
<1>2. Counts /\ CalendarHolds /\ shadow.time \in 0..LastTime
  BY DEF RtcHolds, ShadowHolds
<1> QED
  BY <1>1, <1>2 DEF RtcPlaces, Counts, CalendarHolds, Registers, Years, RtcTypeOK

(*------------------------- The history of the shell ----------------------*)

(* The entry in a slot is the one entered Age lines before the last, if    *)
(* so many were entered: w is the slot of the last, the slots before it    *)
(* are of this round and the others of the round before.                   *)
Slots     == 0..(HistorySize - 1)
Newest      == history.count % HistorySize
EntryIn(i) == IF i <= Newest THEN history.count - (Newest - i)
              ELSE history.count - (Newest - i) - HistorySize

HistoryShape ==
    /\ history = [slots |-> history.slots, count |-> history.count, position |-> history.position]
    /\ history.slots = [i \in Slots |-> history.slots[i]]
    /\ \E S : entered \in Seq(S)
    /\ history.count = Len(entered)

SlotsHoldEntries ==
    \A i \in Slots : history.slots[i] = IF EntryIn(i) >= 1 THEN entered[EntryIn(i)] ELSE <<>>

HistoryInv == HistoryShape /\ SlotsHoldEntries

(* One round more is at least as many steps more. *)
LEMMA OneMore ==
    ASSUME NEW m \in Nat \ {0}, NEW p \in Int, NEW q \in Int, p >= q + 1
    PROVE  m * p >= m * q + m
<1> DEFINE k == p - q - 1
<1>1. k \in Nat /\ p = q + 1 + k
  OBVIOUS
<1> HIDE DEF k
<1>2. m * k \in Nat
  BY <1>1
<1>3. m * p = m * q + m + m * k
  BY <1>1
<1> QED
  BY <1>2, <1>3

(* The remainder is what the definition of quotients leaves.               *)
LEMMA NextRemainder ==
    ASSUME NEW m \in Nat \ {0}, NEW q \in Int, NEW p \in Int, NEW r \in 0..(m - 1), NEW s \in 0..(m - 1),
           m * p + s = m * q + r + 1
    PROVE  s = IF r = m - 1 THEN 0 ELSE r + 1
<1> DEFINE a == m * p
           b == m * q
<1>1. a \in Int /\ b \in Int /\ a + s = b + r + 1
  OBVIOUS
<1>2. p = q => a = b
  OBVIOUS
<1>3. p >= q + 1 => a >= b + m
  BY OneMore
<1>4. q >= p + 1 => b >= a + m
  BY OneMore
<1>5. p >= q + 2 => a >= b + m + m
  <2> SUFFICES ASSUME p >= q + 2 PROVE a >= b + m + m
    OBVIOUS
  <2>1. m * p >= m * (q + 1) + m
    BY OneMore
  <2>2. m * (q + 1) >= (m * q) + m
    BY OneMore
  <2> QED
    BY <2>1, <2>2
<1> HIDE DEF a, b
<1>6. p = q \/ p = q + 1 \/ p >= q + 2 \/ q >= p + 1
  OBVIOUS
<1> QED
  BY <1>1, <1>2, <1>3, <1>4, <1>5, <1>6

(* Counting on goes round the slots. *)
LEMMA RemainderOf ==
    ASSUME NEW m \in Nat \ {0}, NEW n \in Nat
    PROVE  /\ n % m \in 0..(m - 1)
           /\ n < m => n % m = n
           /\ (n + 1) % m = IF n % m = m - 1 THEN 0 ELSE (n % m) + 1
<1>1. n % m \in 0..(m - 1) /\ (n + 1) % m \in 0..(m - 1)
  OBVIOUS
<1>2. n < m => n % m = n
  OBVIOUS
<1>3. n = (m * (n \div m)) + (n % m) /\ n \div m \in Int
  OBVIOUS
<1>4. n + 1 = (m * ((n + 1) \div m)) + ((n + 1) % m) /\ (n + 1) \div m \in Int
  OBVIOUS
<1>5. ASSUME NEW q \in Int, NEW p \in Int, NEW r \in 0..(m - 1), NEW s \in 0..(m - 1),
             n = m * q + r, n + 1 = m * p + s
      PROVE  s = IF r = m - 1 THEN 0 ELSE r + 1
  <2>1. m * p + s = m * q + r + 1
    BY <1>5
  <2> QED
    BY <2>1, NextRemainder
<1>6. (n + 1) % m = IF n % m = m - 1 THEN 0 ELSE (n % m) + 1
  BY <1>1, <1>3, <1>4, <1>5
<1> QED
  BY <1>1, <1>2, <1>6

(* Where the slots stand. *)
LEMMA NewestSlot ==
    ASSUME HistoryInv
    PROVE  /\ history.count \in Nat /\ HistorySize \in Nat /\ HistorySize > 1
           /\ Newest \in Slots
           /\ history.count < HistorySize => Newest = history.count
           /\ (history.count + 1) % HistorySize
                 = IF Newest = HistorySize - 1 THEN 0 ELSE Newest + 1
<1>1. history.count \in Nat
  BY LenProperties DEF HistoryInv, HistoryShape
<1>2. HistorySize \in Nat \ {0} /\ HistorySize > 1
  BY ShellAssumption
<1> QED
  BY <1>1, <1>2, RemainderOf DEF Newest, Slots

(* An entry more: the line goes to the slot after the newest one.          *)
LEMMA SaveInv ==
    ASSUME HistoryInv, NEW s, Fits(s), history' = Save(s), entered' = Append(entered, Before(s))
    PROVE  HistoryInv'
<1> DEFINE next == (history.count + 1) % HistorySize
           n == history.count
           w == Newest
           b == Before(s)
           H == HistorySize
<1>1. /\ n \in Nat /\ H \in Nat /\ H > 1 /\ w \in 0..(H - 1)
      /\ next = IF w = H - 1 THEN 0 ELSE w + 1
      /\ n < H => w = n
  BY NewestSlot DEF Slots
<1>2. PICK S : entered \in Seq(S)
  BY DEF HistoryInv, HistoryShape
<1>3. n = Len(entered)
  BY DEF HistoryInv, HistoryShape
<1>4. history' = [slots |-> [history.slots EXCEPT ![next] = b], count |-> n + 1,
                  position |-> history.position]
  <2>1. history' = [history EXCEPT !.count = @ + 1, !.slots[next] = b]
    BY DEF Save
  <2> HIDE DEF next, b
  <2> QED
    BY <2>1 DEF HistoryInv, HistoryShape
<1> HIDE DEF next, b
<1>5. /\ entered' \in Seq(S \cup {b}) /\ Len(entered') = n + 1
      /\ \A k \in 1..(n + 1) : entered'[k] = IF k = n + 1 THEN b ELSE entered[k]
  <2>1. entered \in Seq(S \cup {b})
    BY <1>2
  <2>2. entered' = Append(entered, b)
    BY DEF b
  <2>3. b \in S \cup {b}
    OBVIOUS
  <2> HIDE DEF n
  <2>4. entered' \in Seq(S \cup {b}) /\ Len(entered') = Len(entered) + 1
    BY <2>1, <2>2, <2>3, AppendProperties
  <2>5. \A k \in 1..(Len(entered) + 1) : entered'[k] = IF k = Len(entered) + 1 THEN b ELSE entered[k]
    BY <2>1, <2>2, <2>3, AppendProperties
  <2> QED
    BY <2>4, <2>5, <1>3
<1>6. Newest' = next
  <2>1. history'.count = n + 1
    BY <1>4
  <2> QED
    BY <2>1 DEF Newest, next
<1>7. \A i \in Slots : history'.slots[i] = IF i = next THEN b ELSE history.slots[i]
  BY <1>4, <1>1 DEF HistoryInv, HistoryShape, Slots
<1>8. HistoryShape'
  <2>1. history'.slots = [i \in Slots |-> history'.slots[i]]
    <3> DEFINE old == history.slots
               new == history'.slots
    <3>1. old = [i \in Slots |-> old[i]] /\ new = [old EXCEPT ![next] = b]
      BY <1>4 DEF HistoryInv, HistoryShape
    <3> HIDE DEF old, new
    <3>2. new = [i \in Slots |-> new[i]]
      BY <3>1
    <3> QED
      BY <3>2 DEF new
  <2>2. history'.count = Len(entered') /\ \E T : entered' \in Seq(T)
    BY <1>4, <1>5
  <2>3. history' = [slots |-> history'.slots, count |-> history'.count, position |-> history'.position]
    BY <1>4
  <2> QED
    BY <2>1, <2>2, <2>3 DEF HistoryShape, Slots
<1>9. SlotsHoldEntries'
  <2> SUFFICES ASSUME NEW i \in Slots
               PROVE  history'.slots[i] = IF EntryIn(i)' >= 1 THEN entered'[EntryIn(i)'] ELSE <<>>
    BY DEF SlotsHoldEntries, Slots
  <2> DEFINE e == IF i <= w THEN n - (w - i) ELSE n - (w - i) - H
             f == IF i <= next THEN (n + 1) - (next - i) ELSE (n + 1) - (next - i) - H
  <2>1. EntryIn(i) = e
    BY DEF EntryIn
  <2>2. EntryIn(i)' = f
    <3>1. history'.count = n + 1
      BY <1>4
    <3>2. EntryIn(i)' = IF i <= Newest' THEN history'.count - (Newest' - i)
                        ELSE history'.count - (Newest' - i) - HistorySize
      BY DEF EntryIn
    <3> DEFINE a == Newest'
               c == history'.count
    <3>3. EntryIn(i)' = IF i <= a THEN c - (a - i) ELSE c - (a - i) - H
      BY <3>2
    <3>4. a = next /\ c = n + 1
      BY <3>1, <1>6
    <3> HIDE DEF a, c, n, H
    <3> QED
      BY <3>3, <3>4
  <2>3. history.slots[i] = IF e >= 1 THEN entered[e] ELSE <<>>
    BY <2>1 DEF HistoryInv, SlotsHoldEntries
  <2> HIDE DEF w, n
  <2>4. i \in 0..(H - 1)
    BY DEF Slots
  <2>5. i = next => f = n + 1
    BY <1>1, <2>4
  <2>6. i # next => f = e /\ e <= n /\ e \in Int
    BY <1>1, <2>4
  <2>7. CASE i = next
    <3>1. history'.slots[i] = b
      BY <2>7, <1>7
    <3>2. f = n + 1 /\ f >= 1 /\ f \in 1..(n + 1)
      BY <2>5, <2>7, <1>1
    <3> QED
      BY <3>1, <3>2, <2>2, <1>5
  <2>8. CASE i # next
    <3>1. history'.slots[i] = history.slots[i]
      BY <2>8, <1>7
    <3>2. CASE e >= 1
      <4>1. e \in 1..(n + 1) /\ e # n + 1
        BY <2>6, <2>8, <3>2, <1>1
      <4>2. entered'[e] = entered[e]
        BY <4>1, <1>5
      <4> HIDE DEF e, f
      <4> QED
        BY <4>2, <3>1, <3>2, <2>2, <2>3, <2>6, <2>8
    <3>3. CASE ~(e >= 1)
      <4> HIDE DEF e, f
      <4> QED
        BY <3>1, <3>3, <2>2, <2>3, <2>6, <2>8
    <3> QED
      BY <3>2, <3>3
  <2> QED
    BY <2>7, <2>8
<1> QED
  BY <1>8, <1>9 DEF HistoryInv

(* At the start nothing was entered.                                       *)
LEMMA HistoryInitInv == ShellInit => HistoryInv
<1> SUFFICES ASSUME ShellInit PROVE HistoryInv
  OBVIOUS
<1>1. /\ history = [slots |-> [i \in Slots |-> <<>>], count |-> 0, position |-> 0]
      /\ entered = <<>>
  BY DEF ShellInit, Slots
<1>2. HistoryShape
  <2>1. entered \in Seq({}) /\ Len(entered) = 0
    BY <1>1
  <2> QED
    BY <1>1, <2>1 DEF HistoryShape
<1>3. SlotsHoldEntries
  <2> SUFFICES ASSUME NEW i \in Slots PROVE ~(EntryIn(i) >= 1) /\ history.slots[i] = <<>>
    BY DEF SlotsHoldEntries
  <2>1. Newest = 0 /\ history.count = 0
    BY <1>1, ShellAssumption, RemainderOf DEF Newest
  <2> QED
    BY <1>1, <2>1, ShellAssumption DEF EntryIn, Slots
<1> QED
  BY <1>2, <1>3 DEF HistoryInv

(* What neither enters a line nor moves in the history leaves it alone; a  *)
(* move changes only the position.                                         *)
LEMMA HistoryAlone ==
    ASSUME HistoryInv, entered' = entered,
           history' = history \/ \E p : history' = [history EXCEPT !.position = p]
    PROVE  HistoryInv'
<1>1. /\ history'.slots = history.slots /\ history'.count = history.count
      /\ history' = [slots |-> history'.slots, count |-> history'.count, position |-> history'.position]
  BY DEF HistoryInv, HistoryShape
<1>2. HistoryShape'
  BY <1>1 DEF HistoryInv, HistoryShape, Slots
<1>3. Newest' = Newest
  BY <1>1 DEF Newest
<1>4. \A i \in Slots : EntryIn(i)' = EntryIn(i)
  BY <1>1, <1>3 DEF EntryIn
<1>5. SlotsHoldEntries'
  BY <1>1, <1>4 DEF HistoryInv, SlotsHoldEntries, Slots
<1> QED
  BY <1>2, <1>5 DEF HistoryInv

(* Of the keys only Enter changes the slots, and the arrows the position.   *)
LEMMA HistoryStep == HistoryInv /\ [ShellNext]_shellVars => HistoryInv'
<1> SUFFICES ASSUME HistoryInv, [ShellNext]_shellVars PROVE HistoryInv'
  OBVIOUS
<1>1. ASSUME NEW c \in Typed \cup Controls, ReadByte(c) PROVE HistoryInv'
  BY <1>1, HistoryAlone DEF ReadByte, Key, Append1
<1>2. CASE ReadControl
  <2>1. CASE Backspace
    BY <2>1, HistoryAlone DEF Backspace
  <2>2. CASE Tab
    BY <2>2, HistoryAlone DEF Tab
  <2>3. CASE Enter
    <3>1. \/ Fits(line) /\ history' = Save(line) /\ entered' = Append(entered, Before(line))
          \/ history' = history /\ entered' = entered
      BY <2>3 DEF Enter, Save
    <3> QED
      BY <3>1, SaveInv, HistoryAlone
  <2> QED
    BY <1>2, <2>1, <2>2, <2>3 DEF ReadControl, Key
<1>3. CASE ReadEscape \/ ReadBracket \/ ReadOtherKey
  BY <1>3, HistoryAlone DEF ReadEscape, ReadBracket, ReadOtherKey, Key
<1>4. CASE ReadArrow
  <2>1. ASSUME NEW p, Recall(p) PROVE HistoryInv'
    <3>1. entered' = entered /\ (history' = history \/ history' = [history EXCEPT !.position = p])
      BY <2>1 DEF Recall
    <3> QED
      BY <3>1, HistoryAlone
  <2> QED
    BY <1>4, <2>1 DEF ReadArrow, Key, Up, Down
<1>5. CASE UNCHANGED shellVars
  BY <1>5, HistoryAlone DEF shellVars
<1> QED
  BY <1>1, <1>2, <1>3, <1>4, <1>5 DEF ShellNext

(* The slots are the last entries, once there are so many.                 *)
LEMMA SlotsAreRecent == HistoryInv => HistoryKeepsRecent
<1> SUFFICES ASSUME HistoryInv PROVE HistoryKeepsRecent
  OBVIOUS
<1> DEFINE n == history.count
           w == Newest
           H == HistorySize
           kept == {history.slots[i] : i \in Slots}
<1>1. /\ n \in Nat /\ H \in Nat /\ H > 1 /\ w \in 0..(H - 1) /\ n = Len(entered)
      /\ n < H => w = n
  BY NewestSlot DEF Slots, HistoryInv, HistoryShape
<1>2. Recent = {entered[k] : k \in {j \in 1..n : j + H > n}}
  BY <1>1 DEF Recent
<1>3. ASSUME NEW i \in Slots
      PROVE  /\ EntryIn(i) \in Int /\ EntryIn(i) <= n /\ EntryIn(i) + H > n
             /\ n >= H => EntryIn(i) >= 1
  <2>1. i \in 0..(H - 1)
    BY DEF Slots
  <2>2. EntryIn(i) = IF i <= w THEN n - (w - i) ELSE n - (w - i) - H
    BY DEF EntryIn
  <2> HIDE DEF n, w, H
  <2> QED
    BY <1>1, <2>1, <2>2
<1>4. \A i \in Slots : history.slots[i] = IF EntryIn(i) >= 1 THEN entered[EntryIn(i)] ELSE <<>>
  BY DEF HistoryInv, SlotsHoldEntries
<1>5. ASSUME NEW i \in Slots, EntryIn(i) >= 1 PROVE history.slots[i] \in Recent
  <2>1. EntryIn(i) \in {j \in 1..n : j + H > n}
    BY <1>1, <1>3, <1>5
  <2> QED
    BY <2>1, <1>2, <1>4, <1>5
<1>6. kept \subseteq Recent \cup {<<>>}
  BY <1>4, <1>5
<1>7. n >= H => kept \subseteq Recent
  BY <1>3, <1>5
<1>8. ASSUME n >= H, NEW k \in 1..n, k + H > n PROVE entered[k] \in kept
  <2> DEFINE i == IF k >= n - w THEN k - n + w ELSE k - n + w + H
  <2>1. i \in Slots /\ (k >= n - w => i <= w) /\ (~(k >= n - w) => ~(i <= w))
    <3> HIDE DEF n, w
    <3> QED
      BY <1>1, <1>8 DEF Slots
  <2>2. EntryIn(i) = k
    <3>1. EntryIn(i) = IF i <= w THEN n - (w - i) ELSE n - (w - i) - H
      BY DEF EntryIn
    <3> HIDE DEF n, w
    <3> QED
      BY <1>1, <1>8, <2>1, <3>1
  <2>3. history.slots[i] = entered[k]
    BY <1>4, <2>1, <2>2
  <2> QED
    BY <2>1, <2>3
<1>9. n >= H => Recent \subseteq kept
  BY <1>2, <1>8
<1>10. HistoryKeepsRecent = IF n < H THEN kept \subseteq Recent \cup {<<>>} ELSE kept = Recent
  BY DEF HistoryKeepsRecent, Slots
<1> HIDE DEF kept
<1>11. CASE n < H
  BY <1>6, <1>10, <1>11
<1>12. CASE ~(n < H)
  <2>0. n >= H
    BY <1>1, <1>12
  <2>1. kept = Recent
    <3>1. kept \subseteq Recent /\ Recent \subseteq kept
      BY <1>7, <1>9, <2>0
    <3> HIDE DEF n, H
    <3> QED
      BY <3>1, Zenon
  <2> QED
    BY <2>1, <1>10, <1>12
<1> QED
  BY <1>11, <1>12

(*------------------------- Finite sets of places -------------------------*)

(* What holds of a subset of a finite set whenever it holds of all smaller *)
(* ones holds of the set (P is the set of subsets it holds of).            *)
LEMMA SubsetInduction ==
    ASSUME NEW S, IsFiniteSet(S), NEW P,
           \A s \in SUBSET S : (\A u \in SUBSET s : u # s => u \in P) => s \in P
    PROVE  S \in P
<1> SUFFICES ASSUME S \notin P PROVE FALSE
  OBVIOUS
<1> DEFINE N == {Cardinality(s) : s \in (SUBSET S) \ P}
<1>1. \A s \in SUBSET S : IsFiniteSet(s) /\ Cardinality(s) \in Nat
  BY FS_Subset, FS_CardinalityType
<1>2. N \in SUBSET Nat /\ N # {}
  <2>1. S \in (SUBSET S) \ P
    OBVIOUS
  <2> QED
    BY <1>1, <2>1
<1>3. PICK n \in N : \A m \in N : n <= m
  <2> HIDE DEF N
  <2> QED
    BY <1>2, LeastOf
<1>4. PICK s \in (SUBSET S) \ P : n = Cardinality(s)
  BY <1>3
<1>5. PICK u \in SUBSET s : u # s /\ u \notin P
  BY <1>4
<1>6. u \in (SUBSET S) \ P
  BY <1>4, <1>5
<1>7. Cardinality(s) <= Cardinality(u)
  BY <1>3, <1>4, <1>6
<1>8. Cardinality(u) <= Cardinality(s) /\ (Cardinality(s) = Cardinality(u) => s = u)
  BY <1>1, <1>4, <1>5, FS_Subset
<1> QED
  BY <1>1, <1>4, <1>5, <1>6, <1>7, <1>8

(* A finite set of naturals that is not empty has a greatest element. *)
LEMMA GreatestOf == ASSUME NEW S \in SUBSET Nat, IsFiniteSet(S), S # {}
                    PROVE  \E g \in S : \A m \in S : m <= g
<1> DEFINE P == {s \in SUBSET S : s # {} => \E g \in s : \A m \in s : m <= g}
<1>1. ASSUME NEW s \in SUBSET S, \A u \in SUBSET s : u # s => u \in P PROVE s \in P
  <2> SUFFICES ASSUME s # {} PROVE \E g \in s : \A m \in s : m <= g
    OBVIOUS
  <2>1. PICK x \in s : TRUE
    OBVIOUS
  <2>2. CASE s = {x}
    BY <2>2
  <2>3. CASE s # {x}
    <3>1. s \ {x} \in SUBSET s /\ s \ {x} # s /\ s \ {x} # {}
      BY <2>1, <2>3
    <3>2. s \ {x} \in P
      BY <1>1, <3>1
    <3>3. PICK g \in s \ {x} : \A m \in s \ {x} : m <= g
      BY <3>1, <3>2
    <3>4. x \in Nat /\ g \in Nat
      OBVIOUS
    <3> QED
      BY <3>3, <3>4
  <2> QED
    BY <2>2, <2>3
<1>2. S \in P
  <2> HIDE DEF P
  <2> QED
    BY <1>1, SubsetInduction
<1> QED
  BY <1>2

(*---------------------------- Words and texts ----------------------------*)

(* The n-th of a finite set of naturals is one of them, with n up to it.   *)
LEMMA NthPlace ==
    ASSUME NEW S \in SUBSET Nat, IsFiniteSet(S), NEW n \in 1..Cardinality(S)
    PROVE  Nth(S, n) \in S /\ Cardinality({k \in S : k <= Nth(S, n)}) = n
<1> DEFINE Ranked(s) == \A m \in 1..Cardinality(s) : \E i \in s : Cardinality({k \in s : k <= i}) = m
           P == {s \in SUBSET S : Ranked(s)}
<1>1. ASSUME NEW s \in SUBSET S, \A u \in SUBSET s : u # s => u \in P PROVE s \in P
  <2> SUFFICES ASSUME NEW m \in 1..Cardinality(s) PROVE \E i \in s : Cardinality({k \in s : k <= i}) = m
    OBVIOUS
  <2>1. IsFiniteSet(s) /\ Cardinality(s) \in Nat
    BY FS_Subset, FS_CardinalityType
  <2>2. s # {}
    BY <2>1, FS_EmptySet
  <2>3. PICK x \in s : \A y \in s : y <= x
    BY <2>1, <2>2, GreatestOf
  <2>4. Cardinality(s \ {x}) = Cardinality(s) - 1
    BY <2>1, FS_RemoveElement
  <2>5. CASE m = Cardinality(s)
    <3>1. {k \in s : k <= x} = s
      BY <2>3
    <3> QED
      BY <2>5, <3>1
  <2>6. CASE m # Cardinality(s)
    <3>1. s \ {x} \in P
      <4>1. s \ {x} \in SUBSET s /\ s \ {x} # s
        OBVIOUS
      <4> QED
        BY <1>1, <4>1
    <3>2. m \in 1..Cardinality(s \ {x})
      BY <2>1, <2>4, <2>6
    <3>3. PICK i \in s \ {x} : Cardinality({k \in s \ {x} : k <= i}) = m
      BY <3>1, <3>2
    <3>4. i < x
      <4>1. i \in Nat /\ x \in Nat /\ i <= x /\ i # x
        BY <2>3, <3>3
      <4> QED
        BY <4>1
    <3>5. {k \in s : k <= i} = {k \in s \ {x} : k <= i}
      <4>1. i \in Nat /\ x \in Nat
        BY <3>3
      <4> QED
        BY <3>4, <4>1
    <3> QED
      BY <3>3, <3>5
  <2> QED
    BY <2>5, <2>6
<1>2. S \in P
  <2> HIDE DEF P
  <2> QED
    BY <1>1, SubsetInduction
<1>3. \E i \in S : Cardinality({k \in S : k <= i}) = n
  BY <1>2
<1> QED
  BY <1>3, Zenon DEF Nth

(* A word ends somewhere, *)
LEMMA WordEnds ==
    ASSUME NEW T, NEW s \in Seq(T), NEW i \in 1..Len(s)
    PROVE  Ending(s, i) \in (i - 1)..Len(s)
<1> DEFINE Ends == Separators \cup {TabByte}
           E == {j \in Nat : j >= i /\ (j = Len(s) + 1 \/ (j <= Len(s) /\ s[j] \in Ends))}
<1>1. Len(s) \in Nat /\ i \in Nat /\ i >= 1 /\ i <= Len(s)
  OBVIOUS
<1>2. E \in SUBSET Nat /\ Len(s) + 1 \in E
  BY <1>1
<1>3. PICK l \in E : \A m \in E : l <= m
  <2> HIDE DEF E
  <2> QED
    BY <1>2, LeastOf
<1>4. l \in Nat /\ l >= i /\ l <= Len(s) + 1 /\ (l <= Len(s) => s[l] \in Ends)
  BY <1>1, <1>2, <1>3
<1>5. \A k \in i..(l - 1) : s[k] \notin Ends
  <2> SUFFICES ASSUME NEW k \in i..(l - 1), s[k] \in Ends PROVE FALSE
    OBVIOUS
  <2>1. k \in Nat /\ k >= i /\ k < l /\ k <= Len(s)
    BY <1>1, <1>4
  <2>2. k \in E
    BY <1>1, <2>1
  <2> QED
    BY <1>3, <1>4, <2>1, <2>2
<1> DEFINE Closes(j) == /\ \A k \in i..j : s[k] \notin Ends
                        /\ j < Len(s) => s[j + 1] \in Ends
<1>6. l - 1 \in (i - 1)..Len(s) /\ Closes(l - 1)
  BY <1>1, <1>4, <1>5
<1>7. Ending(s, i) = CHOOSE j \in (i - 1)..Len(s) : Closes(j)
  BY DEF Ending
<1> QED
  <2> HIDE DEF Closes
  <2> QED
    BY <1>6, <1>7

(* and so it is a piece of the line.  *)
LEMMA WordPieces ==
    ASSUME NEW T, NEW s \in Seq(T), NEW n \in DOMAIN Words(s) PROVE Words(s)[n] \in Seq(T)
<1>1. Len(s) \in Nat /\ DOMAIN s = 1..Len(s) /\ \A i \in 1..Len(s) : s[i] \in T
  OBVIOUS
<1>2. Starts(s) \in SUBSET (1..Len(s))
  BY <1>1 DEF Starts
<1>3. IsFiniteSet(Starts(s)) /\ Starts(s) \in SUBSET Nat
  <2>1. 1 \in Int /\ Len(s) \in Int
    BY <1>1
  <2>2. IsFiniteSet(1..Len(s))
    BY <2>1, FS_Interval
  <2> QED
    BY <1>2, <2>2, FS_Subset
<1>4. PICK i : i = Nth(Starts(s), n)
  OBVIOUS
<1>5. n \in 1..Cardinality(Starts(s)) /\ Words(s)[n] = SubSeq(s, i, Ending(s, i))
  BY <1>4 DEF Words
<1>6. i \in 1..Len(s)
  BY <1>2, <1>3, <1>4, <1>5, NthPlace
<1>7. PICK e : e = Ending(s, i)
  OBVIOUS
<1>8. e \in (i - 1)..Len(s)
  BY <1>6, <1>7, WordEnds
<1>9. SubSeq(s, i, e) \in Seq(T)
  BY <1>1, <1>6, <1>8
<1> QED
  BY <1>5, <1>7, <1>9

(* What is saved of a line has no Nul. *)
LEMMA BeforeNul ==
    ASSUME NEW T, NEW s \in Seq(T) PROVE Before(s) \in Seq(T \ {Nul})
<1>1. Len(s) \in Nat /\ DOMAIN s = 1..Len(s) /\ \A i \in 1..Len(s) : s[i] \in T
  OBVIOUS
<1>2. CASE ~\E i \in DOMAIN s : s[i] = Nul
  <2>1. Before(s) = s
    BY <1>2 DEF Before
  <2>2. \A i \in 1..Len(s) : s[i] \in T \ {Nul}
    BY <1>1, <1>2
  <2>3. s \in Seq(T \ {Nul})
    BY <1>1, <2>2
  <2> QED
    BY <2>1, <2>3
<1>3. CASE \E i \in DOMAIN s : s[i] = Nul
  <2> DEFINE FirstNul(i) == s[i] = Nul /\ \A k \in 1..(i - 1) : s[k] # Nul
             N == {i \in Nat : i \in 1..Len(s) /\ s[i] = Nul}
  <2>1. PICK l \in N : \A m \in N : l <= m
    <3>1. N \in SUBSET Nat /\ N # {}
      BY <1>1, <1>3
    <3> HIDE DEF N
    <3> QED
      BY <3>1, LeastOf
  <2>2. l \in DOMAIN s /\ FirstNul(l)
    BY <1>1, <2>1
  <2>3. PICK f : f = CHOOSE i \in DOMAIN s : FirstNul(i)
    OBVIOUS
  <2>4. f \in DOMAIN s /\ FirstNul(f)
    <3> HIDE DEF FirstNul
    <3> QED
      BY <2>2, <2>3
  <2>5. Before(s) = SubSeq(s, 1, f - 1)
    BY <1>3, <2>3 DEF Before
  <2>6. PICK b : b = SubSeq(s, 1, f - 1)
    OBVIOUS
  <2>7. b \in Seq(T) /\ Len(b) = f - 1 /\ \A k \in 1..(f - 1) : b[k] = s[k]
    BY <1>1, <2>4, <2>6
  <2>8. \A k \in 1..Len(b) : b[k] \in T \ {Nul}
    BY <1>1, <2>4, <2>7
  <2>9. b \in Seq(T \ {Nul})
    BY <2>7, <2>8
  <2> QED
    BY <2>5, <2>6, <2>9
<1> QED
  BY <1>2, <1>3

(*------------------------------ Completion -------------------------------*)

(* One name begins another, letter by letter. *)
LEMMA PrefixLetters ==
    ASSUME NEW T, NEW s \in Seq(T), NEW t \in Seq(T)
    PROVE  IsPrefix(s, t) <=> Len(s) <= Len(t) /\ \A k \in 1..Len(s) : s[k] = t[k]
<1>1. Len(s) \in Nat /\ Len(t) \in Nat
  OBVIOUS
<1>2. ASSUME Len(s) <= Len(t)
      PROVE  SubSeq(s, 1, Len(s)) = SubSeq(t, 1, Len(s)) <=> \A k \in 1..Len(s) : s[k] = t[k]
  <2>1. SubSeq(s, 1, Len(s)) = [k \in 1..Len(s) |-> s[k]]
    BY <1>1
  <2>2. SubSeq(t, 1, Len(s)) = [k \in 1..Len(s) |-> t[k]]
    BY <1>1, <1>2
  <2> QED
    BY <2>1, <2>2
<1> QED
  BY <1>2 DEF IsPrefix

(* The names, and one that no other begins with. *)
Name(i) == Commands[i]
LEMMA NamesApart ==
    /\ DOMAIN Commands = 1..Len(Commands) /\ Len(Commands) \in Nat
    /\ \A i \in DOMAIN Commands : Name(i) \in Seq(Letters) /\ Len(Name(i)) \in Nat
    /\ \A i, j \in DOMAIN Commands : i # j => ~IsPrefix(Name(i), Name(j))
<1>1. Commands \in Seq(Seq(Letters))
  BY NamesAssumption
<1>2. /\ DOMAIN Commands = 1..Len(Commands) /\ Len(Commands) \in Nat
      /\ \A i \in DOMAIN Commands : Commands[i] \in Seq(Letters)
  BY <1>1
<1> QED
  BY <1>2, CommandsAssumption DEF Name

(* Two names i and j go together for l letters, and there part. *)
Together(i, j, l) == l <= Len(Name(i)) /\ l <= Len(Name(j)) /\ \A k \in 1..l : Name(i)[k] = Name(j)[k]
Part(i, j, l) == /\ Together(i, j, l) /\ l < Len(Name(i)) /\ l < Len(Name(j))
                 /\ Name(i)[l + 1] # Name(j)[l + 1]

(* find_common_length() of a name with itself is one too few. *)
LEMMA CommonSelf ==
    ASSUME NEW i \in DOMAIN Commands PROVE Common(Name(i), Name(i)) = Len(Name(i)) - 1
<1>1. Name(i) \in Seq(Letters) /\ Len(Name(i)) <= Len(Name(i))
  BY NamesApart
<1>2. IsPrefix(Name(i), Name(i))
  BY <1>1, PrefixLetters
<1> QED
  BY <1>2 DEF Common

(* Two names part after their common letters. *)
LEMMA CommonParts ==
    ASSUME NEW i \in DOMAIN Commands, NEW j \in DOMAIN Commands, i # j
    PROVE  Common(Name(i), Name(j)) \in Nat /\ Part(i, j, Common(Name(i), Name(j)))
<1>1. PICK s \in Seq(Letters) : s = Name(i)
  BY NamesApart
<1>2. PICK t \in Seq(Letters) : t = Name(j)
  BY NamesApart
<1>3. Len(s) \in Nat /\ Len(t) \in Nat /\ ~IsPrefix(s, t) /\ ~IsPrefix(t, s)
  BY <1>1, <1>2, NamesApart
<1> DEFINE Divides(n) == /\ n <= Len(t) /\ SubSeq(s, 1, n) = SubSeq(t, 1, n)
                         /\ n < Len(t) => s[n + 1] # t[n + 1]
           D == {n \in Nat : n < Len(s) /\ n < Len(t) /\ s[n + 1] # t[n + 1]}
<1>4. ASSUME NEW n \in Nat, n <= Len(s), n <= Len(t)
      PROVE  SubSeq(s, 1, n) = SubSeq(t, 1, n) <=> \A k \in 1..n : s[k] = t[k]
  <2>1. SubSeq(s, 1, n) = [k \in 1..n |-> s[k]]
    BY <1>3, <1>4
  <2>2. SubSeq(t, 1, n) = [k \in 1..n |-> t[k]]
    BY <1>3, <1>4
  <2> QED
    BY <2>1, <2>2
<1>5. D # {}
  <2> SUFFICES ASSUME D = {} PROVE FALSE
    OBVIOUS
  <2>1. \A k \in 1..Len(s) : k <= Len(t) => s[k] = t[k]
    <3> SUFFICES ASSUME NEW k \in 1..Len(s), k <= Len(t), s[k] # t[k] PROVE FALSE
      OBVIOUS
    <3>1. k - 1 \in D
      BY <1>3
    <3> QED
      BY <3>1
  <2>2. CASE Len(s) <= Len(t)
    BY <1>3, <2>1, <2>2, PrefixLetters
  <2>3. CASE ~(Len(s) <= Len(t))
    <3>1. Len(t) <= Len(s) /\ \A k \in 1..Len(t) : t[k] = s[k]
      BY <1>3, <2>1, <2>3
    <3> QED
      BY <1>3, <3>1, PrefixLetters
  <2> QED
    BY <2>2, <2>3
<1>6. PICK l \in D : \A m \in D : l <= m
  <2>1. D \in SUBSET Nat
    OBVIOUS
  <2> HIDE DEF D
  <2> QED
    BY <1>5, <2>1, LeastOf
<1>7. l \in 0..Len(s) /\ Divides(l)
  <2>1. l \in Nat /\ l < Len(s) /\ l < Len(t) /\ s[l + 1] # t[l + 1]
    BY <1>6
  <2>2. \A k \in 1..l : s[k] = t[k]
    <3> SUFFICES ASSUME NEW k \in 1..l, s[k] # t[k] PROVE FALSE
      OBVIOUS
    <3>1. k - 1 \in D /\ k - 1 < l
      BY <1>3, <2>1
    <3>2. l <= k - 1
      BY <1>6, <3>1
    <3> QED
      BY <2>1, <3>1, <3>2
  <2> QED
    BY <1>3, <1>4, <2>1, <2>2
<1>8. PICK n : n = CHOOSE m \in 0..Len(s) : Divides(m)
  OBVIOUS
<1>9. n \in 0..Len(s) /\ Divides(n)
  <2> HIDE DEF Divides
  <2> QED
    BY <1>7, <1>8
<1>10. Common(s, t) = n
  BY <1>3, <1>8 DEF Common
<1>11. n \in Nat /\ n <= Len(s) /\ n <= Len(t) /\ \A k \in 1..n : s[k] = t[k]
  BY <1>3, <1>4, <1>9
<1>12. n # Len(s)
  BY <1>3, <1>11, PrefixLetters
<1>13. n # Len(t)
  <2> SUFFICES ASSUME n = Len(t) PROVE FALSE
    OBVIOUS
  <2>1. Len(t) <= Len(s) /\ \A k \in 1..Len(t) : t[k] = s[k]
    BY <1>11
  <2> QED
    BY <1>3, <2>1, PrefixLetters
<1>14. n < Len(s) /\ n < Len(t) /\ s[n + 1] # t[n + 1]
  BY <1>3, <1>9, <1>11, <1>12, <1>13
<1> QED
  BY <1>1, <1>2, <1>10, <1>11, <1>14 DEF Part, Together

(* The loop over the commands, as a function of those it went over: the    *)
(* greatest is the last.                                                   *)
Start == [name |-> <<>>, length |-> 0]
Try(s, best, name) == IF Extends(name, s) THEN Narrow(best, name) ELSE best
Loops(f, s, S) ==
    f = [R \in SUBSET S |-> IF R = {} THEN Start ELSE Try(s, f[R \ {Max(R)}], Commands[Max(R)])]
LoopOf(s, S) == CHOOSE f : Loops(f, s, S)
Best(s, S) == LoopOf(s, S)[S]

(* It is how Candidate() narrows. *)
LEMMA CandidateLoop ==
    ASSUME NEW s
    PROVE  Candidate(s) = IF Cardinality(Matches(s)) = 1 THEN Best(s, DOMAIN Commands).name
                          ELSE SubSeq(Best(s, DOMAIN Commands).name, 1, Best(s, DOMAIN Commands).length)
BY Zenon DEF Candidate, FoldLeft, MapThenFoldSet, Best, LoopOf, Loops, Start, Try

(* The last of a finite set of naturals. *)
LEMMA LastOf ==
    ASSUME NEW S \in SUBSET Nat, IsFiniteSet(S), S # {}
    PROVE  /\ Max(S) \in S /\ S \ {Max(S)} \in SUBSET S /\ S \ {Max(S)} # S
           /\ IsFiniteSet(S \ {Max(S)})
<1>1. PICK g \in S : \A m \in S : m <= g
  BY GreatestOf
<1>2. \A m \in S : g >= m
  BY <1>1
<1>3. Max(S) \in S
  BY <1>2 DEF Max
<1> QED
  BY <1>3, FS_RemoveElement

(* Loops over a set and over a part of it agree on the part. *)
LEMMA LoopsAgree ==
    ASSUME NEW S \in SUBSET Nat, IsFiniteSet(S), NEW R \in SUBSET S, NEW s,
           NEW f, Loops(f, s, S), NEW e, Loops(e, s, R)
    PROVE  f[R] = e[R]
<1> DEFINE P == {u \in SUBSET R : f[u] = e[u]}
<1>0. IsFiniteSet(R)
  BY FS_Subset
<1>1. ASSUME NEW u \in SUBSET R, \A v \in SUBSET u : v # u => v \in P
      PROVE  u \in P
  <2>1. /\ f[u] = IF u = {} THEN Start ELSE Try(s, f[u \ {Max(u)}], Commands[Max(u)])
        /\ e[u] = IF u = {} THEN Start ELSE Try(s, e[u \ {Max(u)}], Commands[Max(u)])
    <3>1. u \in SUBSET S /\ u \in SUBSET R
      OBVIOUS
    <3> QED
      BY <3>1, Zenon DEF Loops
  <2>2. CASE u = {}
    BY <2>1, <2>2
  <2>3. CASE u # {}
    <3>1. u \in SUBSET Nat /\ IsFiniteSet(u)
      BY <1>0, FS_Subset
    <3>2. u \ {Max(u)} \in P
      BY <1>1, <2>3, <3>1, LastOf
    <3>3. f[u \ {Max(u)}] = e[u \ {Max(u)}]
      BY <3>2
    <3>4. f[u] = e[u]
      BY <2>1, <2>3, <3>3
    <3> QED
      BY <3>4
  <2> QED
    BY <2>2, <2>3
<1>2. R \in P
  <2> HIDE DEF P
  <2> QED
    BY <1>0, <1>1, SubsetInduction
<1> QED
  BY <1>2

(* Every finite set of places has such a loop. *)
LEMMA LoopsExist ==
    ASSUME NEW S \in SUBSET Nat, IsFiniteSet(S), NEW s PROVE \E f : Loops(f, s, S)
<1> DEFINE P == {u \in SUBSET S : \E f : Loops(f, s, u)}
<1>1. ASSUME NEW u \in SUBSET S, \A v \in SUBSET u : v # u => v \in P
      PROVE  u \in P
  <2>1. PICK f : f = [v \in SUBSET u |-> IF v = {} THEN Start
                        ELSE Try(s, LoopOf(s, v \ {Max(v)})[v \ {Max(v)}], Commands[Max(v)])]
    OBVIOUS
  <2>2. ASSUME NEW v \in SUBSET u, v # u PROVE Loops(LoopOf(s, v), s, v)
    <3>1. \E e : Loops(e, s, v)
      BY <1>1, <2>2
    <3> QED
      BY <3>1, Zenon DEF LoopOf
  <2>3. ASSUME NEW v \in SUBSET u
        PROVE  v \in SUBSET Nat /\ IsFiniteSet(v)
    <3>1. v \in SUBSET S
      OBVIOUS
    <3> QED
      BY <3>1, FS_Subset
  <2>4. ASSUME NEW v \in SUBSET u, v # u PROVE LoopOf(s, v)[v] = f[v]
    <3>1. Loops(LoopOf(s, v), s, v) /\ v \in SUBSET v
      BY <2>2, <2>4
    <3>2. LoopOf(s, v)[v] = IF v = {} THEN Start
                            ELSE Try(s, LoopOf(s, v)[v \ {Max(v)}], Commands[Max(v)])
      BY <3>1, Zenon DEF Loops
    <3>3. f[v] = IF v = {} THEN Start
                 ELSE Try(s, LoopOf(s, v \ {Max(v)})[v \ {Max(v)}], Commands[Max(v)])
      BY <2>1
    <3>4. CASE v = {}
      BY <3>2, <3>3, <3>4, Zenon
    <3>5. CASE v # {}
      <4>1. PICK w : w = v \ {Max(v)}
        OBVIOUS
      <4>2. w \in SUBSET v /\ w # v
        BY <2>3, <3>5, <4>1, LastOf
      <4>3. w \in SUBSET u /\ w # u
        BY <4>2
      <4>4. Loops(LoopOf(s, w), s, w)
        BY <2>2, <4>3
      <4>5. LoopOf(s, v)[w] = LoopOf(s, w)[w]
        BY <2>3, <3>1, <4>2, <4>4, LoopsAgree
      <4> QED
        BY <3>2, <3>3, <3>5, <4>1, <4>5, Zenon
    <3> QED
      BY <3>4, <3>5
  <2>5. ASSUME NEW v \in SUBSET u
        PROVE  f[v] = IF v = {} THEN Start ELSE Try(s, f[v \ {Max(v)}], Commands[Max(v)])
    <3>1. f[v] = IF v = {} THEN Start
                 ELSE Try(s, LoopOf(s, v \ {Max(v)})[v \ {Max(v)}], Commands[Max(v)])
      BY <2>1
    <3>2. CASE v = {}
      BY <3>1, <3>2, Zenon
    <3>3. CASE v # {}
      <4>1. v \ {Max(v)} \in SUBSET u /\ v \ {Max(v)} # u
        BY <2>3, <3>3, LastOf
      <4>2. LoopOf(s, v \ {Max(v)})[v \ {Max(v)}] = f[v \ {Max(v)}]
        BY <2>4, <4>1
      <4> QED
        BY <3>1, <3>3, <4>2, Zenon
    <3> QED
      BY <3>2, <3>3
  <2>6. Loops(f, s, u)
    <3>1. f = [v \in SUBSET u |-> f[v]]
      BY <2>1
    <3>2. f = [v \in SUBSET u |-> IF v = {} THEN Start ELSE Try(s, f[v \ {Max(v)}], Commands[Max(v)])]
      BY <2>5, <3>1
    <3> QED
      BY <3>2, Zenon DEF Loops
  <2> QED
    BY <2>6
<1>2. S \in P
  <2> HIDE DEF P
  <2> QED
    BY <1>1, SubsetInduction
<1> QED
  BY <1>2

(* What was best after the last command follows from the best before it. *)
LEMMA BestNext ==
    ASSUME NEW S \in SUBSET Nat, IsFiniteSet(S), NEW s
    PROVE  /\ S = {} => Best(s, S) = Start
           /\ S # {} => Best(s, S) = Try(s, Best(s, S \ {Max(S)}), Commands[Max(S)])
<1>1. Loops(LoopOf(s, S), s, S)
  BY LoopsExist, Zenon DEF LoopOf
<1>2. LoopOf(s, S)[S] = IF S = {} THEN Start ELSE Try(s, LoopOf(s, S)[S \ {Max(S)}], Commands[Max(S)])
  <2>1. S \in SUBSET S
    OBVIOUS
  <2> QED
    BY <1>1, <2>1, Zenon DEF Loops
<1>3. ASSUME S # {} PROVE LoopOf(s, S)[S \ {Max(S)}] = Best(s, S \ {Max(S)})
  <2>1. PICK r : r = S \ {Max(S)}
    OBVIOUS
  <2>2. r \in SUBSET S /\ IsFiniteSet(r) /\ r \in SUBSET Nat
    BY <1>3, <2>1, LastOf
  <2>3. Loops(LoopOf(s, r), s, r)
    BY <2>2, LoopsExist, Zenon DEF LoopOf
  <2>4. LoopOf(s, S)[r] = LoopOf(s, r)[r]
    BY <1>1, <2>2, <2>3, LoopsAgree
  <2> QED
    BY <2>1, <2>4 DEF Best
<1> QED
  BY <1>2, <1>3, Zenon DEF Best

(* The commands of a set of places that go on after the typed characters,  *)
(* and what the loop over that set has found: nothing if there is none; if *)
(* there is one, that one, all but its last letter; of several one of them *)
(* and how far they all go together, up to where two of them part.         *)
Going(s, S) == {i \in S : Extends(Commands[i], s)}
Found(s, S, b, c, l) ==
    /\ b = [name |-> Name(c), length |-> l] /\ l < Len(Name(c))
    /\ \A i \in Going(s, S) : Together(i, c, l)
    /\ \/ Going(s, S) = {c} /\ l = Len(Name(c)) - 1
       \/ \E i, j \in Going(s, S) : Part(i, j, l)
Narrowed(s, S, b) ==
    /\ Going(s, S) = {} => b = Start
    /\ Going(s, S) # {} => \E c \in Going(s, S), l \in Nat : Found(s, S, b, c, l)

(* Narrow() with the first name that goes on takes that one. *)
LEMMA NarrowFirst ==
    ASSUME NEW S \in SUBSET DOMAIN Commands, NEW s \in Seq(Bytes), NEW m \in S,
           Going(s, S \ {m}) = {}, Extends(Commands[m], s)
    PROVE  Found(s, S, Narrow(Start, Commands[m]), m, Len(Name(m)) - 1)
<1>1. Name(m) \in Seq(Letters) /\ Len(Name(m)) \in Nat /\ Name(m) = Commands[m]
  BY NamesApart DEF Name
<1>2. Going(s, S) = {m}
  BY DEF Going
<1>3. Common(Name(m), Name(m)) = Len(Name(m)) - 1
  BY CommonSelf
<1>4. Narrow(Start, Name(m)) = [name |-> Name(m), length |-> Len(Name(m)) - 1]
  BY <1>1, <1>3 DEF Narrow, Start
<1>5. Together(m, m, Len(Name(m)) - 1)
  BY <1>1 DEF Together
<1> QED
  BY <1>1, <1>2, <1>4, <1>5 DEF Found

(* Narrow() with one more name that goes on: where it parts from the best  *)
(* so far before the others do, it is the best now.                        *)
LEMMA NarrowMore ==
    ASSUME NEW S \in SUBSET DOMAIN Commands, NEW s \in Seq(Bytes), NEW m \in S,
           Extends(Commands[m], s),
           NEW b, NEW c \in Going(s, S \ {m}), NEW l \in Nat, Found(s, S \ {m}, b, c, l)
    PROVE  \E x \in Going(s, S), n \in Nat : Found(s, S, Narrow(b, Commands[m]), x, n)
<1>1. /\ Name(m) \in Seq(Letters) /\ Len(Name(m)) \in Nat /\ Name(m) = Commands[m]
      /\ Name(c) \in Seq(Letters) /\ Len(Name(c)) \in Nat /\ c \in DOMAIN Commands /\ c # m
  BY NamesApart DEF Name, Going
<1>2. Going(s, S) = Going(s, S \ {m}) \cup {m}
  BY DEF Going
<1>3. PICK d : d = Common(Name(c), Name(m))
  OBVIOUS
<1>4. d \in Nat /\ Part(c, m, d)
  BY <1>1, <1>3, CommonParts
<1>5. b = [name |-> Name(c), length |-> l] /\ l < Len(Name(c))
  BY DEF Found
<1>6. Name(c) # <<>>
  BY <1>1, <1>5
<1>7. Narrow(b, Name(m)) = IF l > d THEN [name |-> Name(m), length |-> d] ELSE b
  BY <1>3, <1>5, <1>6 DEF Narrow
<1>8. \A i \in Going(s, S \ {m}) : Together(i, c, l) /\ Len(Name(i)) \in Nat
  BY NamesApart DEF Found, Going
<1>9. d < Len(Name(c)) /\ d < Len(Name(m)) /\ \A k \in 1..d : Name(c)[k] = Name(m)[k]
  BY <1>4 DEF Part, Together
<1>10. CASE l > d
  <2>1. ASSUME NEW i \in Going(s, S \ {m}) PROVE Together(i, m, d)
    <3>1. l <= Len(Name(i)) /\ \A k \in 1..l : Name(i)[k] = Name(c)[k]
      BY <1>8 DEF Together
    <3>2. \A k \in 1..d : Name(i)[k] = Name(c)[k]
      BY <1>4, <1>10, <3>1
    <3>3. \A k \in 1..d : Name(i)[k] = Name(m)[k]
      BY <1>9, <3>2
    <3>4. d <= Len(Name(i)) /\ d <= Len(Name(m))
      BY <1>1, <1>4, <1>8, <1>9, <1>10, <3>1
    <3> QED
      BY <3>3, <3>4 DEF Together
  <2>2. Together(m, m, d)
    BY <1>1, <1>4, <1>9 DEF Together
  <2>3. c \in Going(s, S) /\ m \in Going(s, S)
    BY <1>2
  <2>4. Found(s, S, Narrow(b, Name(m)), m, d)
    BY <1>2, <1>4, <1>7, <1>9, <1>10, <2>1, <2>2, <2>3 DEF Found
  <2> QED
    BY <1>1, <1>4, <2>3, <2>4
<1>11. CASE ~(l > d)
  <2>1. Together(m, c, l)
    BY <1>1, <1>4, <1>5, <1>9, <1>11 DEF Together
  <2>2. \A i \in Going(s, S) : Together(i, c, l)
    BY <1>2, <1>8, <2>1
  <2>3. \E i, j \in Going(s, S) : Part(i, j, l)
    <3>1. CASE l = Len(Name(c)) - 1
      <4>1. d = l
        BY <1>1, <1>4, <1>9, <1>11, <3>1
      <4> QED
        BY <1>2, <1>4, <4>1
    <3>2. CASE \E i, j \in Going(s, S \ {m}) : Part(i, j, l)
      BY <1>2, <3>2
    <3> QED
      BY <3>1, <3>2 DEF Found
  <2>4. Found(s, S, b, c, l)
    BY <1>5, <2>2, <2>3 DEF Found
  <2> QED
    BY <1>1, <1>2, <1>7, <1>11, <2>4
<1> QED
  BY <1>10, <1>11

(* So it is after the loop. *)
LEMMA BestNarrowed ==
    ASSUME NEW s \in Seq(Bytes)
    PROVE  Narrowed(s, DOMAIN Commands, Best(s, DOMAIN Commands))
<1> DEFINE D == DOMAIN Commands
           P == {S \in SUBSET D : Narrowed(s, S, Best(s, S))}
<1>1. IsFiniteSet(D) /\ D \in SUBSET Nat
  BY NamesApart, FS_Interval
<1>2. ASSUME NEW S \in SUBSET D, \A R \in SUBSET S : R # S => R \in P PROVE S \in P
  <2>1. S \in SUBSET Nat /\ IsFiniteSet(S)
    BY <1>1, FS_Subset
  <2>2. CASE S = {}
    <3>1. Best(s, S) = Start /\ Going(s, S) = {}
      BY <2>1, <2>2, BestNext DEF Going
    <3> QED
      BY <3>1 DEF Narrowed
  <2>3. CASE S # {}
    <3>1. PICK m : m = Max(S)
      OBVIOUS
    <3>2. m \in S /\ S \ {m} \in SUBSET S /\ S \ {m} # S
      BY <2>1, <2>3, <3>1, LastOf
    <3>3. PICK b : b = Best(s, S \ {m})
      OBVIOUS
    <3>4. Narrowed(s, S \ {m}, b)
      <4>1. S \ {m} \in P
        BY <1>2, <3>2
      <4> QED
        BY <3>3, <4>1
    <3>5. Best(s, S) = Try(s, b, Commands[m])
      BY <2>1, <2>3, <3>1, <3>3, BestNext
    <3>6. CASE ~Extends(Commands[m], s)
      <4>1. Best(s, S) = b
        BY <3>5, <3>6 DEF Try
      <4>2. Going(s, S) = Going(s, S \ {m})
        BY <3>6 DEF Going
      <4>3. Narrowed(s, S, b)
        BY <3>4, <4>2 DEF Narrowed, Found
      <4> QED
        BY <4>1, <4>3
    <3>7. CASE Extends(Commands[m], s)
      <4>1. Best(s, S) = Narrow(b, Commands[m])
        BY <3>5, <3>7 DEF Try
      <4>2. m \in Going(s, S)
        BY <3>2, <3>7 DEF Going
      <4>3. CASE Going(s, S \ {m}) = {}
        <5>1. b = Start
          BY <3>4, <4>3 DEF Narrowed
        <5>2. Found(s, S, Best(s, S), m, Len(Name(m)) - 1)
          BY <3>2, <3>7, <4>1, <4>3, <5>1, NarrowFirst
        <5>3. Len(Name(m)) - 1 \in Nat
          <6>1. Len(Name(m)) \in Nat /\ Len(Name(m)) > Len(s) /\ Len(s) \in Nat
            BY <3>2, <3>7, NamesApart DEF Extends, Name
          <6> QED
            BY <6>1
        <5> QED
          BY <4>2, <5>2, <5>3 DEF Narrowed
      <4>4. CASE Going(s, S \ {m}) # {}
        <5>1. PICK c \in Going(s, S \ {m}), l \in Nat : Found(s, S \ {m}, b, c, l)
          BY <3>4, <4>4 DEF Narrowed
        <5>2. \E x \in Going(s, S), n \in Nat : Found(s, S, Best(s, S), x, n)
          BY <3>2, <3>7, <4>1, <5>1, NarrowMore
        <5> QED
          BY <4>2, <5>2 DEF Narrowed
      <4> QED
        BY <4>3, <4>4
    <3> QED
      BY <3>6, <3>7
  <2> QED
    BY <2>2, <2>3
<1>3. D \in P
  <2> HIDE DEF P
  <2> QED
    BY <1>1, <1>2, SubsetInduction
<1> QED
  BY <1>3

(* A line of letters is a line of characters. *)
LEMMA LettersTyped ==
    /\ \A t \in Seq(Letters) : t \in Seq(Typed) /\ t \in Seq(Bytes)
    /\ \A t \in Seq(Typed) : t \in Seq(Bytes)
BY DEF Typed, Bytes

(* try_auto_complete_program_name(): nothing where no command goes on,     *)
(* and else the longest beginning of all that go on.                       *)
LEMMA CandidateCommon ==
    ASSUME NEW s \in Seq(Bytes)
    PROVE  /\ Matches(s) = {} => Candidate(s) = <<>>
           /\ Matches(s) # {} =>
                /\ Candidate(s) \in Seq(Letters) /\ IsPrefix(s, Candidate(s))
                /\ \A i \in Matches(s) : IsPrefix(Candidate(s), Commands[i])
                /\ \A c \in Letters : \E i \in Matches(s) :
                       ~IsPrefix(Append(Candidate(s), c), Commands[i])
<1> DEFINE T == Bytes
<1>1. Matches(s) = Going(s, DOMAIN Commands)
  BY DEF Matches, Going
<1>2. PICK b : b = Best(s, DOMAIN Commands)
  OBVIOUS
<1>3. Narrowed(s, DOMAIN Commands, b)
  BY <1>2, BestNarrowed
<1>4. Candidate(s) = IF Cardinality(Matches(s)) = 1 THEN b.name ELSE SubSeq(b.name, 1, b.length)
  BY <1>2, CandidateLoop
<1>5. Len(s) \in Nat
  OBVIOUS
<1>6. CASE Matches(s) = {}
  <2>1. Cardinality(Matches(s)) = 0
    BY <1>6, FS_EmptySet
  <2>2. b = Start
    BY <1>1, <1>3, <1>6 DEF Narrowed
  <2>3. Candidate(s) = SubSeq(<<>>, 1, 0)
    BY <1>4, <2>1, <2>2 DEF Start
  <2>4. SubSeq(<<>>, 1, 0) = <<>>
    OBVIOUS
  <2> QED
    BY <1>6, <2>3, <2>4
<1>7. CASE Matches(s) # {}
  <2>1. PICK c \in Matches(s), l \in Nat : Found(s, DOMAIN Commands, b, c, l)
    BY <1>1, <1>3, <1>7 DEF Narrowed
  <2>2. ASSUME NEW i \in Matches(s)
        PROVE  /\ i \in DOMAIN Commands /\ Name(i) \in Seq(Letters) /\ Name(i) \in Seq(T)
               /\ Len(Name(i)) \in Nat /\ Commands[i] = Name(i)
               /\ Len(s) < Len(Name(i)) /\ \A k \in 1..Len(s) : s[k] = Name(i)[k]
    <3>1. i \in DOMAIN Commands /\ Extends(Name(i), s) /\ Commands[i] = Name(i)
      BY DEF Matches, Name
    <3>2. Name(i) \in Seq(Letters) /\ Name(i) \in Seq(T) /\ Len(Name(i)) \in Nat
      BY <3>1, NamesApart, LettersTyped
    <3> QED
      BY <1>5, <3>1, <3>2, PrefixLetters DEF Extends
  <2>3. /\ b.name = Name(c) /\ b.length = l /\ l < Len(Name(c))
        /\ \A i \in Matches(s) : Together(i, c, l)
    BY <1>1, <2>1 DEF Found
  <2>4. CASE Cardinality(Matches(s)) = 1
    <3>1. Candidate(s) = Name(c)
      BY <1>4, <2>3, <2>4
    <3>2. IsFiniteSet(Matches(s))
      <4>1. IsFiniteSet(DOMAIN Commands) /\ Matches(s) \in SUBSET DOMAIN Commands
        BY NamesApart, FS_Interval DEF Matches
      <4> QED
        BY <4>1, FS_Subset
    <3>3. Matches(s) = {c}
      BY <2>4, <3>2, FS_Singleton
    <3>4. IsPrefix(s, Name(c)) /\ IsPrefix(Name(c), Name(c))
      BY <1>5, <2>2, PrefixLetters
    <3>5. ASSUME NEW x \in Letters PROVE ~IsPrefix(Append(Name(c), x), Name(c))
      <4>1. Name(c) \in Seq(Letters) /\ Len(Name(c)) \in Nat
        BY <2>2
      <4>2. PICK a : a = Append(Name(c), x)
        OBVIOUS
      <4>3. a \in Seq(Letters) /\ Len(a) = Len(Name(c)) + 1
        BY <4>1, <4>2
      <4>4. ~IsPrefix(a, Name(c))
        BY <4>1, <4>3, PrefixLetters
      <4> QED
        BY <4>2, <4>4
    <3> QED
      BY <1>7, <2>2, <3>1, <3>3, <3>4, <3>5
  <2>5. CASE Cardinality(Matches(s)) # 1
    <3>1. PICK i \in Matches(s), j \in Matches(s) : Part(i, j, l)
      <4>1. Matches(s) # {c}
        BY <2>5, FS_Singleton
      <4> QED
        BY <1>1, <2>1, <4>1 DEF Found
    <3>2. PICK p : p = SubSeq(Name(c), 1, l)
      OBVIOUS
    <3>3. Candidate(s) = p
      BY <1>4, <2>3, <2>5, <3>2
    <3>4. /\ p \in Seq(Letters) /\ Len(p) = l /\ \A k \in 1..l : p[k] = Name(c)[k]
          /\ p \in Seq(T)
      <4>1. p \in Seq(Letters) /\ Len(p) = l /\ \A k \in 1..l : p[k] = Name(c)[k]
        BY <2>2, <2>3, <3>2
      <4> QED
        BY <4>1, LettersTyped
    <3>5. Len(s) <= l
      <4> SUFFICES ASSUME l < Len(s) PROVE FALSE
        BY <1>5
      <4>1. l + 1 \in 1..Len(s) /\ Name(i)[l + 1] # Name(j)[l + 1]
        BY <1>5, <3>1 DEF Part
      <4> QED
        BY <2>2, <3>1, <4>1
    <3>6. IsPrefix(s, p)
      <4>1. \A k \in 1..Len(s) : s[k] = p[k]
        BY <1>5, <2>2, <3>4, <3>5
      <4> QED
        BY <3>4, <3>5, <4>1, PrefixLetters
    <3>7. ASSUME NEW m \in Matches(s) PROVE IsPrefix(p, Name(m))
      <4>1. l <= Len(Name(m)) /\ \A k \in 1..l : p[k] = Name(m)[k]
        BY <2>3, <3>4 DEF Together
      <4> QED
        BY <2>2, <3>4, <4>1, PrefixLetters
    <3>8. ASSUME NEW x \in Letters
          PROVE  \E m \in Matches(s) : ~IsPrefix(Append(p, x), Name(m))
      <4>1. PICK a : a = Append(p, x)
        OBVIOUS
      <4>2. a \in Seq(Letters) /\ Len(a) = l + 1 /\ a[l + 1] = x
        BY <3>4, <4>1
      <4>3. ASSUME NEW m \in Matches(s), IsPrefix(a, Name(m)) PROVE Name(m)[l + 1] = x
        <5>1. \A k \in 1..Len(a) : a[k] = Name(m)[k]
          <6>1. a \in Seq(Letters) /\ Name(m) \in Seq(Letters) /\ IsPrefix(a, Name(m))
            BY <2>2, <4>2, <4>3
          <6> QED
            BY <6>1, PrefixLetters
        <5> QED
          BY <4>2, <5>1
      <4>4. Name(i)[l + 1] # Name(j)[l + 1]
        BY <3>1 DEF Part
      <4> QED
        BY <4>1, <4>3, <4>4
    <3>9. \A m \in Matches(s) : Commands[m] = Name(m)
      BY DEF Name
    <3> QED
      BY <1>7, <3>3, <3>4, <3>6, <3>7, <3>8, <3>9
  <2> QED
    BY <2>4, <2>5
<1> QED
  BY <1>6, <1>7

(*------------------------- The line on the terminal ----------------------*)

(* Where the shell's task is, and the shape of what it keeps. *)
LineShape ==
    /\ branch \in {"key", "escape", "control"}
    /\ line \in Seq(Bytes) /\ strayed \in BOOLEAN
    /\ terminal = [row |-> terminal.row, cursor |-> terminal.cursor, logged |-> terminal.logged]
    /\ terminal.cursor \in Nat /\ terminal.logged \in BOOLEAN

(* The places of the history exist and hold lines without a Nul. *)
PlacesHold == /\ history.position \in Slots
              /\ \A i \in Slots : history.slots[i] \in Seq(Bytes \ {Nul})

(* The row of the terminal shows a line of characters, after the prompt or *)
(* without one.                                                            *)
ShowsText(t, s) == s \in Seq(Typed) /\ t.row \in {Prompt \o s, s} /\ t.cursor = Len(s)

(* Only an empty line has the output of a program left.  Otherwise a line  *)
(* that did not stray is shown.                                            *)
ScreenFollows ==
    /\ terminal.logged => line = <<>> /\ ~strayed
    /\ ~terminal.logged /\ ~strayed => ShowsText(terminal, line)

LineInv == HistoryInv /\ LineShape /\ PlacesHold /\ ScreenFollows

LEMMA BytesApart ==
    /\ Typed \cap (Controls \cup {Nul}) = {} /\ Nul \notin Typed /\ Blank \in Typed
    /\ Typed \subseteq Bytes /\ Return \in Controls /\ Nul # "prompt"
BY NamesAssumption DEF Typed, Bytes, Controls, Blank, Nul, Return, TabByte

(* The first places. *)
LEMMA PlacesOfSlots == HistorySize \in Nat /\ HistorySize > 1 /\ 0 \in Slots
BY ShellAssumption DEF Slots

(* A line with no stray bytes is a line of characters, and only then.      *)
LEMMA StrayFree == ASSUME NEW s \in Seq(Bytes) PROVE ~Stray(s) <=> s \in Seq(Typed)
<1>1. Len(s) \in Nat /\ DOMAIN s = 1..Len(s) /\ \A i \in 1..Len(s) : s[i] \in Bytes
  OBVIOUS
<1>2. ASSUME ~Stray(s) PROVE s \in Seq(Typed)
  <2>1. \A i \in 1..Len(s) : s[i] \in Typed
    BY <1>1, <1>2 DEF Stray, Bytes
  <2> QED
    BY <1>1, <2>1
<1>3. ASSUME s \in Seq(Typed) PROVE ~Stray(s)
  <2>1. \A i \in 1..Len(s) : s[i] \in Typed
    BY <1>3
  <2> QED
    BY <1>1, <2>1, BytesApart DEF Stray
<1> QED
  BY <1>2, <1>3

(* The cursor moves by a number, *)
LEMMA MovedOn == ASSUME NEW n \in Nat, NEW s \in Seq(Bytes) PROVE Moved(n, s) \in Nat
<1> DEFINE M == {i \in DOMAIN s : s[i] # Return}
<1>1. 1 \in Int /\ Len(s) \in Int /\ DOMAIN s = 1..Len(s)
  OBVIOUS
<1>2. IsFiniteSet(1..Len(s)) /\ M \in SUBSET (1..Len(s))
  BY <1>1, FS_Interval
<1>3. Cardinality(M) \in Nat
  <2> HIDE DEF M
  <2> QED
    BY <1>2, FS_Subset, FS_CardinalityType
<1>4. Moved(n, s) = n + Cardinality(M)
  BY DEF Moved
<1> HIDE DEF M
<1> QED
  BY <1>3, <1>4

(* which for a text of characters is its length. *)
LEMMA MovedWhole == ASSUME NEW n \in Nat, NEW s \in Seq(Typed) PROVE Moved(n, s) = n + Len(s)
<1>1. Len(s) \in Nat /\ DOMAIN s = 1..Len(s) /\ \A i \in 1..Len(s) : s[i] \in Typed
  OBVIOUS
<1>2. {i \in DOMAIN s : s[i] # Return} = 1..Len(s)
  BY <1>1, BytesApart
<1>3. Cardinality(1..Len(s)) = Len(s)
  <2>1. 1 \in Int /\ Len(s) \in Int
    BY <1>1
  <2>2. Cardinality(1..Len(s)) = IF 1 > Len(s) THEN 0 ELSE Len(s) - 1 + 1
    BY <2>1, FS_Interval
  <2> QED
    BY <1>1, <2>2
<1> QED
  BY <1>2, <1>3 DEF Moved

(* How long the row is behind the prompt. *)
LEMMA AfterPrompt ==
    ASSUME NEW s \in Seq(Typed) PROVE Len(Prompt \o s) = 6 + Len(s) /\ Len(s) \in Nat
<1>1. PICK U : U = Typed \cup {"prompt"}
  OBVIOUS
<1>2. Prompt \in Seq(U) /\ Len(Prompt) = 6
  BY <1>1 DEF Prompt
<1>3. s \in Seq(U)
  BY <1>1
<1>4. PICK p \in Seq(U) : p = Prompt
  BY <1>2
<1>5. Len(p \o s) = Len(p) + Len(s) /\ Len(s) \in Nat
  BY <1>3
<1> QED
  BY <1>2, <1>4, <1>5

(* No row of characters, behind the prompt or not, stands for any row.     *)
LEMMA NotGarbled ==
    ASSUME NEW s \in Seq(Typed), NEW row \in {Prompt \o s, s} PROVE row # Garbled
<1> SUFFICES ASSUME row = <<Nul>> PROVE FALSE
  BY DEF Garbled
<1>1. Len(row) = 1 /\ row[1] = Nul
  OBVIOUS
<1>2. CASE row = s
  <2>1. Len(s) = 1 /\ s[1] \in Typed
    BY <1>1, <1>2
  <2> QED
    BY <1>1, <1>2, <2>1, BytesApart
<1>3. CASE row = Prompt \o s
  <2>1. Len(row) = 6 + Len(s) /\ Len(s) \in Nat
    BY <1>3, AfterPrompt
  <2> QED
    BY <1>1, <2>1
<1> QED
  BY <1>2, <1>3

(* A line that is drawn anew leaves the terminal in its shape, and is      *)
(* there whole if it holds characters only.                                *)
LEMMA RedrawnLine ==
    ASSUME NEW s \in Seq(Bytes)
    PROVE  \E row, n : /\ Redrawn(s) = [row |-> row, cursor |-> n, logged |-> FALSE] /\ n \in Nat
                       /\ ~Stray(s) => ShowsText(Redrawn(s), s)
<1>1. Redrawn(s) = [row |-> Drawn(Prompt, s), cursor |-> Moved(0, s), logged |-> FALSE]
  BY DEF Redrawn, Put, Prompted
<1>2. Moved(0, s) \in Nat
  BY MovedOn
<1>3. ASSUME ~Stray(s) PROVE ShowsText(Redrawn(s), s)
  <2>1. s \in Seq(Typed)
    BY <1>3, StrayFree
  <2>2. Moved(0, s) = Len(s)
    <3>1. 0 + Len(s) = Len(s)
      OBVIOUS
    <3> QED
      BY <2>1, <3>1, MovedWhole
  <2>3. Prompt # Garbled
    <3>1. <<>> \in Seq(Typed) /\ Prompt \o <<>> = Prompt
      BY DEF Prompt
    <3> QED
      BY <3>1, NotGarbled
  <2>4. Drawn(Prompt, s) = Prompt \o s
    BY <1>3, <2>3 DEF Drawn
  <2> QED
    BY <1>1, <2>1, <2>2, <2>4 DEF ShowsText
<1> QED
  BY <1>1, <1>2, <1>3

(* Drawn anew, the terminal follows the line. *)
LEMMA DrawInv ==
    ASSUME HistoryInv', PlacesHold', branch' = "key", NEW s \in Seq(Bytes), Draw(s)
    PROVE  LineInv'
<1>1. line' = s /\ terminal' = Redrawn(s) /\ strayed' = Stray(s)
  BY DEF Draw
<1>2. PICK row, n : /\ Redrawn(s) = [row |-> row, cursor |-> n, logged |-> FALSE] /\ n \in Nat
                    /\ ~Stray(s) => ShowsText(Redrawn(s), s)
  BY RedrawnLine
<1>3. strayed' \in BOOLEAN
  BY <1>1 DEF Stray
<1>4. LineShape'
  BY <1>1, <1>2, <1>3 DEF LineShape
<1>5. ScreenFollows'
  BY <1>1, <1>2 DEF ScreenFollows, ShowsText
<1> QED
  BY <1>4, <1>5 DEF LineInv

(* At the start the line is empty and so is the history.                   *)
LEMMA LineInitInv == ShellInit => LineInv
<1> SUFFICES ASSUME ShellInit PROVE LineInv
  OBVIOUS
<1>1. /\ branch = "key" /\ line = <<>> /\ strayed = FALSE
      /\ terminal = [row |-> <<>>, cursor |-> 0, logged |-> FALSE]
      /\ history = [slots |-> [i \in Slots |-> <<>>], count |-> 0, position |-> 0]
  BY DEF ShellInit, Slots
<1>2. <<>> \in Seq(Bytes) /\ <<>> \in Seq(Bytes \ {Nul}) /\ <<>> \in Seq(Typed) /\ Len(<<>>) = 0
  OBVIOUS
<1>3. LineShape
  BY <1>1, <1>2 DEF LineShape
<1>4. PlacesHold
  BY <1>1, <1>2, PlacesOfSlots DEF PlacesHold
<1>5. ScreenFollows
  BY <1>1, <1>2 DEF ScreenFollows, ShowsText
<1> QED
  BY <1>3, <1>4, <1>5, HistoryInitInv DEF LineInv

(* A character put at the end of a row that shows a line shows the longer. *)
LEMMA PutCharacter ==
    ASSUME NEW s \in Seq(Typed), NEW c \in Typed, NEW row \in {Prompt \o s, s}
    PROVE  /\ Append(s, c) \in Seq(Typed) /\ Moved(Len(s), <<c>>) = Len(Append(s, c))
           /\ Drawn(row, <<c>>) \in {Prompt \o Append(s, c), Append(s, c)}
<1>1. <<c>> \in Seq(Typed) /\ <<c>> \in Seq(Bytes) /\ Len(<<c>>) = 1
  BY BytesApart
<1>2. /\ Append(s, c) \in Seq(Typed) /\ Len(Append(s, c)) = Len(s) + 1 /\ Len(s) \in Nat
      /\ Append(s, c) = s \o <<c>>
  OBVIOUS
<1>3. Moved(Len(s), <<c>>) = Len(s) + 1
  BY <1>1, <1>2, MovedWhole
<1>4. ~Stray(<<c>>) /\ row # Garbled
  BY <1>1, StrayFree, NotGarbled
<1>5. Drawn(row, <<c>>) = row \o <<c>>
  BY <1>4 DEF Drawn
<1>6. (Prompt \o s) \o <<c>> = Prompt \o (s \o <<c>>)
  <2>1. Prompt \in Seq({"prompt"})
    BY DEF Prompt
  <2> QED
    BY <1>1, <2>1
<1> QED
  BY <1>2, <1>3, <1>5, <1>6

(* A byte typed goes to the end of both. *)
LEMMA AppendInv ==
    ASSUME LineInv, HistoryInv', NEW c \in Typed \cup Controls, Append1(c), branch' = "key"
    PROVE  LineInv'
<1>1. /\ line' = Append(line, c) /\ terminal' = Put(terminal, <<c>>)
      /\ history' = history /\ strayed' = (strayed \/ c \in Controls)
  BY DEF Append1
<1>2. PlacesHold'
  BY <1>1 DEF LineInv, PlacesHold, Slots
<1>3. /\ line \in Seq(Bytes) /\ c \in Bytes /\ strayed \in BOOLEAN
      /\ terminal.cursor \in Nat /\ terminal.logged \in BOOLEAN
  BY DEF LineInv, LineShape, Bytes
<1>4. PICK row : row = IF terminal.logged THEN <<>> ELSE terminal.row
  OBVIOUS
<1>5. PICK n \in Nat : n = IF terminal.logged THEN 0 ELSE terminal.cursor
  BY <1>3
<1>6. terminal' = [row |-> Drawn(row, <<c>>), cursor |-> Moved(n, <<c>>), logged |-> FALSE]
  BY <1>1, <1>4, <1>5 DEF Put
<1>7. LineShape'
  <2>1. line' \in Seq(Bytes) /\ strayed' \in BOOLEAN
    BY <1>1, <1>3
  <2>2. Moved(n, <<c>>) \in Nat
    <3>1. <<c>> \in Seq(Bytes)
      BY <1>3
    <3> QED
      BY <3>1, MovedOn
  <2>3. branch' \in {"key", "escape", "control"}
    OBVIOUS
  <2>4. PICK r, m : r = Drawn(row, <<c>>) /\ m = Moved(n, <<c>>)
    OBVIOUS
  <2>5. terminal' = [row |-> r, cursor |-> m, logged |-> FALSE] /\ m \in Nat
    BY <1>6, <2>2, <2>4
  <2> QED
    BY <2>1, <2>3, <2>5 DEF LineShape
<1>8. ScreenFollows'
  <2>1. terminal'.logged = FALSE
    BY <1>6
  <2>2. ASSUME ~strayed' PROVE ShowsText(terminal', line')
    <3>1. ~strayed /\ c \in Typed
      BY <1>1, <2>2
    <3>2. line \in Seq(Typed) /\ row \in {Prompt \o line, line} /\ n = Len(line)
      <4>1. CASE terminal.logged
        <5>1. line = <<>> /\ row = <<>> /\ n = 0
          BY <4>1, <1>4, <1>5 DEF LineInv, ScreenFollows
        <5>2. <<>> \in Seq(Typed) /\ Len(<<>>) = 0
          OBVIOUS
        <5> QED
          BY <5>1, <5>2
      <4>2. CASE ~terminal.logged
        BY <4>2, <3>1, <1>4, <1>5 DEF LineInv, ScreenFollows, ShowsText
      <4> QED
        BY <4>1, <4>2
    <3>3. /\ Append(line, c) \in Seq(Typed) /\ Moved(n, <<c>>) = Len(Append(line, c))
          /\ Drawn(row, <<c>>) \in {Prompt \o Append(line, c), Append(line, c)}
      BY <3>1, <3>2, PutCharacter
    <3>4. terminal'.row = Drawn(row, <<c>>) /\ terminal'.cursor = Moved(n, <<c>>)
      BY <1>6
    <3> QED
      BY <1>1, <3>3, <3>4 DEF ShowsText
  <2> QED
    BY <2>1, <2>2 DEF ScreenFollows, ShowsText
<1> QED
  BY <1>2, <1>7, <1>8 DEF LineInv

(* A line without its last byte. *)
LEMMA FrontOf ==
    ASSUME NEW T, NEW s \in Seq(T), s # <<>>
    PROVE  /\ Len(s) \in Nat /\ Len(s) >= 1 /\ Front(s) = SubSeq(s, 1, Len(s) - 1)
           /\ Front(s) \in Seq(T) /\ Len(Front(s)) = Len(s) - 1
           /\ \A k \in 1..(Len(s) - 1) : Front(s)[k] = s[k]
<1>1. Len(s) \in Nat /\ Len(s) >= 1
  OBVIOUS
<1>2. PICK m \in Nat : m = Len(s) - 1
  BY <1>1
<1>3. Front(s) = SubSeq(s, 1, m)
  BY <1>2 DEF Front
<1>4. /\ SubSeq(s, 1, m) \in Seq(T) /\ Len(SubSeq(s, 1, m)) = m
      /\ \A k \in 1..m : SubSeq(s, 1, m)[k] = s[k]
  BY <1>1, <1>2
<1> QED
  BY <1>1, <1>2, <1>3, <1>4

(* A row without its last character. *)
LEMMA CutRow ==
    ASSUME NEW s \in Seq(Typed), s # <<>>, NEW row \in {Prompt \o s, s}
    PROVE  /\ Len(row) \in Nat /\ Len(row) >= 1
           /\ SubSeq(row, 1, Len(row) - 1) \in {Prompt \o Front(s), Front(s)}
<1>1. Len(s) \in Nat /\ Len(s) >= 1 /\ Front(s) = SubSeq(s, 1, Len(s) - 1)
  BY DEF Front
<1>2. CASE row = s
  BY <1>1, <1>2
<1>3. CASE row = Prompt \o s
  <2>1. Prompt = [i \in 1..6 |-> "prompt"] /\ Prompt \in Seq({"prompt"}) /\ Len(Prompt) = 6
    BY DEF Prompt
  <2>2. Len(row) = 6 + Len(s) /\ row \in Seq(Typed \cup {"prompt"})
    BY <1>1, <1>3, <2>1
  <2>3. SubSeq(row, 1, Len(row) - 1) = [i \in 1..(5 + Len(s)) |-> row[i]]
    BY <1>1, <2>2
  <2>4. Prompt \o Front(s) = [i \in 1..(5 + Len(s)) |-> IF i <= 6 THEN Prompt[i] ELSE Front(s)[i - 6]]
    <3>1. Front(s) \in Seq(Typed) /\ Len(Front(s)) = Len(s) - 1
      BY FrontOf
    <3> QED
      BY <1>1, <2>1, <3>1
  <2>5. \A i \in 1..(5 + Len(s)) : row[i] = IF i <= 6 THEN Prompt[i] ELSE Front(s)[i - 6]
    <3> SUFFICES ASSUME NEW i \in 1..(5 + Len(s))
                 PROVE  row[i] = IF i <= 6 THEN Prompt[i] ELSE Front(s)[i - 6]
      OBVIOUS
    <3>1. row[i] = IF i <= 6 THEN Prompt[i] ELSE s[i - 6]
      BY <1>1, <1>3, <2>1
    <3>2. i > 6 => Front(s)[i - 6] = s[i - 6]
      BY <1>1
    <3> QED
      BY <1>1, <3>1, <3>2
  <2>6. SubSeq(row, 1, Len(row) - 1) = Prompt \o Front(s)
    BY <2>3, <2>4, <2>5
  <2> QED
    BY <1>1, <2>2, <2>6
<1> QED
  BY <1>2, <1>3

(* Erasing takes the last character of a line off a row that shows it.     *)
LEMMA ErasedLast ==
    ASSUME NEW s \in Seq(Typed), s # <<>>, NEW t, t = [row |-> t.row, cursor |-> t.cursor, logged |-> t.logged],
           ShowsText(t, s)
    PROVE  ShowsText(Erased(t, Front(s)), Front(s))
<1>1. Len(s) \in Nat /\ Len(s) >= 1 /\ Front(s) \in Seq(Typed) /\ Len(Front(s)) = Len(s) - 1
  BY FrontOf
<1>2. t.row \in {Prompt \o s, s} /\ t.cursor = Len(s)
  BY DEF ShowsText
<1> DEFINE left == IF t.cursor > Len(Front(s)) THEN Min({t.cursor - Len(Front(s)), Len(Prompt)}) ELSE 0
           kept == IF left > Len(t.row) THEN 0 ELSE Len(t.row) - left
<1>3. Erased(t, Front(s)) = [t EXCEPT !.row = IF t.row = Garbled THEN t.row ELSE SubSeq(t.row, 1, kept),
                                      !.cursor = Len(Front(s))]
  BY DEF Erased
<1>4. left = 1
  <2>1. Len(Prompt) = 6
    BY DEF Prompt
  <2>2. t.cursor - Len(Front(s)) = 1 /\ t.cursor > Len(Front(s))
    BY <1>1, <1>2
  <2>3. Min({1, 6}) = 1
    BY DEF Min
  <2> QED
    BY <2>1, <2>2, <2>3
<1> HIDE DEF left
<1>5. Len(t.row) \in Nat /\ Len(t.row) >= 1 /\ kept = Len(t.row) - 1
  BY <1>2, <1>4, CutRow
<1>6. t.row # Garbled
  BY <1>2, NotGarbled
<1>7. PICK y : y = SubSeq(t.row, 1, Len(t.row) - 1)
  OBVIOUS
<1> HIDE DEF kept
<1>8. Erased(t, Front(s)) = [row |-> y, cursor |-> Len(Front(s)), logged |-> t.logged]
  BY <1>3, <1>5, <1>6, <1>7
<1>9. y \in {Prompt \o Front(s), Front(s)}
  BY <1>2, <1>7, CutRow
<1> QED
  BY <1>1, <1>8, <1>9 DEF ShowsText

(* A character erased goes from the end of both. *)
LEMMA BackspaceInv == ASSUME LineInv, HistoryInv', Backspace, branch' = "key" PROVE LineInv'
<1>1. history' = history /\ strayed' = strayed
  BY DEF Backspace
<1>2. PlacesHold'
  BY <1>1 DEF LineInv, PlacesHold, Slots
<1>3. /\ line \in Seq(Bytes) /\ strayed \in BOOLEAN
      /\ terminal = [row |-> terminal.row, cursor |-> terminal.cursor, logged |-> terminal.logged]
      /\ terminal.cursor \in Nat /\ terminal.logged \in BOOLEAN
  BY DEF LineInv, LineShape
<1>4. CASE line = <<>>
  <2>1. line' = line /\ terminal' = terminal
    BY <1>4 DEF Backspace
  <2> QED
    BY <1>1, <1>2, <2>1 DEF LineInv, LineShape, ScreenFollows, ShowsText
<1>5. CASE line # <<>>
  <2>1. line' = Front(line) /\ terminal' = Erased(terminal, Front(line))
    BY <1>5 DEF Backspace
  <2>2. Front(line) \in Seq(Bytes) /\ Len(Front(line)) \in Nat
    BY <1>3, <1>5 DEF Front
  <2>3. ~terminal.logged
    BY <1>5 DEF LineInv, ScreenFollows
  <2>4. PICK y : terminal' = [row |-> y, cursor |-> Len(Front(line)), logged |-> terminal.logged]
    <3>1. PICK kept : Erased(terminal, Front(line))
                = [terminal EXCEPT !.row = IF terminal.row = Garbled THEN terminal.row
                                           ELSE SubSeq(terminal.row, 1, kept),
                                   !.cursor = Len(Front(line))]
      BY DEF Erased
    <3>2. PICK y : y = IF terminal.row = Garbled THEN terminal.row ELSE SubSeq(terminal.row, 1, kept)
      OBVIOUS
    <3>3. terminal' = [terminal EXCEPT !.row = y, !.cursor = Len(Front(line))]
      BY <2>1, <3>1, <3>2
    <3> QED
      BY <1>3, <3>3
  <2>5. LineShape'
    <3>1. PICK n \in Nat : n = Len(Front(line))
      BY <2>2
    <3>2. terminal' = [row |-> y, cursor |-> n, logged |-> FALSE] /\ line' \in Seq(Bytes)
      BY <1>3, <2>1, <2>2, <2>3, <2>4, <3>1
    <3> QED
      BY <1>1, <1>3, <3>2 DEF LineShape
  <2>6. ASSUME ~strayed' PROVE ShowsText(terminal', line')
    <3>1. ShowsText(terminal, line)
      BY <1>1, <2>3, <2>6 DEF LineInv, ScreenFollows
    <3>2. line \in Seq(Typed)
      BY <3>1 DEF ShowsText
    <3> QED
      BY <1>3, <1>5, <2>1, <3>1, <3>2, ErasedLast
  <2>7. ~terminal'.logged
    BY <2>3, <2>4
  <2>8. ScreenFollows'
    BY <2>6, <2>7 DEF ScreenFollows, ShowsText
  <2> QED
    BY <1>2, <2>5, <2>8 DEF LineInv
<1> QED
  BY <1>4, <1>5

(* split_arguments() makes pieces of a line of it. *)
LEMMA WordsAreLines == ASSUME NEW s \in Seq(Bytes) PROVE Words(s) \in Seq(Seq(Bytes))
<1>1. Starts(s) \in SUBSET (1..Len(s)) /\ Len(s) \in Nat
  BY DEF Starts
<1>2. IsFiniteSet(Starts(s))
  <2>1. 1 \in Int /\ Len(s) \in Int
    BY <1>1
  <2>2. IsFiniteSet(1..Len(s))
    BY <2>1, FS_Interval
  <2> QED
    BY <1>1, <2>2, FS_Subset
<1>3. PICK m \in Nat : m = Cardinality(Starts(s))
  BY <1>2, FS_CardinalityType
<1>4. PICK w : w = Words(s)
  OBVIOUS
<1>5. w = [n \in 1..m |-> w[n]]
  BY <1>3, <1>4 DEF Words
<1>6. ASSUME NEW n \in 1..m PROVE w[n] \in Seq(Bytes)
  <2>1. n \in DOMAIN Words(s)
    BY <1>4, <1>5
  <2> QED
    BY <1>4, <2>1, WordPieces
<1>7. w \in Seq(Seq(Bytes))
  BY <1>5, <1>6
<1> QED
  BY <1>4, <1>7

(* A completion that finds something draws it; one that finds nothing      *)
(* leaves the Nul in the line and the terminal as it was.                  *)
LEMMA CompleteNameInv ==
    ASSUME LineInv, HistoryInv', CompleteName, history' = history, line # <<>>, branch' = "key"
    PROVE  LineInv'
<1>1. PICK found : found = Candidate(line)
  OBVIOUS
<1>2. /\ line \in Seq(Bytes) /\ strayed \in BOOLEAN /\ Len(line) \in Nat
      /\ terminal = [row |-> terminal.row, cursor |-> terminal.cursor, logged |-> terminal.logged]
      /\ terminal.cursor \in Nat /\ terminal.logged \in BOOLEAN
  BY DEF LineInv, LineShape
<1>3. PlacesHold'
  BY DEF LineInv, PlacesHold, Slots
<1>4. CASE found = <<>>
  <2>1. line' = Append(line, Nul) /\ strayed' = TRUE /\ terminal' = terminal
    BY <1>1, <1>4 DEF CompleteName
  <2>2. Append(line, Nul) \in Seq(Bytes)
    <3>1. Nul \in Bytes
      BY DEF Bytes
    <3> QED
      BY <1>2, <3>1
  <2>3. LineShape'
    BY <1>2, <2>1, <2>2 DEF LineShape
  <2>4. ~terminal.logged
    BY DEF LineInv, ScreenFollows
  <2>5. ScreenFollows'
    BY <2>1, <2>4 DEF ScreenFollows
  <2> QED
    BY <1>3, <2>3, <2>5 DEF LineInv
<1>5. CASE found # <<>>
  <2>1. Draw(found)
    BY <1>1, <1>5 DEF CompleteName
  <2>2. found \in Seq(Bytes)
    BY <1>1, <1>2, <1>5, CandidateCommon, LettersTyped
  <2> QED
    BY <1>3, <2>1, <2>2, DrawInv
<1> QED
  BY <1>4, <1>5

(* So does that of an argument. *)
LEMMA CompleteArgumentInv ==
    ASSUME LineInv, HistoryInv', CompleteArgument, history' = history, branch' = "key"
    PROVE  LineInv'
<1>1. PICK words : words = Words(line)
  OBVIOUS
<1>2. line \in Seq(Bytes)
  BY DEF LineInv, LineShape
<1>3. PlacesHold'
  BY DEF LineInv, PlacesHold, Slots
<1>4. words \in Seq(Seq(Bytes)) /\ Len(words) > 1
  BY <1>1, <1>2, WordsAreLines DEF CompleteArgument
<1>5. words[1] \in Seq(Bytes)
  BY <1>4
<1>6. PICK found \in (IF words[1] \in Completing THEN FirstMatch(words[2]) ELSE {<<>>}) :
          IF found = <<>> THEN UNCHANGED <<line, terminal, strayed>>
          ELSE Draw(words[1] \o <<Blank>> \o found)
  BY <1>1 DEF CompleteArgument
<1>7. CASE found = <<>>
  <2>1. line' = line /\ terminal' = terminal /\ strayed' = strayed
    BY <1>6, <1>7
  <2>2. LineShape' /\ ScreenFollows'
    BY <2>1 DEF LineInv, LineShape, ScreenFollows, ShowsText
  <2> QED
    BY <1>3, <2>2 DEF LineInv
<1>8. CASE found # <<>>
  <2>1. found \in Seq(Bytes)
    <3>1. found \in FirstMatch(words[2])
      BY <1>6, <1>8
    <3>2. \E i \in DOMAIN Entries : found = Entries[i]
      BY <1>8, <3>1 DEF FirstMatch
    <3>3. found \in Seq(Typed)
      BY <3>2, NamesAssumption
    <3> QED
      BY <3>3, LettersTyped
  <2>2. Blank \in Bytes
    BY BytesApart
  <2>3. words[1] \o <<Blank>> \o found \in Seq(Bytes)
    BY <1>5, <2>1, <2>2
  <2>4. Draw(words[1] \o <<Blank>> \o found)
    BY <1>6, <1>8
  <2> QED
    BY <1>3, <2>3, <2>4, DrawInv
<1> QED
  BY <1>7, <1>8

LEMMA TabInv == ASSUME LineInv, HistoryInv', Tab, branch' = "key" PROVE LineInv'
<1>1. history' = history
  BY DEF Tab
<1>2. CASE ListCommands
  <2>1. Draw(<<>>) /\ <<>> \in Seq(Bytes)
    BY <1>2 DEF ListCommands
  <2>2. PlacesHold'
    BY <1>1 DEF LineInv, PlacesHold, Slots
  <2> QED
    BY <2>1, <2>2, DrawInv
<1>3. CASE line # <<>> /\ CompleteName
  BY <1>1, <1>3, CompleteNameInv
<1>4. CASE CompleteArgument
  BY <1>1, <1>4, CompleteArgumentInv
<1> QED
  BY <1>2, <1>3, <1>4 DEF Tab

(* A recalled line is one of the saved ones. *)
LEMMA RecallInv ==
    ASSUME LineInv, HistoryInv', NEW p, history.count # 0 => p \in Slots, Recall(p), branch' = "key"
    PROVE  LineInv'
<1>1. CASE history.count = 0
  <2>1. line' = line /\ terminal' = terminal /\ strayed' = strayed /\ history' = history
    BY <1>1 DEF Recall
  <2> QED
    BY <2>1 DEF LineInv, LineShape, ScreenFollows, ShowsText, PlacesHold, Slots
<1>2. CASE history.count # 0
  <2>1. PICK saved : saved = history.slots[p]
    OBVIOUS
  <2>2. /\ history' = [history EXCEPT !.position = p]
        /\ IF saved = <<>> THEN UNCHANGED <<line, terminal, strayed>> ELSE Draw(saved)
    BY <1>2, <2>1 DEF Recall
  <2>3. saved \in Seq(Bytes \ {Nul}) /\ p \in Slots
    BY <1>2, <2>1 DEF LineInv, PlacesHold
  <2>4. history'.slots = history.slots /\ history'.position = p
    BY <2>2 DEF LineInv, HistoryInv, HistoryShape
  <2>5. PlacesHold'
    BY <2>3, <2>4 DEF LineInv, PlacesHold, Slots
  <2>6. CASE saved = <<>>
    BY <2>2, <2>5, <2>6 DEF LineInv, LineShape, ScreenFollows, ShowsText
  <2>7. CASE saved # <<>>
    <3>1. saved \in Seq(Bytes)
      BY <2>3
    <3> QED
      BY <2>2, <2>5, <2>7, <3>1, DrawInv
  <2> QED
    BY <2>6, <2>7
<1> QED
  BY <1>1, <1>2

(* next() and prev() stay within the slots. *)
LEMMA PositionsExist ==
    ASSUME LineInv, history.count # 0 PROVE NextPosition \in Slots /\ PrevPosition \in Slots
<1>1. PICK p \in Nat : p = history.position /\ p < HistorySize
  BY PlacesOfSlots DEF LineInv, PlacesHold, Slots
<1>2. PICK n \in Nat \ {0} : n = history.count
  BY NewestSlot DEF LineInv
<1>3. HistorySize \in Nat /\ HistorySize > 1
  BY PlacesOfSlots
<1>4. NextPosition = IF p + 1 \in {HistorySize, n} THEN 0 ELSE p + 1
  BY <1>1, <1>2 DEF NextPosition
<1>5. PrevPosition = (IF p = 0 THEN (IF n < HistorySize THEN n ELSE HistorySize) ELSE p) - 1
  BY <1>1, <1>2 DEF PrevPosition
<1> QED
  BY <1>1, <1>2, <1>3, <1>4, <1>5 DEF Slots

(* Enter saves what comes before a Nul and empties the line.               *)
LEMMA EnterInv == ASSUME LineInv, HistoryInv', Enter, branch' = "key" PROVE LineInv'
<1>1. /\ line' = <<>> /\ strayed' = FALSE
      /\ history' = history \/ history' = Save(line)
      /\ \/ terminal' = Prompted
         \/ terminal' = [Prompted EXCEPT !.logged = TRUE, !.row = <<"output">>]
  BY DEF Enter
<1>2. \/ terminal' = [row |-> Prompt, cursor |-> 0, logged |-> FALSE]
      \/ terminal' = [row |-> <<"output">>, cursor |-> 0, logged |-> TRUE]
  BY <1>1 DEF Prompted
<1>3. <<>> \in Seq(Bytes) /\ <<>> \in Seq(Typed) /\ Len(<<>>) = 0 /\ Prompt \o <<>> = Prompt
  BY DEF Prompt
<1>4. LineShape'
  <2>1. ASSUME NEW row, NEW logged \in BOOLEAN,
               terminal' = [row |-> row, cursor |-> 0, logged |-> logged]
        PROVE  LineShape'
    BY <1>1, <1>3, <2>1 DEF LineShape
  <2> QED
    BY <1>2, <2>1
<1>5. ScreenFollows'
  <2>1. CASE terminal' = [row |-> Prompt, cursor |-> 0, logged |-> FALSE]
    BY <1>1, <1>3, <2>1 DEF ScreenFollows, ShowsText
  <2>2. CASE terminal' = [row |-> <<"output">>, cursor |-> 0, logged |-> TRUE]
    <3>1. terminal'.logged
      BY <2>2
    <3> QED
      BY <1>1, <3>1 DEF ScreenFollows
  <2> QED
    BY <1>2, <2>1, <2>2
<1>6. PlacesHold'
  <2>1. CASE history' = history
    BY <2>1 DEF LineInv, PlacesHold, Slots
  <2>2. CASE history' = Save(line) /\ Fits(line)
    <3>1. PICK b : b = Before(line)
      OBVIOUS
    <3>2. b \in Seq(Bytes \ {Nul})
      BY <3>1, BeforeNul DEF LineInv, LineShape
    <3>3. PICK next : next = (history.count + 1) % HistorySize
      OBVIOUS
    <3>4. history' = [history EXCEPT !.count = @ + 1, !.slots[next] = b]
      BY <2>2, <3>1, <3>3 DEF Save
    <3>5. history'.position = history.position /\ history'.slots = [history.slots EXCEPT ![next] = b]
      BY <3>4 DEF LineInv, HistoryInv, HistoryShape
    <3>6. \A i \in Slots : history'.slots[i] = IF i = next THEN b ELSE history.slots[i]
      BY <3>5 DEF LineInv, HistoryInv, HistoryShape
    <3> QED
      BY <3>2, <3>5, <3>6 DEF LineInv, PlacesHold, Slots
  <2> QED
    BY <1>1, <2>1, <2>2 DEF Save
<1> QED
  BY <1>4, <1>5, <1>6 DEF LineInv

(* Every key leaves the terminal following the line. *)
LEMMA LineStep == LineInv /\ [ShellNext]_shellVars => LineInv'
<1> SUFFICES ASSUME LineInv, [ShellNext]_shellVars PROVE LineInv'
  OBVIOUS
<1>1. HistoryInv'
  BY HistoryStep DEF LineInv
<1>2. ASSUME NEW c \in Typed \cup Controls, ReadByte(c) PROVE LineInv'
  BY <1>1, <1>2, AppendInv DEF ReadByte, Key
<1>3. CASE ReadControl
  BY <1>1, <1>3, BackspaceInv, TabInv, EnterInv DEF ReadControl, Key
<1>4. CASE ReadEscape \/ ReadBracket \/ ReadOtherKey
  BY <1>1, <1>4 DEF ReadEscape, ReadBracket, ReadOtherKey, Key, LineInv, LineShape, ScreenFollows,
                    ShowsText, PlacesHold, Slots
<1>5. CASE ReadArrow
  <2>1. branch' = "key" /\ (Recall(NextPosition) \/ Recall(PrevPosition))
    BY <1>5 DEF ReadArrow, Key, Up, Down
  <2>2. history.count # 0 => NextPosition \in Slots /\ PrevPosition \in Slots
    BY PositionsExist
  <2> QED
    BY <1>1, <2>1, <2>2, RecallInv
<1>6. CASE UNCHANGED shellVars
  BY <1>1, <1>6 DEF shellVars, LineInv, LineShape, ScreenFollows, ShowsText, PlacesHold, Slots
<1> QED
  BY <1>2, <1>3, <1>4, <1>5, <1>6 DEF ShellNext

(* What the terminal shows of a line that did not stray, and the types.    *)
LEMMA LineShown == LineInv => ScreenShowsLine /\ ShellTypeOK
<1> SUFFICES ASSUME LineInv PROVE ScreenShowsLine /\ ShellTypeOK
  OBVIOUS
<1>1. ScreenShowsLine
  <2> SUFFICES ASSUME ~strayed, line # <<>>
               PROVE  /\ terminal.row \in {Prompt \o line, line}
                      /\ terminal.cursor = Len(line) /\ ~Stray(line)
    BY DEF ScreenShowsLine
  <2>1. ShowsText(terminal, line)
    BY DEF LineInv, ScreenFollows
  <2>2. line \in Seq(Bytes)
    BY DEF LineInv, LineShape
  <2> QED
    BY <2>1, <2>2, StrayFree DEF ShowsText
<1>2. ShellTypeOK
  <2>1. DOMAIN terminal = {"row", "cursor", "logged"}
    <3>1. PICK x, n, b : terminal = [row |-> x, cursor |-> n, logged |-> b]
      BY DEF LineInv, LineShape
    <3> QED
      BY <3>1
  <2>2. history.count \in Nat
    BY NewestSlot DEF LineInv
  <2> QED
    BY <2>1, <2>2 DEF LineInv, LineShape, PlacesHold, ShellTypeOK, Slots
<1> QED
  BY <1>1, <1>2

(* The name that Tab makes of a beginning. *)
LEMMA TabCompletes ==
    ASSUME LineInv, Tab, line' # line, Len(Words(line)) < 2, Matches(line) # {}
    PROVE  /\ \A i \in Matches(line) : IsPrefix(line', Commands[i])
           /\ \A c \in Letters : \E i \in Matches(line) : ~IsPrefix(Append(line', c), Commands[i])
           /\ IsPrefix(line, line')
<1>1. CompleteName /\ line # <<>>
  <2>1. ~ListCommands
    BY DEF ListCommands, Draw
  <2>2. ~CompleteArgument
    <3> SUFFICES ASSUME CompleteArgument PROVE FALSE
      OBVIOUS
    <3>1. Words(line) \in Seq(Seq(Bytes)) /\ Len(Words(line)) > 1
      BY WordsAreLines DEF LineInv, LineShape, CompleteArgument
    <3> QED
      BY <3>1
  <2> QED
    BY <2>1, <2>2 DEF Tab
<1>2. PICK s \in Seq(Bytes) : s = line
  BY DEF LineInv, LineShape
<1>3. PICK found : found = Candidate(s)
  OBVIOUS
<1>4. /\ found \in Seq(Letters) /\ IsPrefix(s, found)
      /\ \A i \in Matches(s) : IsPrefix(found, Commands[i])
      /\ \A c \in Letters : \E i \in Matches(s) : ~IsPrefix(Append(found, c), Commands[i])
  BY <1>2, <1>3, CandidateCommon
<1>5. found # <<>>
  <2>1. Len(s) <= Len(found) /\ Len(s) \in Nat /\ Len(s) # 0 /\ Len(<<>>) = 0
    <3>1. found \in Seq(Bytes)
      BY <1>4, LettersTyped
    <3>2. Len(s) <= Len(found)
      BY <1>4, <3>1, PrefixLetters
    <3> QED
      BY <1>1, <1>2, <3>2
  <2> QED
    BY <2>1
<1>6. line' = found
  BY <1>1, <1>2, <1>3, <1>5 DEF CompleteName, Draw
<1> QED
  BY <1>2, <1>4, <1>6

(*---------------------------- All four together --------------------------*)

(* One part of the console moves at a time, and the others stay.           *)
LEMMA PartsMove ==
    [Next]_consoleVars => /\ [ShellNext]_shellVars /\ [JoyNext]_joyVars
                          /\ [PanelNext]_panelVars /\ [RtcNext]_rtcVars
  BY DEF Next, consoleVars

(* The console behaves as each of its parts: the shell, the joystick with  *)
(* the LED, the display and the clock share no variable.                   *)
THEOREM ConsoleParts ==
    Spec => /\ ShellSpec /\ JoySpec /\ RtcSpec
            /\ PanelInit /\ [][PanelNext]_panelVars
<1>1. Init => ShellInit /\ JoyInit /\ PanelInit /\ RtcInit
  BY DEF Init
<1> QED
  BY <1>1, PartsMove, PTL DEF Spec, ShellSpec, JoySpec, RtcSpec

(* The variables of the shell, the joystick, the display and the clock     *)
(* have their types, for any names, keys, tasks, times and dates: the      *)
(* routine stays at a line of its vector, recalled lines hold no Nul, and  *)
(* a year that lost its units or gained tens stays in its two digits.      *)
THEOREM ConsoleTypeCorrect == Spec => []ConsoleTypeOK
<1>1. JoyInit /\ [][JoyNext]_joyVars => []JoyInv
  BY JoyInitInv, JoyStep, PTL
<1>2. PanelInit /\ [][PanelNext]_panelVars => []PanelInv
  BY PanelInitInv, PanelStep, PTL
<1>3. RtcSpec => [](RtcInv /\ RtcHolds)
  <2>1. RtcInit => RtcInv /\ RtcHolds
    BY RtcInitInv, RtcInitHolds
  <2>2. RtcInv /\ RtcHolds /\ [RtcNext]_rtcVars => RtcInv' /\ RtcHolds'
    BY RtcStep, RtcStepHolds
  <2> QED
    BY <2>1, <2>2, PTL DEF RtcSpec
<1>4. ShellSpec => []LineInv
  BY LineInitInv, LineStep, PTL DEF ShellSpec
<1>5. JoyInv /\ PanelInv /\ RtcInv /\ RtcHolds /\ LineInv => ConsoleTypeOK
  BY RtcTypes, LineShown DEF JoyInv, PanelInv, ConsoleTypeOK
<1> QED
  BY <1>1, <1>2, <1>3, <1>4, <1>5, ConsoleParts, PTL DEF JoySpec

(* As long as every completion found something and no control byte got     *)
(* into the line since the row was last drawn, the row shows the line that *)
(* is edited, behind the prompt or on the row after the output of a        *)
(* program, and the cursor is at its end: for any names and any bytes,     *)
(* also those get() hands on after ESC (shell.hpp, refresh_inputline();    *)
(* shell_prompt.hpp, get()).                                               *)
THEOREM ScreenCorrect == Spec => []ScreenShowsLine
<1>1. LineInv => ScreenShowsLine
  BY LineShown
<1> QED
  BY <1>1, LineInitInv, LineStep, ConsoleParts, PTL DEF ShellSpec

(* A name that Tab completes becomes the longest beginning of all names    *)
(* that go on after what was typed, for any list of names of which none    *)
(* begins another, whichever of them the loop went over last.              *)
THEOREM CompletionCorrect == Spec => CompletesToCommonPrefix
<1>1. ShellSpec => []LineInv
  BY LineInitInv, LineStep, PTL DEF ShellSpec
<1>2. LineInv => [(Tab /\ line' # line /\ Len(Words(line)) < 2 /\ Matches(line) # {}) =>
          /\ \A i \in Matches(line) : IsPrefix(line', Commands[i])
          /\ \A c \in Letters : \E i \in Matches(line) : ~IsPrefix(Append(line', c), Commands[i])
          /\ IsPrefix(line, line')]_shellVars
  BY TabCompletes
<1>3. []LineInv => CompletesToCommonPrefix
  BY <1>2, PTL DEF CompletesToCommonPrefix
<1> QED
  BY <1>1, <1>3, ConsoleParts, PTL

(* No command for the LED or the panel is lost between the shell and the   *)
(* task that obeys: commands, keys, seconds and failing writes may meet in *)
(* any order.                                                              *)
THEOREM SignalsCorrect == Spec => []SignalsTakeEffect
<1>1. JoyInit /\ [][JoyNext]_joyVars => []JoyInv
  BY JoyInitInv, JoyStep, PTL
<1>2. PanelInit /\ [][PanelNext]_panelVars => []PanelInv
  BY PanelInitInv, PanelStep, PTL
<1>3. JoyInv => LedFollowsCommands
  <2> SUFFICES ASSUME JoyInv, sensor.pc = "wait", noted \cap Lights = {}, ~merged
               PROVE  led = wanted
    BY DEF LedFollowsCommands
  <2>1. sensor.got = {} /\ wanted = Lit(noted \cup sensor.got) /\ led \in BOOLEAN
    BY DEF JoyInv, LedFollows, JoyTypeOK
  <2>2. Lit(noted \cup sensor.got) = led
    BY <2>1 DEF Lit, Lights
  <2> QED
    BY <2>1, <2>2
<1>4. PanelInv => PanelFollowsCommands
  <2> SUFFICES ASSUME PanelInv, task.pc = "wait", bits = {}
               PROVE  status = (command = "on") /\ (~missed => lit = status)
    BY DEF PanelFollowsCommands
  <2>1. OnWay = {}
    BY DEF PanelInv, PanelFollows, OnWay
  <2> QED
    BY <2>1 DEF PanelInv, PanelFollows
<1> QED
  BY <1>1, <1>2, <1>3, <1>4, ConsoleParts, PTL DEF JoySpec, SignalsTakeEffect

(* A task that reads the clock undisturbed shows one instant: for any      *)
(* tasks, times and dates, whenever midnight passes, the oscillator stops  *)
(* or the clock is set before.                                             *)
THEOREM InstantCorrect == Spec => []ReadsOneInstant
<1>1. RtcInv => ReadsOneInstant
  BY DEF RtcInv, ReadsOneInstant
<1> QED
  BY <1>1, RtcInitInv, RtcStep, ConsoleParts, PTL DEF RtcSpec

(* However the lines were typed, completed or recalled, once a round of    *)
(* lines was entered the slots of the history are the last ones, for any   *)
(* number of slots; before that they hold nothing else.                    *)
THEOREM HistoryCorrect == Spec => []HistoryKeepsRecent
<1> QED
  BY HistoryInitInv, HistoryStep, SlotsAreRecent, ConsoleParts, PTL DEF ShellSpec
=============================================================================

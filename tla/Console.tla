------------------------------ MODULE Console ------------------------------
(***************************************************************************)
(* What a user handles: the shell, the joystick with the LED, the display, *)
(* the clock.  The commands of the shell reach the others at any moment,   *)
(* whatever line was typed: in a behaviour only one part moves.            *)
(***************************************************************************)
EXTENDS ShellLine, Joystick, Panel, Rtc

VARIABLE part   \* the one that moves

consoleVars == <<part, shellVars, joyVars, panelVars, rtcVars>>

Init == /\ part \in {"shell", "joystick", "panel", "clock"}
        /\ ShellInit /\ JoyInit /\ PanelInit /\ RtcInit
        /\ part # "clock" => running

Next == \/ part = "shell" /\ ShellNext /\ UNCHANGED <<part, joyVars, panelVars, rtcVars>>
        \/ part = "joystick" /\ JoyNext /\ UNCHANGED <<part, shellVars, panelVars, rtcVars>>
        \/ part = "panel" /\ PanelNext /\ UNCHANGED <<part, shellVars, joyVars, rtcVars>>
        \/ part = "clock" /\ RtcNext /\ UNCHANGED <<part, shellVars, joyVars, panelVars>>

Spec == /\ Init /\ [][Next]_consoleVars /\ JoyFairness
        /\ part = "panel" => PanelFairness

(* The variables of the four have their types. *)
ConsoleTypeOK == ShellTypeOK /\ JoyTypeOK /\ PanelTypeOK /\ RtcTypeOK

(* A signal to the sensor task or the display takes effect although others *)
(* arrive with it: of the commands for the LED and for the panel, none is  *)
(* lost between the task that gives it and the one that obeys.             *)
SignalsTakeEffect == LedFollowsCommands /\ PanelFollowsCommands
=============================================================================

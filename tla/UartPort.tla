------------------------------ MODULE UartPort ------------------------------
(***************************************************************************)
(* A UART with its two sides.  The receive interrupt is all they share,    *)
(* and each takes it for something that may come at any time: in a         *)
(* behaviour only one side moves.                                          *)
(***************************************************************************)
EXTENDS UartReceiver, UartTransmitter

VARIABLE side   \* the one that moves

portVars == <<side, vars, sendVars>>

PortInit == /\ side \in {"receive", "send"} /\ Init /\ SendInit
            /\ side = "receive" => complete

PortNext == \/ side = "receive" /\ Next /\ UNCHANGED <<side, sendVars>>
            \/ side = "send" /\ SendNext /\ UNCHANGED <<side, vars>>

PortSpec == /\ PortInit /\ [][PortNext]_portVars
            /\ \A r \in Readers : WF_vars(Read(r))
=============================================================================

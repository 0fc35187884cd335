--------------------------- MODULE MCEsp8266Link ---------------------------
(* Two links.  While timeouts are patient, enough commands for a connection*)
(* to be opened and closed twice with answers and events of both lives on  *)
(* the way; fewer when a timeout may pass at any moment.                   *)
EXTENDS Esp8266Link

MCMaxCalls == [i \in BOOLEAN |-> IF i THEN 2 ELSE 5]
=============================================================================

------------------------------ MODULE Library ------------------------------
(***************************************************************************)
(* Three sequential parts that the tasks call: the memory allocator, HTTP, *)
(* and what takes the lines of the WiFi module apart.  In a behaviour only *)
(* one of them moves.                                                      *)
(***************************************************************************)
EXTENDS HeapFreelist, HttpExchange, AtResponses

VARIABLE part   \* the one that moves

libraryVars == <<part, vars, httpVars, atVars>>

LibraryInit == /\ part \in {"heap", "http", "lines"} /\ Init /\ HttpInit /\ AtInit
               /\ part # "http" => role = "server"
               /\ part # "heap" => ~aligned

LibraryNext == \/ part = "heap" /\ Next /\ UNCHANGED <<part, httpVars, atVars>>
               \/ part = "http" /\ HttpNext /\ UNCHANGED <<part, vars, atVars>>
               \/ part = "lines" /\ AtNext /\ UNCHANGED <<part, vars, httpVars>>

LibrarySpec == LibraryInit /\ [][LibraryNext]_libraryVars /\ HttpFairness

(* The variables of the three have their types. *)
LibraryTypeOK == TypeOK /\ HttpTypeOK /\ AtTypeOK
=============================================================================

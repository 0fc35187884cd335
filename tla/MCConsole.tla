----------------------------- MODULE MCConsole -----------------------------
(* Names that have more and less of their beginning in common; a history   *)
(* of two lines, and three lines to go round it.                           *)
EXTENDS Console, MCRtc

MCLetters    == {"A", "B"}
MCCommands   == << <<"A", "B", "A", "A">>, <<"A", "B", "B", "A">>, <<"A", "B", "B", "B">>,
                   <<"B">> >>
MCCompleting == {<<"B">>}
MCEntries    == << <<"A">>, <<"A", "B", "A">> >>
=============================================================================

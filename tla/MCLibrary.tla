----------------------------- MODULE MCLibrary -----------------------------
(* The memory of MCHeapFreelist.  URLs with and without protocol, port and *)
(* path, one of them holding "://" again; messages with one field, two or  *)
(* none, with a length, in chunks, with a value that holds a colon or is   *)
(* empty.  Lines with events and answers, two of them alike at the end,    *)
(* two networks, and one that means nothing.                               *)
EXTENDS Library

MCRequests   == {1, 3}
MCAlignments == {1, 2}

F(n, v) == [name |-> n, value |-> v]
Host    == F(<<"H", "o">>, <<"a">>)
Long(n) == F(ContentLength, <<n>>)
Chunked == F(TransferEncoding, <<"c">>)
Colons  == F(<<"D", "a">>, <<"n1", ":", "n2">>)
Empty   == F(<<"E", "m">>, <<>>)

U(protocol, host, port, path) ==
    [protocol |-> protocol, host |-> host, port |-> port, path |-> path]
MCUrls == {U(p, <<"a", ".", "b">>, q, r) :
               p \in {"", "http", "https"}, q \in {<<>>, <<":", "n8080">>},
               r \in {<<>>, <<"/">>, <<"/", "g", ":", "/", "/", "x">>}}
          \cup {U("http", <<>>, <<>>, <<"/">>), U("", <<>>, <<>>, <<>>)}

Response(fields, body) == [fields |-> fields, body |-> body, code |-> 0]
MCResponses == {Response(<<Long("n2"), Host>>, <<"x", "y">>),
                Response(<<Host, Long("n1")>>, <<"x">>),
                Response(<<Host>>, <<>>), Response(<<>>, <<>>),
                Response(<<Colons, Host>>, <<>>),
                Response(<<Chunked>>, <<"x", "y">>)}

Asks(path, fields, body) == [path |-> <<"/", path>>, fields |-> fields, body |-> body]
MCAsked == {Asks("p", <<Host, Long("n2")>>, <<"x", "y">>), Asks("t", <<Host>>, <<>>),
            Asks("t", <<Long("n1")>>, <<"x">>), Asks("t", <<>>, <<>>),
            Asks("q", <<Colons, Empty>>, <<>>)}
MCReading == {<<"/", "p">>}

Whole(tokens) == tokens \o <<"CR", "LF">>
Network(name, mac, channel) ==
    Whole(<<"+CWLAP", ":", "(", "1", "comma", "quote", name, "quote", "comma", "80", "comma", "quote", mac,
            "quote", "comma", channel, "comma", "2", "comma", "1", "comma", "16", "comma", "2", "comma", "1", "comma", "1", ")">>)
MCLines == {Whole(<<"+IPD", "comma", "1", "comma", "16">>),
            <<"+IPD", "comma", "0", "comma", "2", "comma", "ip", "comma", "80", ":">>,
            Whole(<<"1", "comma", "CONNECT">>), Whole(<<"0", "comma", "CLOSED">>),
            Whole(<<"SEND", "OK">>), Whole(<<"SEND", "FAIL">>), Whole(<<"OK">>),
            Whole(<<"x", "y">>), Network("a", "m1", "16"), Network("b", "m2", "2")}
=============================================================================

---------------------------- MODULE HttpMessages ----------------------------
(***************************************************************************)
(* HTTP messages as text: how a URL is taken apart, how requests and       *)
(* responses are written, and how the header of a message is read.  A text *)
(* is a sequence of characters; a word of which the code never looks       *)
(* inside, such as a method or a number, is one character.                 *)
(***************************************************************************)
EXTENDS Naturals, FiniteSets, SequencesExt, FiniteSetsExt

CR == "\r"
LF == "\n"
Nul   == "nul"
Crlf  == <<CR, LF>>
White == {" ", "\t", CR}
EndOfHeader == Crlf \o Crlf

(* The numbers, and the fields the code knows by their name. *)
Number == [n1 |-> 1, n2 |-> 2, n200 |-> 200, n404 |-> 404, n8080 |-> 8080]
ContentLength    == <<"C", "L">>
TransferEncoding == <<"T", "E">>
Endless == 99   \* numeric_limits<size_t>::max()

(* The functions of string_view; zero is npos. *)
Least(S) == IF S = {} THEN 0 ELSE Min(S)
Most(S)  == IF S = {} THEN 0 ELSE Max(S)
Find(s, set, from)    == Least({i \in from..Len(s) : s[i] \in set})
FindNot(s, set, from) == Least({i \in from..Len(s) : s[i] \notin set})
FindText(s, t, from)  ==
    Least({i \in from..(Len(s) + 1 - Len(t)) : SubSeq(s, i, i + Len(t) - 1) = t})
Rest(s, from) == SubSeq(s, from, Len(s))

(* A set of numbers as a sequence. *)
Ascending(S) == [k \in 1..Cardinality(S) |->
                    CHOOSE i \in S : Cardinality({j \in S : j < i}) = k - 1]

(* string_to_integral(), or else what the caller takes instead. *)
Integral(s, else) == IF s # <<>> /\ s[1] \in DOMAIN Number THEN Number[s[1]] ELSE else

-----------------------------------------------------------------------------
(* url(). *)

PortOf == [http |-> 80, https |-> 443]
Protocol(word) == IF word = <<"https">> THEN "https" ELSE "http"

(* split_domain_name() *)
Domain(name, port) ==
    LET colon == Most({i \in DOMAIN name : name[i] = ":"})
    IN  IF colon = 0 THEN [host |-> name, port |-> port]
        ELSE [host |-> SubSeq(name, 1, colon - 1),
              port |-> Integral(Rest(name, colon + 1), port)]

Path(u, slash) ==
    LET last == Most({i \in DOMAIN u : u[i] \notin White \cup {LF}})
    IN  IF slash = 0 THEN <<"/">> ELSE SubSeq(u, slash, last)

Url(u) ==
    LET begin    == FindNot(u, White \cup {LF}, 1)
        suffix   == FindText(u, <<":", "/", "/">>, begin)
        protocol == IF suffix = 0 THEN "http" ELSE Protocol(SubSeq(u, begin, suffix - 1))
        start    == IF suffix = 0 THEN begin ELSE suffix + 3
        slash    == Find(u, {"/"}, start)
        domain   == Domain(SubSeq(u, start, IF slash = 0 THEN Len(u) ELSE slash - 1),
                           PortOf[protocol])
    IN  IF begin = 0 THEN [protocol |-> "http", host |-> <<>>, port |-> 80, path |-> <<>>]
        ELSE [protocol |-> protocol, host |-> domain.host, port |-> domain.port,
              path |-> Path(u, slash)]

-----------------------------------------------------------------------------
(* Writing: a start line, the fields, an empty line, the body. *)

Version(protocol) == <<IF protocol = "https" THEN "HTTPS" ELSE "HTTP", "/", "1.", "n1">>
FieldLine(f) == f.name \o <<":", " ">> \o f.value \o Crlf

Text(start, fields, body) ==
    start \o Crlf \o FlattenSeq([i \in DOMAIN fields |-> FieldLine(fields[i])]) \o Crlf \o body

(* request_view::write() *)
RequestText(method, url, fields) ==
    Text(<<method, " ">> \o url.path \o <<" ">> \o Version(url.protocol), fields, <<>>)

(* response_view::write(): the length is told if there is a body. *)
LengthField(body) ==
    IF body = <<>> THEN <<>>
    ELSE << [name |-> ContentLength, value |-> <<IF Len(body) = 1 THEN "n1" ELSE "n2">>] >>
ResponseText(code, body) ==
    Text(Version("http") \o <<" ", code, " ", "reason">>, LengthField(body), body)

-----------------------------------------------------------------------------
(* Reading: parse::header, which takes a header byte by byte. *)

Ended(buffer)  == IsSuffix(EndOfHeader, buffer)
Cleared(buffer) == IF Ended(buffer)
                   THEN SubSeq(buffer, 1, Len(buffer) - 4) \o <<Nul, Nul, Nul, Nul>>
                   ELSE buffer

(* fields_string() and field_count() *)
FieldLines(text) == LET end == FindText(text, Crlf, 1)
                    IN  IF end = 0 THEN <<>> ELSE Rest(text, end + 2)
Count(lines) == Cardinality({i \in DOMAIN lines : lines[i] = ":"})

(* Mutant of NextLine: the line feed is taken for a part of the next line. *)
NextLineFed(ends, k) ==
    IF k = 1 THEN 1 ELSE IF k <= Len(ends) + 1 THEN ends[k - 1] + 1
    ELSE (IF ends = <<>> THEN 1 ELSE Last(ends) + 1) + (k - Len(ends) - 1)

(* Where finalize() looks for field k.  The last line of a header has no   *)
(* end of its own: what follows it is the same line without its first      *)
(* character, and so on.                                                   *)
NextLine(ends, k) ==
    IF k = 1 THEN 1 ELSE IF k <= Len(ends) + 1 THEN ends[k - 1] + 2
    ELSE (IF ends = <<>> THEN 1 ELSE Last(ends) + 2) + (k - Len(ends) - 1)

(* The fields: as many as there are colons, in whatever they stand, unless *)
(* a line has no colon or nothing behind it.  A value that would begin     *)
(* behind the end of its line, or has no end, goes on to the end.          *)
Fields(lines) ==
    LET ends  == Ascending({i \in 1..(Len(lines) - 1) : SubSeq(lines, i, i + 1) = Crlf})
        Colon(k) == Find(lines, {":"}, NextLine(ends, k))
        Start(k) == FindNot(lines, White, Colon(k) + 1)
        found == {k \in 1..Count(lines) : Colon(k) # 0 /\ Start(k) # 0}
        Value(k) == LET end == IF k <= Len(ends) THEN ends[k] ELSE 0
                    IN  IF end < Start(k) THEN Rest(lines, Start(k))
                        ELSE SubSeq(lines, Start(k), end - 1)
    IN  [k \in 1..Cardinality(found) |->
            [name |-> SubSeq(lines, NextLine(ends, k), Colon(k) - 1), value |-> Value(k)]]

(* start_line(): nothing without "HTTP/1.", and no status without a space  *)
(* behind the number; zero stands for neither.                             *)
Methods == {"GET", "POST"}
Method(text) == LET end == Find(text, White, 1)
                IN  IF end > 1 /\ text[1] \in Methods THEN text[1] ELSE ""
NoStart == [method |-> "", version |-> 0, status |-> 0]
StartLine(text) ==
    LET line    == SubSeq(text, 1, FindText(text, Crlf, 1) - 1)
        version == FindText(line, <<"HTTP", "/", "1.">>, 1) + 3
        end     == Find(line, White, version)
        start   == IF end = 0 THEN 0 ELSE FindNot(line, White, end)
        told    == start # 0 /\ Find(line, White, start) # 0
    IN  IF version = 3 \/ Integral(Rest(line, version), 0) = 0 THEN NoStart
        ELSE [method |-> Method(text), version |-> Integral(Rest(line, version), 0),
              status |-> IF told THEN Integral(Rest(line, start), 0) ELSE 0]

(* uri(): from the first slash to the next white space. *)
Uri(text) == LET slash == Find(text, {"/"}, 1)
                 end   == IF slash = 0 THEN 0 ELSE Find(text, White, slash)
             IN  IF end = 0 THEN <<>> ELSE SubSeq(text, slash, end - 1)

(* finalize(): a header without a field is not taken for a message. *)
Valid(buffer)   == Count(FieldLines(Cleared(buffer))) # 0
Message(buffer) == LET text == Cleared(buffer)
                   IN  [uri |-> Uri(text), start |-> StartLine(text),
                       fields |-> Fields(FieldLines(text))]

(* content_length(): as the first field has it that tells of the length. *)
Length(fields) ==
    LET telling == {i \in DOMAIN fields : fields[i].name \in {ContentLength, TransferEncoding}}
        f       == fields[Least(telling)]
    IN  IF telling = {} THEN 0
        ELSE IF f.name = TransferEncoding THEN Endless ELSE Integral(f.value, 0)
=============================================================================

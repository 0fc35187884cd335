---------------------------- MODULE HttpExchange ----------------------------
(***************************************************************************)
(* HTTP over one connection.  As a client the firmware opens a socket for  *)
(* a URL, writes its request, reads the header of the response and hands   *)
(* the message to the command, which reads the body (write(), the command  *)
(* wifi-http-get).  As a server it looks every 300 ms whether bytes have   *)
(* come, reads the header of a request, lets the handler of its path read  *)
(* the body, and writes the response (try_serve(), whose task the          *)
(* repository defines but does not start).                                 *)
(***************************************************************************)
EXTENDS HttpMessages

CONSTANTS Urls,        \* the URLs of the requests, by their parts
          Responses,   \* what the server answers: fields and body
          Asked,       \* what clients ask for: path, fields and body
          MaxRequests, \* bound: the requests of the client
          Reading      \* the paths whose handlers read the body

ASSUME HttpAssumption == MaxRequests \in Nat

VARIABLES role,    \* "client" or "server"
          wire,    \* the bytes of the peer that are not read yet
          linked,  \* is_connected()
          buffer,  \* m_buffer of the parser
          loop,    \* where the routine is, and the bytes of the body to read
          message, \* the message that was read, and what was read of its body
          peer,    \* history: what the peer sent: the messages
          served,  \* history: the messages that were handed on
          faults   \* history: late: the routine did not wait for a byte that
                   \* came; stray: bytes of a body were not read

httpVars == <<role, wire, linked, buffer, loop, message, peer, served, faults>>

NoMessage == [uri |-> <<>>, start |-> NoStart, fields |-> <<>>, body |-> <<>>]

(* A URL as a text: the protocol and the port may be left out. *)
UrlText(u) == (IF u.protocol = "" THEN <<>> ELSE <<u.protocol, ":", "/", "/">>)
              \o u.host \o u.port \o u.path
HttpInit ==
    /\ role \in {"client", "server"}
    /\ wire = <<>> /\ buffer = <<>> /\ message = NoMessage
    /\ loop = [pc |-> IF role = "client" THEN "open" ELSE "poll", left |-> 0]
    /\ linked = (role = "server")
    /\ peer = <<>> /\ served = <<>> /\ faults = [late |-> FALSE, stray |-> FALSE]

Go(pc) == loop' = [loop EXCEPT !.pc = pc]

-----------------------------------------------------------------------------
(* The client. *)

(* The socket is opened, or not, and not without a host; what is written   *)
(* may get lost, unseen, and is then never answered.                       *)
Open == \E u \in Urls :
    LET url == Url(UrlText(u)) IN
    /\ loop.pc = "open"
    /\ \/ Go("done") /\ UNCHANGED <<linked, peer>>
       \/ /\ url.host # <<>> /\ Go("read") /\ linked' = TRUE
          /\ peer' = <<[asked |-> u, host |-> url.host, port |-> url.port,
                        text |-> RequestText("GET", url, <<>>)]>>
    /\ UNCHANGED <<role, wire, buffer, message, served, faults>>

(* The server answers once, and may close the connection whenever it will; *)
(* another of these devices answers with response_view::write().           *)
Respond ==
    /\ role = "client" /\ linked /\ Len(peer) = 1
    /\ \E r \in Responses, code \in {"n200", "n404"} :
          \/ /\ wire' = wire \o Text(Version("http") \o <<" ", code, " ", "reason">>,
                                     r.fields, r.body)
             /\ peer' = Append(peer, [r EXCEPT !.code = Number[code]])
          \/ /\ wire' = wire \o ResponseText(code, r.body)
             /\ peer' = Append(peer, [r EXCEPT !.code = Number[code], !.fields = LengthField(r.body)])
    /\ UNCHANGED <<role, linked, buffer, loop, message, served, faults>>

Close == /\ role = "client" /\ linked /\ linked' = FALSE
         /\ UNCHANGED <<role, wire, buffer, loop, message, peer, served, faults>>

(* A byte, or five seconds without one; then whether there still is a link.*)
Receive(pc) == /\ wire # <<>> /\ wire' = Tail(wire)
               /\ buffer' = Append(buffer, Head(wire))
               /\ Go(IF Ended(buffer') THEN "take" ELSE pc)

(* Mutant of ReadResponse: goes on until the header is complete. *)
ReadResponseOn ==
    /\ loop.pc = "read"
    /\ \/ Receive("read")
       \/ wire = <<>> /\ UNCHANGED <<wire, buffer, loop>>
    /\ faults' = [faults EXCEPT !.late = loop'.pc = "take" /\ ~Ended(buffer')]
    /\ UNCHANGED <<role, linked, message, peer, served>>

ReadResponse ==
    /\ loop.pc = "read"
    /\ \/ Receive(IF linked THEN "read" ELSE "take")
       \/ wire = <<>> /\ Go(IF linked THEN "read" ELSE "take") /\ UNCHANGED <<wire, buffer>>
    /\ faults' = [faults EXCEPT !.late = loop'.pc = "take" /\ ~Ended(buffer')]
    /\ UNCHANGED <<role, linked, message, peer, served>>

(* A response without a length is the end, and the socket is closed; the   *)
(* socket stays open behind a header that is no message, and behind a body.*)
TakeResponse ==
    \E response \in {Message(buffer)} :
      LET length == Length(response.fields) IN
        /\ role = "client" /\ loop.pc = "take"
        /\ loop' = [pc |-> IF Valid(buffer) /\ length > 0 THEN "body" ELSE "done", left |-> length]
        /\ linked' = (linked /\ ~(Valid(buffer) /\ length = 0))
        /\ message' = IF Valid(buffer) THEN response @@ [body |-> <<>>] ELSE message
        /\ served' = IF Valid(buffer) THEN <<response>> ELSE served
        /\ UNCHANGED <<role, wire, buffer, peer, faults>>

-----------------------------------------------------------------------------
(* The server. *)

Ask == \E r \in Asked :
    /\ role = "server" /\ Len(peer) < MaxRequests /\ peer' = Append(peer, r)
    /\ wire' = wire \o Text(<<"GET", " ">> \o r.path \o <<" ">> \o Version("http"),
                            r.fields, r.body)
    /\ UNCHANGED <<role, linked, buffer, loop, message, served, faults>>

(* try_serve(): each time with a new parser. *)
Poll == /\ loop.pc = "poll" /\ wire # <<>> /\ Go("head") /\ buffer' = <<>>
        /\ UNCHANGED <<role, wire, linked, message, peer, served, faults>>

ReadRequest == /\ loop.pc = "head" /\ Receive("head")
               /\ UNCHANGED <<role, linked, message, peer, served, faults>>

(* The byte comes after more than five seconds: what was read is lost.     *)
GiveUp == /\ loop.pc = "head" /\ (wire = <<>> \/ ~faults.late)
          /\ Go("poll") /\ faults' = [faults EXCEPT !.late = TRUE]
          /\ UNCHANGED <<role, wire, linked, buffer, message, peer, served>>

(* The router looks for the path; only some handlers read the body, and    *)
(* nobody does if there is no handler.                                     *)
Reads(request) == request.uri \in Reading /\ Length(request.fields) > 0

TakeRequest ==
    LET request == Message(buffer)
        length  == Length(request.fields)
        reads   == Reads(request)
    IN  /\ role = "server" /\ loop.pc = "take"
        /\ IF Valid(buffer)
           THEN /\ loop' = [pc |-> IF reads THEN "body" ELSE "answer", left |-> length]
                /\ message' = request @@ [body |-> <<>>]
                /\ faults' = [faults EXCEPT !.stray = @ \/ (length > 0 /\ ~reads)]
           ELSE Go("poll") /\ UNCHANGED <<message, faults>>
        /\ UNCHANGED <<role, wire, linked, buffer, peer, served>>

Answer == /\ loop.pc = "answer" /\ Go("poll") /\ served' = Append(served, message)
          /\ UNCHANGED <<role, wire, linked, buffer, message, peer, faults>>

-----------------------------------------------------------------------------
(* The body, of either: as many bytes as the header tells, with a zero for *)
(* one that does not come within the time of the socket.                   *)
ReadBody ==
    /\ loop.pc = "body"
    /\ \/ /\ wire # <<>> /\ wire' = Tail(wire)
          /\ message' = [message EXCEPT !.body = Append(@, Head(wire))] /\ UNCHANGED faults
       \/ /\ wire = <<>> /\ faults' = [faults EXCEPT !.late = TRUE] /\ UNCHANGED wire
          /\ message' = IF loop.left = Endless THEN message
                        ELSE [message EXCEPT !.body = Append(@, Nul)]
    /\ loop' = IF loop.left = Endless THEN loop
               ELSE [left |-> loop.left - 1,
                     pc   |-> IF loop.left > 1 THEN "body"
                              ELSE IF role = "client" THEN "done" ELSE "answer"]
    /\ UNCHANGED <<role, linked, buffer, peer, served>>

ClientReads == Open \/ ReadResponse \/ (role = "client" /\ ReadBody)
Server == Poll \/ ReadRequest \/ GiveUp \/ TakeRequest \/ Answer \/ (role = "server" /\ ReadBody)
HttpNext == ClientReads \/ TakeResponse \/ Server \/ Respond \/ Close \/ Ask

(* The shell runs the command: it goes on reading, and finalize() returns. *)
(* The peer does what it will.                                             *)
HttpFairness == /\ WF_httpVars(ClientReads)
                /\ (role = "client" /\ loop.pc = "take") ~> (loop.pc # "take")
HttpSpec == HttpInit /\ [][HttpNext]_httpVars /\ HttpFairness

-----------------------------------------------------------------------------
(* What is checked. *)

(* The variables have their types. *)
HttpTypeOK ==
    /\ role \in {"client", "server"} /\ linked \in BOOLEAN
    /\ loop.pc \in {"open", "read", "poll", "head", "take", "answer", "body", "done"}
    /\ loop.left \in {0, 1, 2, Endless}
    /\ Len(peer) <= (IF role = "client" THEN 2 ELSE MaxRequests)
    /\ faults \in [late : BOOLEAN, stray : BOOLEAN]

(* A message that finalize() reads well: it has a field, no value is empty *)
(* or holds a colon, and the body is as long as the header tells.          *)
Plain(m) == /\ m.fields # <<>>
            /\ \A i \in DOMAIN m.fields : /\ m.fields[i].value # <<>>
                                          /\ ":" \notin ToSet(m.fields[i].value)
            /\ Length(m.fields) = Len(m.body)

Readable(fields) == [i \in DOMAIN fields |->
    [name |-> fields[i].name, value |-> SelectSeq(fields[i].value, LAMBDA c : c # Nul)]]

(* Between plain messages the reader never falls out of step: what the     *)
(* handlers of the server get, and what the command gets of a response, is *)
(* what was sent, field by field and with its body, one message after the  *)
(* other; unless a byte came too late, the connection was closed early, or *)
(* a handler left a body unread, which is then read as the next request.   *)
MessagesReadAsSent ==
    /\ role = "server" /\ ~faults.late /\ ~faults.stray /\ (\A i \in DOMAIN peer : Plain(peer[i])) =>
          /\ Len(served) <= Len(peer)
          /\ \A i \in DOMAIN served : /\ served[i].uri = peer[i].path
                                      /\ served[i].start.method = "GET"
                                      /\ Readable(served[i].fields) = peer[i].fields
                                      /\ peer[i].path \in Reading => served[i].body = peer[i].body
          /\ loop.pc = "poll" /\ wire = <<>> => Len(served) = Len(peer)
    /\ role = "client" /\ ~faults.late /\ Len(peer) = 2 /\ Plain(peer[2]) =>
          /\ loop.pc = "body" \/ (loop.pc = "done" /\ wire # <<>>) => served # <<>>
          /\ served # <<>> => /\ Readable(message.fields) = peer[2].fields
                              /\ message.start.status = peer[2].code
          /\ served # <<>> /\ loop.pc = "done" => message.body = peer[2].body

(* A URL is taken apart into what it was made of, with the port of its     *)
(* protocol unless it names one, and the request asks for its path; unless *)
(* the protocol is left out and "://" stands further on.                   *)
UrlTakenApart ==
    role = "client" /\ peer # <<>> =>
        LET u == peer[1].asked IN
        (u.protocol # "" \/ FindText(u.path, <<":", "/", "/">>, 1) = 0) =>
            /\ peer[1].host = u.host
            /\ peer[1].port = Integral(Rest(u.port, 2), PortOf[Protocol(<<u.protocol>>)])
            /\ Uri(peer[1].text) = IF u.path = <<>> THEN <<"/">> ELSE u.path

(* What is cut out of a text by positions, a URL or a message, is what was *)
(* put into it.                                                            *)
HttpReadAsSent == UrlTakenApart /\ MessagesReadAsSent

(* The command wifi-http-get ends: when the peer closes, when the header   *)
(* tells a length, and with a zero for each byte that does not come; but   *)
(* not for a peer that keeps the connection and answers nothing, nor with  *)
(* a body in chunks, whose length nobody tells.                            *)
CommandEnds == \/ <>(role = "server" \/ loop.pc = "done" \/ loop.left = Endless)
               \/ <>[](linked /\ loop.pc = "read")
=============================================================================

---------------------------- MODULE AtResponses ----------------------------
(***************************************************************************)
(* How a task takes the lines of the ESP8266 module apart: wait() pushes   *)
(* what it reads into a ring buffer, compares the end of it with the rows  *)
(* of the response table and queues what was not asked for; the parser of  *)
(* +IPD takes over in the middle of a line, and that of +CWLAP while the   *)
(* access points are listed.  A line is a sequence of tokens: a row of the *)
(* table ends where a token ends, except that "OK" also ends "SEND OK".    *)
(***************************************************************************)
EXTENDS Naturals, Sequences, FiniteSets, SequencesExt

CONSTANTS RingSize,  \* the 128 characters of the ring buffer, in tokens
          Lines,     \* what the module may say
          MaxLines   \* bound: how many lines it says

ASSUME AtAssumption == RingSize \in Nat /\ RingSize >= 5 /\ MaxLines \in Nat

(* What the module may say: an event or an answer of the table, any other  *)
(* line, or a network.  The data of a packet follows its colon and is not  *)
(* read here.  No field holds a separator or the word of an event.         *)
Ends        == {"CR", "LF"}
Keywords    == {"+IPD", "+CWLAP", "CONNECT", "CLOSED"}
Punctuation == Ends \cup {"+CWLAP", ":", "(", ")", "comma", "quote"}
Digits      == {"0", "1", "2", "16", "80"}

Without(l, from, to, tokens) == \A k \in from..to : l[k] \notin tokens

IsConnection(l) ==
    \E link \in {"0", "1"}, word \in {"CONNECT", "CLOSED"} :
        l = <<link, "comma", word, "CR", "LF">>

IsPacket(l) ==
    /\ Len(l) >= 7 /\ l[1] = "+IPD" /\ l[2] = "comma" /\ l[4] = "comma"
    /\ l[3] \in Digits /\ l[5] \in Digits
    /\ \/ Len(l) = 7 /\ l[6] = "CR" /\ l[7] = "LF"
       \/ /\ l[6] = "comma" /\ l[Len(l)] = ":"
          /\ Without(l, 7, Len(l) - 1, Ends \cup Keywords \cup {":"})

(* The commas, and the fields, among the first k tokens of a network. *)
CommasIn(l, k) == Cardinality({j \in 1..k : l[j] = "comma"})
FieldsIn(l, k) == Cardinality({j \in 1..k : l[j] \notin Punctuation})
IsNetwork(l) ==
    LET n == Len(l) IN
    /\ n >= 6 /\ l[1] = "+CWLAP" /\ l[2] = ":" /\ l[3] = "("
    /\ l[n - 2] = ")" /\ l[n - 1] = "CR" /\ l[n] = "LF"
    /\ Without(l, 4, n - 3, Ends \cup Keywords \cup {":", "(", ")"})
    /\ CommasIn(l, n) <= 10   \* eleven fields
    /\ \A k \in 4..(n - 3) :
           l[k] # "quote" => FieldsIn(l, k) = CommasIn(l, k) + (IF l[k] = "comma" THEN 0 ELSE 1)

IsOther(l) ==
    /\ Len(l) >= 2 /\ l[Len(l) - 1] = "CR" /\ l[Len(l)] = "LF"
    /\ Without(l, 1, Len(l) - 2, Ends \cup Keywords)

ASSUME LinesAssumption ==
    /\ Lines \subseteq Seq(STRING)
    /\ \A l \in Lines : IsConnection(l) \/ IsPacket(l) \/ IsNetwork(l) \/ IsOther(l)

VARIABLES serial,     \* the lines under way: the whole, and what is left to read
          reading,    \* the task: pc, and what it expects
          ring,       \* the ring buffer of wait()
          parser,     \* the parser at work: fields seen, text of the next
          ap,         \* the one record that list() fills again and again
          queue,      \* m_unsolicited_responses, those that carry a number
          saidEvents, \* history: the events the module announced
          said,       \* history: how many lines the module said
          cut,        \* history: a timeout passed in the middle of a line
          misread     \* history: a network was shown other than it was listed

atVars == <<serial, reading, ring, parser, ap, queue, saidEvents, said, cut, misread>>

-----------------------------------------------------------------------------
(* The ring buffer. *)

EmptyRing   == [data |-> [i \in 0..RingSize - 1 |-> ""], size |-> 0, front |-> 0]
BackIndex(r) == (r.front + r.size) % RingSize

(* Mutant of IncreaseSize: the front stays where it is. *)
IncreaseSizeOnly(r) == IF r.size < RingSize THEN [r EXCEPT !.size = @ + 1] ELSE r
IncreaseSize(r) == IF r.size < RingSize THEN [r EXCEPT !.size = @ + 1]
                   ELSE [r EXCEPT !.front = (@ + 1) % RingSize]

PushBack(r, t)  == IncreaseSize([r EXCEPT !.data[BackIndex(r)] = t])
FromBack(r, i)  == r.data[(r.front + r.size - i) % RingSize]

(* response::equals(), from the back. *)
EndsWith(r, text) ==
    /\ Len(text) <= r.size
    /\ \A i \in 1..Len(text) : text[Len(text) + 1 - i] = FromBack(r, i)

-----------------------------------------------------------------------------
(* The rows the lines can end with, in the order of the table. *)

Row(code, text) == [code |-> code, text |-> text]
LineRow(code, text) == Row(code, text \o <<"CR", "LF">>)
Table ==
    << LineRow("send_ok", <<"SEND", "OK">>), LineRow("ok", <<"OK">>), Row("ready_to_write", <<">">>),
       LineRow("fail", <<"FAIL">>), LineRow("error", <<"ERROR">>), LineRow("send_fail", <<"SEND", "FAIL">>),
       LineRow("network_connected", <<"1", "comma", "CONNECT">>), LineRow("network_connected", <<"0", "comma", "CONNECT">>),
       LineRow("network_disconnected", <<"0", "comma", "CLOSED">>), LineRow("network_disconnected", <<"1", "comma", "CLOSED">>),
       Row("incoming_packet_data", <<"+IPD", "comma">>), Row("query_access_point", <<"+CWLAP", ":">>) >>

NumberOf(text) == IF text # <<>> /\ Head(text) \in {"1", "2", "16", "80"} THEN Head(text) ELSE "0"
Event(code, link, count) == [code |-> code, link |-> link, count |-> count]

(* What a line announces, to a reader of the AT commands. *)
Announced(line) ==
    CASE Head(line) = "+IPD"        -> << Event("incoming_packet_data", line[3], line[5]) >>
      [] Contains(line, "CONNECT")  -> << Event("network_connected", Head(line), "0") >>
      [] Contains(line, "CLOSED")   -> << Event("network_disconnected", Head(line), "0") >>
      [] OTHER                      -> << >>

-----------------------------------------------------------------------------
Token == Head(Head(serial).left)
LeftOver == IF Len(Head(serial).left) = 1 THEN Tail(serial)
        ELSE <<[Head(serial) EXCEPT !.left = Tail(@)]>> \o Tail(serial)

Read == serial # <<>> /\ serial' = LeftOver /\ UNCHANGED <<saidEvents, said, cut>>

Answers == {"ok", "error", "fail"}

(* A task calls wait(), or list(). *)
Wait ==
    /\ reading.pc = "idle"
    /\ \E asked \in {{}, Answers, {"send_ok", "send_fail"}} :
          reading' = [pc |-> "wait", expects |-> asked]
    /\ UNCHANGED <<serial, ring, parser, ap, queue, saidEvents, said, cut, misread>>

ApFields == 1..11   \* of a network: encryption, name, strength, MAC, channel, ...
Unknown == [f \in ApFields |-> <<"0">>]

List ==
    /\ reading.pc = "idle"
    /\ reading' = [pc |-> "wait", expects |-> Answers \union {"query_access_point"}]
    /\ UNCHANGED <<serial, ring, parser, ap, queue, saidEvents, said, cut, misread>>

(* A parser and the buffer of wait() begin empty; the record of list()     *)
(* lasts until it returns.                                                 *)
NoParser == [fields |-> <<>>, text |-> <<>>]
Parse(pc) == reading' = [reading EXCEPT !.pc = pc] /\ UNCHANGED ap
Return == /\ reading' = [pc |-> "idle", expects |-> {}]
          /\ ring' = EmptyRing /\ parser' = NoParser /\ ap' = Unknown

(* wait() reads one token more: the first row the ring ends with decides.  *)
Match ==
    /\ reading.pc = "wait" /\ Read
    /\ LET pushed == PushBack(ring, Token)
           row    == SelectInSeq(Table, LAMBDA r : EndsWith(pushed, r.text))
           code   == IF row = 0 THEN "none" ELSE Table[row].code
       IN \/ /\ code \in reading.expects /\ code = "query_access_point"
             /\ Parse("network") /\ ring' = EmptyRing /\ UNCHANGED <<parser, queue>>
          \/ /\ code \in reading.expects /\ code # "query_access_point"
             /\ Return /\ UNCHANGED queue
          \/ /\ code \notin reading.expects /\ ring' = pushed
             /\ \/ code = "incoming_packet_data" /\ Parse("packet") /\ UNCHANGED <<parser, queue>>
                \/ /\ code \in {"network_connected", "network_disconnected"}
                   /\ queue' = Append(queue, Event(code, Head(Table[row].text), "0"))
                   /\ UNCHANGED <<reading, parser, ap>>
                \/ /\ code \notin {"incoming_packet_data", "network_connected",
                                   "network_disconnected"}
                   /\ UNCHANGED <<reading, parser, ap, queue>>
    /\ UNCHANGED misread

(* The parser of +IPD: a separator ends a field, a colon or the end of the *)
(* line the last.  With fewer than two fields parse() returns the value    *)
(* that an empty expected holds, two zeros, and no error.                  *)
Noted(p) == [fields |-> Append(p.fields, NumberOf(p.text)), text |-> <<>>]

Packet(p) == IF Len(p.fields) < 2 THEN Event("incoming_packet_data", "0", "0")
             ELSE Event("incoming_packet_data", p.fields[1], p.fields[2])

PacketToken ==
    /\ reading.pc = "packet" /\ Read
    /\ \/ /\ Token \in {":", "CR"}
          /\ queue' = Append(queue, Packet(Noted(parser)))
          /\ Parse("wait") /\ parser' = NoParser
       \/ /\ Token = "comma" /\ parser' = Noted(parser) /\ UNCHANGED <<queue, reading, ap>>
       \/ /\ Token \notin {":", "CR", "comma"}
          /\ parser' = [parser EXCEPT !.text = Append(@, Token)]
          /\ UNCHANGED <<queue, reading, ap>>
    /\ UNCHANGED <<ring, misread>>

(* The parser of +CWLAP.  It keeps the opening bracket with the first      *)
(* field, whose number is then zero, and stops at the closing one before   *)
(* it has stored the last; the record still holds what it held there.      *)
Stored(p) ==
    LET f == Len(p.fields) + 1 IN
    IF f \notin ApFields THEN ap
    ELSE [ap EXCEPT ![f] = IF f \in {2, 4} THEN p.text
                           ELSE IF Head(p.text) = "(" THEN <<"0">> ELSE p.text]

NextField(p) == [fields |-> Append(p.fields, "seen"), text |-> <<>>]

(* What list() should show of a line: all fields but the first, which it   *)
(* takes for zero, and the last.                                           *)
Shown(line, record) ==
    \A k \in DOMAIN line :
        line[k] \notin Punctuation /\ FieldsIn(line, k) \in 2..CommasIn(line, Len(line)) =>
            record[FieldsIn(line, k)] = << line[k] >>

NetworkToken ==
    /\ reading.pc = "network" /\ Read
    /\ \/ /\ Token \in {")", "CR", "LF"}
          /\ Parse("wait") /\ parser' = NoParser
          /\ misread' = (misread \/ (~cut /\ ~Shown(Head(serial).line, ap)))
       \/ /\ Token = "quote" /\ UNCHANGED <<parser, ap, reading, misread>>
       \/ /\ Token = "(" /\ parser' = [fields |-> <<>>, text |-> <<"(">>]
          /\ UNCHANGED <<ap, reading, misread>>
       \/ /\ Token = "comma" /\ ap' = Stored(parser) /\ parser' = NextField(parser)
          /\ UNCHANGED <<reading, misread>>
       \/ /\ Token \notin {")", "CR", "LF", "quote", "(", "comma"}
          /\ parser' = [parser EXCEPT !.text = Append(@, Token)]
          /\ UNCHANGED <<ap, reading, misread>>
    /\ UNCHANGED <<ring, queue>>

(* The line says nothing for as long as the task waits.  wait() and list() *)
(* return; the parser of +IPD returns two zeros, and wait() goes on.       *)
Late == IF serial = <<>> THEN UNCHANGED cut
        ELSE Head(serial).left # Head(serial).line /\ ~cut /\ cut' = TRUE

Timeout ==
    /\ reading.pc # "idle" /\ Late
    /\ \/ reading.pc \in {"wait", "network"} /\ Return /\ UNCHANGED queue
       \/ /\ reading.pc = "packet" /\ Parse("wait") /\ parser' = NoParser
          /\ queue' = Append(queue, Packet(NoParser)) /\ UNCHANGED ring
    /\ UNCHANGED <<serial, saidEvents, said, misread>>

(* The module. *)
Say ==
    /\ said < MaxLines /\ said' = said + 1
    /\ \E l \in Lines :
          /\ serial' = Append(serial, [line |-> l, left |-> l])
          /\ saidEvents' = saidEvents \o Announced(l)
    /\ UNCHANGED <<reading, ring, parser, ap, queue, cut, misread>>

-----------------------------------------------------------------------------
AtInit ==
    /\ serial = <<>> /\ reading = [pc |-> "idle", expects |-> {}]
    /\ ring = EmptyRing /\ parser = NoParser /\ ap = Unknown
    /\ queue = <<>> /\ saidEvents = <<>> /\ said = 0 /\ cut = FALSE /\ misread = FALSE

AtNext == Wait \/ List \/ Match \/ PacketToken \/ NetworkToken \/ Timeout \/ Say

AtSpec == AtInit /\ [][AtNext]_atVars

-----------------------------------------------------------------------------
AtTypeOK ==
    /\ ring.size \in 0..RingSize /\ ring.front \in 0..RingSize - 1
    /\ reading.pc \in {"idle", "wait", "packet", "network"}
    /\ said \in 0..MaxLines /\ Len(queue) <= MaxLines + 1
    /\ cut \in BOOLEAN /\ misread \in BOOLEAN
    /\ DOMAIN ap = ApFields

(* Once all that was said is read, the queue holds the events the module   *)
(* announced, each with its numbers and in their order, whatever was said  *)
(* between them and whatever the tasks were waiting for: the ring buffer   *)
(* goes round and the parser of +IPD hands back in the middle of a line.   *)
(* A line that a timeout cuts in two may lose its event.                   *)
EventsAsAnnounced ==
    ~cut /\ serial = <<>> /\ reading.pc # "packet" => queue = saidEvents

(* list() shows every network with the fields the module sent, none moved  *)
(* to the next or taken from the network before it, although one record    *)
(* serves for all; only the first and the last are not looked at.          *)
NetworksAsListed == ~misread

(* Nothing that takes over in the middle of the serial line leads the      *)
(* others astray: neither events nor networks.                             *)
LinesReadAsSaid == EventsAsAnnounced /\ NetworksAsListed
=============================================================================

------------------------- MODULE Esp8266Link_proofs -------------------------
(***************************************************************************)
(* Proofs about the AT-command link, for any number of links and calls,    *)
(* for lines that come whole and lines that come in two halves: its types, *)
(* that the client believes only the answer to its own command, and that   *)
(* the sockets follow the module's connections.                            *)
(*                                                                         *)
(* The two buffers are looked at as one stream of halves, and the copy and *)
(* the queue of the WiFi task as one queue of changes, so that passing     *)
(* halves on and copying the queue are steps that change nothing.  The     *)
(* properties are about the end of a call, and the invariant about all     *)
(* that comes before it:                                                   *)
(*                                                                         *)
(* AnswerInv, in patient behaviours.  The halves in the stream are paired. *)
(* All of them but the peer's closings answer the one command of the       *)
(* client, in the order in which the module gives answers, and while the   *)
(* command is not executed there are none.  A client that holds the lock   *)
(* has an answer coming, or its command still to be executed, so it never  *)
(* times out; and it read the first half of the line it is in.  A CONNECT  *)
(* in the queue is one, and belongs to the socket of this open().          *)
(*                                                                         *)
(* EventInv, while nothing was written or missed.  Of every link, the last *)
(* change in the stream is the module's present connection; if there is    *)
(* none, the last in the queue; if that is empty too, the socket's state,  *)
(* but for the socket that open() or close() is about to set.              *)
(***************************************************************************)
EXTENDS Esp8266Link, SequenceTheorems, WellFoundedInduction, TLAPS

-----------------------------------------------------------------------------
(* What the module says: each text comes to the stream in two halves.      *)

Texts == {"CONNECT", "OK", "ERROR", "ALREADY CONNECTED", "CLOSED", "> ", "SEND OK", "SEND FAIL"}
Lines == [text : Texts, link : Links, cmd : Nat]
HalfLines == [line : Lines, last : BOOLEAN]
Parts == {<<>>} \cup {<<l>> : l \in Lines}
Events == [code : {"CONNECT", "CLOSED"}, link : Links]

Waits == {"openwait", "closewait", "sendwait", "promptwait", "sentwait"}

WifiTypes ==
    /\ wifi = [pc |-> wifi.pc, again |-> wifi.again, copy |-> wifi.copy, part |-> wifi.part]
    /\ wifi.copy \in Seq(Events) /\ wifi.part \in Parts
    /\ wifi.pc \in {"sleep", "copy", "listen"} => wifi.copy = <<>>

ClientTypes ==
    /\ client = [pc |-> client.pc, slot |-> client.slot, part |-> client.part]
    /\ client.part \in Parts
    /\ client.pc \in {"openlock", "closelock"} => ticket < MaxCalls[impatient]
    /\ client.pc \in Waits => ticket >= 1

LineTypes ==
    /\ line \in Seq(HalfLines) /\ uart \in Seq(HalfLines)
    /\ ~Torn => \E n \in Nat : Len(line) = 2 * n

LinkTypes == TypeOK /\ impatient \in BOOLEAN /\ WifiTypes /\ ClientTypes /\ LineTypes

(* A set of natural numbers that is not empty has a least element.         *)
LEMMA LeastOf ==
    ASSUME NEW S \in SUBSET Nat, S # {} PROVE \E h \in S : \A g \in S : h =< g
<1> DEFINE R == OpToRel(<, Nat)
<1>1. R = {ss \in Nat \X Nat : ss[1] < ss[2]}
  BY Zenon DEF OpToRel
<1>2. IsWellFoundedOn(R, Nat)
  BY NatLessThanWellFounded, Zenon
<1> HIDE DEF R
<1>3. \E h \in S : \A g \in S : ~(<<g, h>> \in R)
  BY <1>2, WFMin
<1>4. ASSUME NEW g \in Nat, NEW h \in Nat, g < h PROVE <<g, h>> \in R
  <2>1. <<g, h>> \in Nat \X Nat /\ <<g, h>>[1] < <<g, h>>[2]
    BY <1>4
  <2> QED
    BY <1>1, <2>1, Zenon
<1>5. PICK h \in S : \A g \in S : ~(<<g, h>> \in R)
  BY <1>3
<1>6. \A g \in S : ~(g < h)
  BY <1>4, <1>5, Zenon
<1>7. \A g \in S : h =< g
  BY <1>6
<1> QED
  BY <1>7, Zenon

(* Min of FiniteSetsExt is that element: open() finds a socket of the set. *)
LEMMA LeastLink ==
    ASSUME NEW S \in SUBSET Nat, S # {} PROVE Min(S) \in S
<1>1. \E h \in S : \A g \in S : h =< g
  BY LeastOf
<1> QED
  BY <1>1, Zenon DEF Min

(* A set of numbers up to n that is not empty has a greatest element.      *)
LEMMA GreatestOf ==
    ASSUME NEW n \in Nat, NEW S \in SUBSET (1..n), S # {} PROVE \E h \in S : \A g \in S : g =< h
<1> DEFINE T == {x \in Nat : n - x \in S}
<1>1. \A g \in S : n - g \in T /\ g \in Int
  <2> SUFFICES ASSUME NEW g \in S PROVE n - g \in T /\ g \in Int
    OBVIOUS
  <2>1. g \in 1..n
    OBVIOUS
  <2>2. n - g \in Nat /\ n - (n - g) = g
    BY <2>1
  <2> QED
    BY <2>1, <2>2
<1>2. T \in SUBSET Nat /\ T # {}
  BY <1>1
<1>3. PICK t \in T : \A x \in T : t =< x
  BY <1>2, LeastOf
<1>4. n - t \in S /\ t \in Nat
  BY <1>3
<1>5. ASSUME NEW g \in S PROVE g =< n - t
  <2>1. t =< n - g /\ g \in Int
    BY <1>1, <1>3
  <2> QED
    BY <2>1, <1>4
<1> QED
  BY <1>4, <1>5

(* A sequence of two elements, written out.                                *)
LEMMA TwoOf == ASSUME NEW s, DOMAIN s = 1..2, s = [i \in 1..2 |-> s[i]] PROVE s = <<s[1], s[2]>>
OBVIOUS

(* A sequence of four elements, written out.                               *)
LEMMA FourOf ==
    ASSUME NEW s, s = [i \in 1..4 |-> s[i]] PROVE s = <<s[1], s[2], s[3], s[4]>>
OBVIOUS

(* What the module says is the two halves of each text, in order. *)
LEMMA SayOne ==
    ASSUME NEW t, NEW l, NEW c
    PROVE  Say(<<t>>, l, c) = Halves(Line(t, l, c))
<1> DEFINE s == Say(<<t>>, l, c)
<1> DEFINE h == Halves(Line(t, l, c))
<1>1. s = [i \in 1..2 |-> Halves(Line(<<t>>[(i + 1) \div 2], l, c))[2 - (i % 2)]]
  BY DEF Say
<1>2. h = <<h[1], h[2]>>
  BY DEF Halves
<1>3. s[1] = h[1] /\ s[2] = h[2]
  <2> HIDE DEF s
  <2> QED
    BY <1>1
<1>4. DOMAIN s = 1..2 /\ s = [i \in 1..2 |-> s[i]]
  BY <1>1
<1> HIDE DEF s, h
<1>5. s = <<s[1], s[2]>>
  BY <1>4, TwoOf
<1>6. s = h
  BY <1>2, <1>3, <1>5, Zenon
<1> QED
  BY <1>6 DEF s, h

(* Two texts are said in four halves.                                      *)
LEMMA SayTwo ==
    ASSUME NEW t, NEW u, NEW l, NEW c
    PROVE  Say(<<t, u>>, l, c) = <<Halves(Line(t, l, c))[1], Halves(Line(t, l, c))[2],
                                   Halves(Line(u, l, c))[1], Halves(Line(u, l, c))[2]>>
<1> DEFINE s == Say(<<t, u>>, l, c)
<1> DEFINE h == Halves(Line(t, l, c))
<1> DEFINE g == Halves(Line(u, l, c))
<1>1. s = [i \in 1..4 |-> Halves(Line(<<t, u>>[(i + 1) \div 2], l, c))[2 - (i % 2)]]
  BY DEF Say
<1>3. s[1] = h[1] /\ s[2] = h[2] /\ s[3] = g[1] /\ s[4] = g[2]
  <2> HIDE DEF s
  <2> QED
    BY <1>1
<1>4. s = [i \in 1..4 |-> s[i]]
  BY <1>1
<1> HIDE DEF s, h, g
<1>5. s = <<s[1], s[2], s[3], s[4]>>
  BY <1>4, FourOf
<1>6. s = <<h[1], h[2], g[1], g[2]>>
  BY <1>3, <1>5, Zenon
<1> QED
  BY <1>6 DEF s, h, g

(* Two halves that are those of one line. *)
ArePair(a, b, t, l, c) ==
    /\ a.line.text = t /\ a.line.link = l /\ a.line.cmd = c
    /\ b.line.text = t /\ b.line.link = l /\ b.line.cmd = c
    /\ b.line = a.line /\ a.last = FALSE /\ b.last = TRUE

Says1(new, t, l, c) ==
    new \in Seq(HalfLines) /\ Len(new) = 2 /\ ArePair(new[1], new[2], t, l, c)
Says2(new, t, u, l, c) ==
    /\ new \in Seq(HalfLines) /\ Len(new) = 4
    /\ ArePair(new[1], new[2], t, l, c) /\ ArePair(new[3], new[4], u, l, c)

(* The two halves of a line are typed, and make a pair.                    *)
LEMMA HalvesPair ==
    ASSUME NEW t \in Texts, NEW l \in Links, NEW c \in Nat
    PROVE  LET h == Halves(Line(t, l, c)) IN
           h[1] \in HalfLines /\ h[2] \in HalfLines /\ ArePair(h[1], h[2], t, l, c)
<1> DEFINE r == Line(t, l, c)
<1>1. r \in Lines /\ r.text = t /\ r.link = l /\ r.cmd = c
  BY DEF Line, Lines
<1> HIDE DEF r
<1>2. Halves(r)[1] = [line |-> r, last |-> FALSE] /\ Halves(r)[2] = [line |-> r, last |-> TRUE]
  BY DEF Halves
<1>3. \A b \in BOOLEAN : /\ [line |-> r, last |-> b] \in HalfLines
                         /\ [line |-> r, last |-> b].line = r
                         /\ [line |-> r, last |-> b].last = b
  BY <1>1 DEF HalfLines
<1>4. Halves(r)[1] \in HalfLines /\ Halves(r)[1].line = r /\ Halves(r)[1].last = FALSE
  BY <1>2, <1>3, Zenon
<1>5. Halves(r)[2] \in HalfLines /\ Halves(r)[2].line = r /\ Halves(r)[2].last = TRUE
  BY <1>2, <1>3, Zenon
<1>6. ArePair(Halves(r)[1], Halves(r)[2], t, l, c)
  BY <1>1, <1>4, <1>5, Zenon DEF ArePair
<1> QED
  BY <1>4, <1>5, <1>6 DEF r

(* What the module says in one line is such a pair.                        *)
LEMMA SaidOne ==
    ASSUME NEW t \in Texts, NEW l \in Links, NEW c \in Nat
    PROVE  Says1(Say(<<t>>, l, c), t, l, c)
<1> DEFINE h == Halves(Line(t, l, c))
<1>1. h[1] \in HalfLines /\ h[2] \in HalfLines /\ ArePair(h[1], h[2], t, l, c)
  BY HalvesPair
<1>2. Say(<<t>>, l, c) = <<h[1], h[2]>>
  BY SayOne DEF Halves
<1> HIDE DEF h
<1>3. <<h[1], h[2]>> \in Seq(HalfLines) /\ Len(<<h[1], h[2]>>) = 2
  BY <1>1
<1>4. <<h[1], h[2]>>[1] = h[1] /\ <<h[1], h[2]>>[2] = h[2]
  OBVIOUS
<1> QED
  BY <1>1, <1>2, <1>3, <1>4, Zenon DEF Says1

(* What it says in two lines is two of them.                               *)
LEMMA SaidTwo ==
    ASSUME NEW t \in Texts, NEW u \in Texts, NEW l \in Links, NEW c \in Nat
    PROVE  Says2(Say(<<t, u>>, l, c), t, u, l, c)
<1> DEFINE h == Halves(Line(t, l, c))
<1> DEFINE g == Halves(Line(u, l, c))
<1>1. h[1] \in HalfLines /\ h[2] \in HalfLines /\ ArePair(h[1], h[2], t, l, c)
  BY HalvesPair
<1>2. g[1] \in HalfLines /\ g[2] \in HalfLines /\ ArePair(g[1], g[2], u, l, c)
  BY HalvesPair
<1> DEFINE s == <<h[1], h[2], g[1], g[2]>>
<1>3. Say(<<t, u>>, l, c) = s
  BY SayTwo
<1> HIDE DEF h, g
<1>4. s \in Seq(HalfLines) /\ Len(s) = 4
  BY <1>1, <1>2
<1>5. s[1] = h[1] /\ s[2] = h[2] /\ s[3] = g[1] /\ s[4] = g[2]
  OBVIOUS
<1> QED
  BY <1>1, <1>2, <1>3, <1>4, <1>5, Zenon DEF Says2

-----------------------------------------------------------------------------
Stream == uart \o line
Queue == IF wifi.pc = "clear" /\ wifi.copy # <<>> THEN wifi.copy ELSE wifi.copy \o events

(* What the module says goes to the end of what is on its way. *)
Adds(new) == /\ new \in Seq(HalfLines) /\ line' = line \o new /\ uart' = uart
             /\ \E n \in Nat : Len(new) = 2 * n
Adds1(t, l, c) == \E new : Says1(new, t, l, c) /\ Adds(new)
Adds2(t, u, l, c) == \E new : Says2(new, t, u, l, c) /\ Adds(new)

(* One line that is said comes to the end of the stream.                   *)
LEMMA AddsOne ==
    ASSUME NEW t \in Texts, NEW l \in Links, NEW c \in Nat,
           line' = line \o Say(<<t>>, l, c), uart' = uart
    PROVE  Adds1(t, l, c)
<1>1. PICK new : new = Say(<<t>>, l, c)
  OBVIOUS
<1>2. Says1(new, t, l, c)
  BY <1>1, SaidOne
<1>3. new \in Seq(HalfLines) /\ Len(new) = 2 * 1
  BY <1>2 DEF Says1
<1>4. Adds(new)
  BY <1>1, <1>3 DEF Adds
<1> QED
  BY <1>2, <1>4 DEF Adds1

(* So do two.                                                              *)
LEMMA AddsTwo ==
    ASSUME NEW t \in Texts, NEW u \in Texts, NEW l \in Links, NEW c \in Nat,
           line' = line \o Say(<<t, u>>, l, c), uart' = uart
    PROVE  Adds2(t, u, l, c)
<1>1. PICK new : new = Say(<<t, u>>, l, c)
  OBVIOUS
<1>2. Says2(new, t, u, l, c)
  BY <1>1, SaidTwo
<1>3. new \in Seq(HalfLines) /\ Len(new) = 2 * 2
  BY <1>2 DEF Says2
<1>4. Adds(new)
  BY <1>1, <1>3 DEF Adds
<1> QED
  BY <1>2, <1>4 DEF Adds2

(* What a command does, and what the module says of it.                    *)
StartDone(c) ==
    /\ c.op = "start" /\ mode = "command" /\ mode' = mode
    /\ \/ c.link \notin up /\ up' = up \union {c.link} /\ Adds2("CONNECT", "OK", c.link, c.cmd)
       \/ c.link \notin up /\ up' = up /\ Adds1("ERROR", c.link, c.cmd)
       \/ c.link \in up /\ up' = up /\ Adds2("ALREADY CONNECTED", "ERROR", c.link, c.cmd)
StopDone(c) ==
    /\ c.op = "stop" /\ mode = "command" /\ mode' = mode /\ up' = up \ {c.link}
    /\ \/ c.link \in up /\ Adds2("CLOSED", "OK", c.link, c.cmd)
       \/ c.link \notin up /\ Adds1("ERROR", c.link, c.cmd)
PromptDone(c) ==
    /\ c.op = "send" /\ mode = "command" /\ up' = up
    /\ \/ mode' = "data" /\ Adds2("OK", "> ", c.link, c.cmd)
       \/ mode' = mode /\ Adds1("ERROR", c.link, c.cmd)
DataDone(c) ==
    /\ mode = "data" /\ mode' = "command" /\ up' = up
    /\ \E t \in {"SEND OK", "SEND FAIL"} : Adds1(t, c.link, IF c.op = "data" THEN c.cmd ELSE 0)
RejectDone(c) ==
    /\ c.op = "data" /\ mode = "command" /\ mode' = mode /\ up' = up /\ Adds1("ERROR", c.link, 0)

Commands == [op : {"start", "stop", "send", "data"}, link : Links, cmd : 1..MaxCalls[impatient]]

(* The command that the module reads is typed, and so are the rest.        *)
LEMMA FirstCommand ==
    ASSUME LinkTypes, cmds # <<>>
    PROVE  Head(cmds) \in Commands /\ Tail(cmds) \in Seq(Commands) /\ cmds \in Seq(Commands)
<1>1. cmds \in Seq(Commands)
  BY Zenon DEF LinkTypes, TypeOK, Commands
<1> QED
  BY <1>1

Done(c) == StartDone(c) \/ StopDone(c) \/ PromptDone(c) \/ DataDone(c) \/ RejectDone(c)

(* Each of the module's actions does one of the things above.              *)
LEMMA CommandDone ==
    ASSUME NEW c, c.link \in Links, c.cmd \in Nat, uart' = uart,
           Start(c) \/ Stop(c) \/ Prompt(c) \/ SendData(c) \/ Reject(c)
    PROVE  Done(c)
<1>1. uart' = uart
  OBVIOUS
<1>3. c.link \in Links /\ c.cmd \in Nat /\ 0 \in Nat
  OBVIOUS
<1>4. Texts = {"CONNECT", "OK", "ERROR", "ALREADY CONNECTED", "CLOSED", "> ", "SEND OK", "SEND FAIL"}
  BY DEF Texts
<1>5. CASE Start(c)
  <2>1. CASE c.link \notin up /\ up' = up \union {c.link}
             /\ line' = line \o Say(<<"CONNECT", "OK">>, c.link, c.cmd)
    <3>1. Adds2("CONNECT", "OK", c.link, c.cmd)
      BY <2>1, <1>1, <1>3, <1>4, AddsTwo
    <3> QED
      BY <3>1, <2>1, <1>5 DEF Start, StartDone, Done
  <2>2. CASE c.link \notin up /\ up' = up /\ line' = line \o Say(<<"ERROR">>, c.link, c.cmd)
    <3>1. Adds1("ERROR", c.link, c.cmd)
      BY <2>2, <1>1, <1>3, <1>4, AddsOne
    <3> QED
      BY <3>1, <2>2, <1>5 DEF Start, StartDone, Done
  <2>3. CASE c.link \in up /\ up' = up
             /\ line' = line \o Say(<<"ALREADY CONNECTED", "ERROR">>, c.link, c.cmd)
    <3>1. Adds2("ALREADY CONNECTED", "ERROR", c.link, c.cmd)
      BY <2>3, <1>1, <1>3, <1>4, AddsTwo
    <3> QED
      BY <3>1, <2>3, <1>5 DEF Start, StartDone, Done
  <2> QED
    BY <1>5, <2>1, <2>2, <2>3, Zenon DEF Start
<1>6. CASE Stop(c)
  <2>1. CASE c.link \in up
    <3>1. Adds2("CLOSED", "OK", c.link, c.cmd)
      BY <2>1, <1>6, <1>1, <1>3, <1>4, AddsTwo DEF Stop
    <3> QED
      BY <3>1, <2>1, <1>6 DEF Stop, StopDone, Done
  <2>2. CASE c.link \notin up
    <3>1. Adds1("ERROR", c.link, c.cmd)
      BY <2>2, <1>6, <1>1, <1>3, <1>4, AddsOne DEF Stop
    <3> QED
      BY <3>1, <2>2, <1>6 DEF Stop, StopDone, Done
  <2> QED
    BY <2>1, <2>2
<1>7. CASE Prompt(c)
  <2>1. CASE mode' = "data" /\ line' = line \o Say(<<"OK", "> ">>, c.link, c.cmd)
    <3>1. Adds2("OK", "> ", c.link, c.cmd)
      BY <2>1, <1>1, <1>3, <1>4, AddsTwo
    <3> QED
      BY <3>1, <2>1, <1>7 DEF Prompt, PromptDone, Done
  <2>2. CASE mode' = mode /\ line' = line \o Say(<<"ERROR">>, c.link, c.cmd)
    <3>1. Adds1("ERROR", c.link, c.cmd)
      BY <2>2, <1>1, <1>3, <1>4, AddsOne
    <3> QED
      BY <3>1, <2>2, <1>7 DEF Prompt, PromptDone, Done
  <2> QED
    BY <1>7, <2>1, <2>2, Zenon DEF Prompt
<1>8. CASE SendData(c)
  <2>1. PICK t \in {"SEND OK", "SEND FAIL"} :
            line' = line \o Say(<<t>>, c.link, IF c.op = "data" THEN c.cmd ELSE 0)
    BY <1>8 DEF SendData
  <2>2. PICK n \in Nat : n = IF c.op = "data" THEN c.cmd ELSE 0
    BY <1>3
  <2>3. Adds1(t, c.link, n)
    BY <2>1, <2>2, <1>1, <1>3, <1>4, AddsOne
  <2> QED
    BY <2>2, <2>3, <1>8 DEF SendData, DataDone, Done
<1>9. CASE Reject(c)
  <2>1. Adds1("ERROR", c.link, 0)
    BY <1>9, <1>1, <1>3, <1>4, AddsOne DEF Reject
  <2> QED
    BY <2>1, <1>9 DEF Reject, RejectDone, Done
<1> QED
  BY <1>5, <1>6, <1>7, <1>8, <1>9 DEF Done

(* So the execution of the first command does.                             *)
LEMMA ExecuteDone ==
    ASSUME LinkTypes, Execute
    PROVE  cmds # <<>> /\ cmds' = Tail(cmds) /\ Head(cmds) \in Commands /\ Done(Head(cmds))
<1>1. cmds # <<>> /\ cmds' = Tail(cmds) /\ uart' = uart
  BY DEF Execute
<1>2. Head(cmds) \in Commands
  BY <1>1, FirstCommand
<1>3. MaxCalls[impatient] \in Nat
  <2>1. impatient \in BOOLEAN /\ MaxCalls \in [BOOLEAN -> Nat]
    BY LinkAssumption, Zenon DEF LinkTypes
  <2> QED
    BY <2>1
<1>4. Head(cmds).link \in Links /\ Head(cmds).cmd \in Nat
  BY <1>2, <1>3 DEF Commands
<1>5. PICK c : c = Head(cmds)
  OBVIOUS
<1>6. Start(c) \/ Stop(c) \/ Prompt(c) \/ SendData(c) \/ Reject(c)
  BY <1>5, Zenon DEF Execute
<1>7. Done(c)
  BY <1>1, <1>4, <1>5, <1>6, CommandDone
<1> QED
  BY <1>1, <1>2, <1>5, <1>7

(* The peer's closing takes a link down and adds a CLOSED line for it.     *)
LEMMA PeerAdds ==
    ASSUME LinkTypes, PeerCloses
    PROVE  \E l \in up : up' = up \ {l} /\ Adds1("CLOSED", l, 0)
<1>1. PICK l \in up : up' = up \ {l} /\ line' = line \o Say(<<"CLOSED">>, l, 0) /\ uart' = uart
  BY Zenon DEF PeerCloses
<1>2. l \in Links /\ 0 \in Nat /\ "CLOSED" \in Texts
  BY DEF LinkTypes, TypeOK, Texts
<1> QED
  BY <1>1, <1>2, AddsOne

(* Transmitting moves halves from one buffer to the next. *)
LEMMA TransmitMoves ==
    ASSUME LinkTypes, Transmit
    PROVE  Stream' = Stream /\ LineTypes'
<1> USE DEF LinkTypes, LineTypes
<1>1. PICK n \in (IF Torn THEN {1} ELSE {2}) :
         line # <<>> /\ uart' = uart \o SubSeq(line, 1, n) /\ line' = SubSeq(line, n + 1, Len(line))
  BY DEF Transmit
<1>2. Len(line) \in Nat /\ Len(line) # 0
  BY <1>1
<1>3. n \in 1..Len(line)
  <2>1. CASE Torn
    <3>1. n = 1
      BY <2>1, <1>1, Zenon
    <3> QED
      BY <3>1, <1>2
  <2>2. CASE ~Torn
    <3>1. PICK k \in Nat : Len(line) = 2 * k
      BY <2>2
    <3> QED
      BY <3>1, <2>2, <1>1, <1>2
  <2> QED
    BY <2>1, <2>2
<1>4. line = SubSeq(line, 1, n) \o SubSeq(line, n + 1, Len(line))
  <2>1. SubSeq(line, 1, Len(line)) = line
    BY SubSeqFull
  <2>2. SubSeq(line, 1, n) \o SubSeq(line, n + 1, Len(line)) = SubSeq(line, 1, Len(line))
    BY <1>2, <1>3, ConcatAdjacentSubSeq
  <2> QED
    BY <2>1, <2>2
<1>5. SubSeq(line, 1, n) \in Seq(HalfLines) /\ SubSeq(line, n + 1, Len(line)) \in Seq(HalfLines)
      /\ Len(SubSeq(line, n + 1, Len(line))) = Len(line) - n
  BY <1>2, <1>3, SubSeqProperties
<1>6. Stream' = Stream
  <2>1. (uart \o SubSeq(line, 1, n)) \o SubSeq(line, n + 1, Len(line))
            = uart \o (SubSeq(line, 1, n) \o SubSeq(line, n + 1, Len(line)))
    <3>1. uart \in Seq(HalfLines)
      OBVIOUS
    <3>2. PICK a, b : a = SubSeq(line, 1, n) /\ b = SubSeq(line, n + 1, Len(line))
      OBVIOUS
    <3>3. a \in Seq(HalfLines) /\ b \in Seq(HalfLines)
      BY <3>2, <1>5
    <3>4. (uart \o a) \o b = uart \o (a \o b)
      BY <3>1, <3>3, ConcatAssociative
    <3> QED
      BY <3>2, <3>4
  <2> QED
    BY <2>1, <1>1, <1>4, Zenon DEF Stream
<1>7. line' \in Seq(HalfLines) /\ uart' \in Seq(HalfLines)
  BY <1>1, <1>5
<1>8. ~Torn => \E k \in Nat : Len(line') = 2 * k
  <2> SUFFICES ASSUME ~Torn PROVE \E k \in Nat : Len(line') = 2 * k
    OBVIOUS
  <2>1. PICK k \in Nat : Len(line) = 2 * k
    OBVIOUS
  <2>2. n = 2 /\ Len(line') = Len(line) - 2
    BY <1>1, <1>5
  <2>3. k - 1 \in Nat /\ Len(line') = 2 * (k - 1)
    BY <2>1, <2>2, <1>2
  <2> QED
    BY <2>3
<1> QED
  BY <1>6, <1>7, <1>8

(* And saying something more keeps the types. *)
LEMMA AddingTypes ==
    ASSUME LineTypes, NEW new, Adds(new)
    PROVE  LineTypes' /\ Stream' = Stream \o new
<1> USE DEF LineTypes, Adds
<1>1. line' \in Seq(HalfLines) /\ uart' \in Seq(HalfLines) /\ Len(line') = Len(line) + Len(new)
  BY ConcatProperties
<1>2. ~Torn => \E k \in Nat : Len(line') = 2 * k
  <2> SUFFICES ASSUME ~Torn PROVE \E k \in Nat : Len(line') = 2 * k
    OBVIOUS
  <2>1. PICK k \in Nat : Len(line) = 2 * k
    OBVIOUS
  <2>2. PICK m \in Nat : Len(new) = 2 * m
    OBVIOUS
  <2>3. k + m \in Nat /\ Len(line') = 2 * (k + m)
    BY <2>1, <2>2, <1>1
  <2> QED
    BY <2>3
<1>3. Stream' = Stream \o new
  BY ConcatAssociative DEF Stream
<1> QED
  BY <1>1, <1>2, <1>3

-----------------------------------------------------------------------------
(* Types.                                                                  *)

HistoryTypes == history \in [wrote : BOOLEAN, missed : BOOLEAN, misled : BOOLEAN, lied : BOOLEAN]
HostTypes == /\ lock \in {"free", "wifi", "client"}
             /\ state \in [Links -> {"disconnected", "connecting", "connected"}]
             /\ events \in Seq(Events)
ModuleTypes == cmds \in Seq(Commands) /\ mode \in {"command", "data"} /\ up \subseteq Links
PcTypes == /\ wifi.pc \in {"sleep", "copy", "clear", "handle", "listen"}
           /\ client.pc \in {"idle", "openlock", "openwait", "openfailed", "poll",
                      "using", "closelock", "closewait", "closed",
                      "sendwait", "promptwait", "sentwait"}
           /\ client.slot \in Links /\ ticket \in 0..MaxCalls[impatient]

(* The type invariant of the module, taken apart.                          *)
LEMMA TypeParts == TypeOK <=> ModuleTypes /\ HostTypes /\ PcTypes /\ HistoryTypes
BY Zenon DEF TypeOK, ModuleTypes, HostTypes, PcTypes, HistoryTypes, Commands, Events

(* The strengthened type invariant, taken apart.                           *)
LEMMA LinkParts ==
    LinkTypes <=> /\ ModuleTypes /\ HostTypes /\ PcTypes /\ HistoryTypes
                  /\ impatient \in BOOLEAN /\ WifiTypes /\ ClientTypes /\ LineTypes
BY TypeParts, Zenon DEF LinkTypes

(* Put together again in the next state.                                   *)
LEMMA NextParts ==
    ASSUME (ModuleTypes /\ HostTypes /\ PcTypes /\ HistoryTypes)',
           (impatient \in BOOLEAN /\ WifiTypes /\ ClientTypes /\ LineTypes)'
    PROVE  LinkTypes'
BY Zenon DEF LinkTypes, TypeOK, ModuleTypes, HostTypes, PcTypes, HistoryTypes, Commands, Events

(* The types hold initially.                                               *)
LEMMA TypesInit == Init => LinkTypes
<1> SUFFICES ASSUME Init PROVE LinkTypes
  OBVIOUS
<1> USE DEF Init
<1>1. impatient \in BOOLEAN /\ MaxCalls \in [BOOLEAN -> Nat] /\ Links \in SUBSET Nat /\ Links # {}
  BY LinkAssumption, Zenon
<1>2. MaxCalls[impatient] \in Nat
  BY <1>1
<1>3. Min(Links) \in Links
  BY <1>1, LeastLink
<1>4. ModuleTypes /\ HostTypes
  BY DEF ModuleTypes, HostTypes
<1>5. PcTypes
  BY <1>2, <1>3 DEF PcTypes
<1>6. HistoryTypes
  BY DEF HistoryTypes
<1>7. WifiTypes /\ ClientTypes
  BY DEF WifiTypes, ClientTypes, Parts, Waits
<1>8. LineTypes
  <2>1. Len(line) = 2 * 0 /\ 0 \in Nat
    OBVIOUS
  <2> QED
    BY <2>1 DEF LineTypes
<1> QED
  BY <1>1, <1>4, <1>5, <1>6, <1>7, <1>8, LinkParts, Zenon

(* The bound of the behaviour's case is a number.                          *)
LEMMA BoundTypes == ASSUME LinkTypes PROVE MaxCalls[impatient] \in Nat /\ ticket \in Nat
<1>1. impatient \in BOOLEAN /\ MaxCalls \in [BOOLEAN -> Nat]
  BY LinkAssumption, Zenon DEF LinkTypes
<1>2. MaxCalls[impatient] \in Nat /\ ticket \in 0..MaxCalls[impatient]
  BY <1>1 DEF LinkTypes, TypeOK
<1> QED
  BY <1>2

(* A step that only adds lines keeps the types of the stream.              *)
LEMMA AddingLines ==
    ASSUME LineTypes, NEW t, NEW u, NEW l, NEW c, Adds1(t, l, c) \/ Adds2(t, u, l, c)
    PROVE  LineTypes'
BY AddingTypes DEF Adds1, Adds2

(* The types after a step of the module.                                   *)
LEMMA ModuleSteps ==
    ASSUME LinkTypes, Execute \/ PeerCloses \/ Transmit
    PROVE  LinkTypes'
<1>1. /\ ModuleTypes /\ HostTypes /\ PcTypes /\ HistoryTypes
      /\ impatient \in BOOLEAN /\ WifiTypes /\ ClientTypes /\ LineTypes
  BY LinkParts, Zenon
<1>2. UNCHANGED <<impatient, lock, state, events, wifi, client, ticket, history>>
  BY DEF Execute, PeerCloses, Transmit
<1>3. HostTypes' /\ PcTypes' /\ HistoryTypes' /\ impatient' \in BOOLEAN /\ WifiTypes' /\ ClientTypes'
  BY <1>1, <1>2 DEF HostTypes, PcTypes, HistoryTypes, WifiTypes, ClientTypes
<1>4. CASE Execute
  <2>1. cmds # <<>> /\ cmds' = Tail(cmds) /\ Head(cmds) \in Commands /\ Done(Head(cmds))
    BY <1>4, ExecuteDone
  <2>2. Tail(cmds) \in Seq(Commands) /\ Commands' = Commands
    BY <1>2, <2>1, FirstCommand DEF Commands
  <2>3. Head(cmds).link \in Links
    BY <2>1 DEF Commands
  <2>4. PICK c : c = Head(cmds)
    OBVIOUS
  <2>5. Done(c) /\ c.link \in Links
    BY <2>1, <2>3, <2>4
  <2>6. up' \subseteq Links /\ mode' \in {"command", "data"}
    BY <2>5, <1>1 DEF Done, StartDone, StopDone, PromptDone, DataDone, RejectDone, ModuleTypes
  <2>7. \E t, u, l, k : Adds1(t, l, k) \/ Adds2(t, u, l, k)
    BY <2>5, Zenon DEF Done, StartDone, StopDone, PromptDone, DataDone, RejectDone
  <2>8. LineTypes'
    BY <2>7, <1>1, AddingLines
  <2> QED
    BY <1>3, <2>1, <2>2, <2>6, <2>8, NextParts DEF ModuleTypes
<1>5. CASE PeerCloses
  <2>1. cmds' = cmds /\ mode' = mode
    BY <1>5 DEF PeerCloses
  <2>2. \E l \in up : up' = up \ {l} /\ Adds1("CLOSED", l, 0)
    BY <1>5, PeerAdds
  <2>3. LineTypes'
    BY <2>2, <1>1, AddingLines
  <2>4. ModuleTypes'
    BY <2>1, <2>2, <1>1, <1>2 DEF ModuleTypes, Commands
  <2> QED
    BY <1>3, <2>3, <2>4, NextParts
<1>6. CASE Transmit
  <2>1. cmds' = cmds /\ mode' = mode /\ up' = up
    BY <1>6 DEF Transmit
  <2>2. ModuleTypes'
    BY <2>1, <1>1, <1>2 DEF ModuleTypes, Commands
  <2> QED
    BY <1>3, <2>2, <1>6, TransmitMoves, NextParts
<1> QED
  BY <1>4, <1>5, <1>6

(* What a step does to the record of the WiFi task. *)
WifiTo(pc, copy, part) ==
    /\ wifi' = [pc |-> wifi'.pc, again |-> wifi'.again, copy |-> wifi'.copy, part |-> wifi'.part]
    /\ wifi'.pc = pc /\ wifi'.copy = copy /\ wifi'.part = part

(* The record of the WiFi task after an EXCEPT, field by field.            *)
LEMMA WifiSteps ==
    ASSUME WifiTypes, NEW pc, NEW copy, NEW part,
           \/ wifi' = [wifi EXCEPT !.pc = pc] /\ copy = wifi.copy /\ part = wifi.part
           \/ wifi' = [wifi EXCEPT !.pc = pc, !.again = FALSE] /\ copy = wifi.copy /\ part = wifi.part
           \/ wifi' = [wifi EXCEPT !.pc = pc, !.copy = copy] /\ part = wifi.part
           \/ wifi' = [wifi EXCEPT !.pc = pc, !.part = part] /\ copy = wifi.copy
           \/ wifi' = [wifi EXCEPT !.pc = pc, !.again = TRUE, !.part = part] /\ copy = wifi.copy
           \/ wifi' = [wifi EXCEPT !.copy = copy] /\ pc = wifi.pc /\ part = wifi.part
           \/ wifi' = [wifi EXCEPT !.part = part] /\ pc = wifi.pc /\ copy = wifi.copy
    PROVE  WifiTo(pc, copy, part)
BY DEF WifiTypes, WifiTo

(* It stays typed when its fields are.                                     *)
LEMMA WifiToTypes ==
    ASSUME NEW pc, NEW copy, NEW part, WifiTo(pc, copy, part), copy \in Seq(Events), part \in Parts,
           pc \in {"sleep", "copy", "listen"} => copy = <<>>
    PROVE  WifiTypes'
BY Zenon DEF WifiTypes, WifiTo

(* The half that is read is typed.                                         *)
LEMMA HeadTypes ==
    ASSUME LineTypes, uart # <<>>
    PROVE  /\ Head(uart) \in HalfLines /\ Tail(uart) \in Seq(HalfLines)
           /\ Head(uart).line.link \in Links
           /\ Remember(Head(uart)) \in Parts
<1>1. uart \in Seq(HalfLines)
  BY DEF LineTypes
<1>2. Head(uart) \in HalfLines /\ Tail(uart) \in Seq(HalfLines)
  BY <1>1
<1>3. Head(uart).line \in Lines
  BY <1>2 DEF HalfLines
<1> QED
  BY <1>2, <1>3 DEF Lines, Remember, Parts

(* What a half puts into the queue is typed.                               *)
LEMMA QueuedTypes ==
    ASSUME NEW r, NEW h, h.line.link \in Links
    PROVE  Queued(r, h) \in Seq(Events)
<1>1. CASE r \in {"CONNECT", "CLOSED"}
  <2>1. PICK e : e = [code |-> r, link |-> h.line.link]
    OBVIOUS
  <2>2. e \in Events
    BY <1>1, <2>1 DEF Events
  <2>3. Queued(r, h) = <<e>>
    BY <1>1, <2>1, Zenon DEF Queued
  <2> QED
    BY <2>2, <2>3
<1>2. CASE r \notin {"CONNECT", "CLOSED"}
  BY <1>2 DEF Queued
<1> QED
  BY <1>1, <1>2

(* Reading a half keeps the types of the stream.                           *)
LEMMA ReadKeepsLines ==
    ASSUME LineTypes, uart # <<>>, uart' = Tail(uart), line' = line
    PROVE  LineTypes'
<1>1. Tail(uart) \in Seq(HalfLines)
  BY HeadTypes
<1> QED
  BY <1>1 DEF LineTypes

(* The queue stays typed when a half is read.                              *)
LEMMA QueuedKept ==
    ASSUME events \in Seq(Events), NEW q \in Seq(Events), events' = events \o q
    PROVE  events' \in Seq(Events)
OBVIOUS

(* The types after a step of the WiFi task.                                *)
LEMMA WifiTypeSteps ==
    ASSUME LinkTypes, WifiLock \/ WifiRun
    PROVE  LinkTypes'
<1>1. /\ ModuleTypes /\ HostTypes /\ PcTypes /\ HistoryTypes
      /\ impatient \in BOOLEAN /\ WifiTypes /\ ClientTypes /\ LineTypes
  BY LinkParts, Zenon
<1>2. UNCHANGED <<impatient, cmds, mode, up, line, client, ticket>>
  BY DEF WifiLock, WifiRun, WifiCopy, WifiClear, WifiHandle, WifiListen, WifiRead, WifiQuiet, WifiUnlock,
         WifiOnly, module
<1>3. ModuleTypes' /\ impatient' \in BOOLEAN /\ ClientTypes'
  BY <1>1, <1>2 DEF ModuleTypes, Commands, ClientTypes
<1>4. client'.pc = client.pc /\ client'.slot = client.slot /\ ticket' = ticket /\ impatient' = impatient
  BY <1>2
<1>5. wifi.copy \in Seq(Events) /\ wifi.part \in Parts /\ events \in Seq(Events) /\ <<>> \in Parts
  BY <1>1 DEF WifiTypes, HostTypes, Parts
<1>6. CASE WifiLock
  <2>1. WifiTo("copy", wifi.copy, wifi.part)
    BY <1>1, <1>6, WifiSteps DEF WifiLock
  <2>2. wifi.copy = <<>>
    BY <1>1, <1>6 DEF WifiLock, WifiTypes
  <2>3. lock' = "wifi" /\ UNCHANGED <<uart, state, events, history>>
    BY <1>6 DEF WifiLock, WifiOnly
  <2>4. WifiTypes' /\ wifi'.pc = "copy"
    BY <2>1, <2>2, <1>5, WifiToTypes DEF WifiTo
  <2>5. HostTypes' /\ PcTypes' /\ HistoryTypes' /\ LineTypes'
    BY <2>3, <2>4, <1>1, <1>2, <1>4 DEF HostTypes, PcTypes, HistoryTypes, LineTypes
  <2> QED
    BY <2>4, <2>5, <1>3, NextParts
<1>7. CASE WifiCopy
  <2>1. WifiTo("clear", events, wifi.part)
    BY <1>1, <1>7, WifiSteps DEF WifiCopy
  <2>3. UNCHANGED <<uart, lock, state, events, history>>
    BY <1>7 DEF WifiCopy, WifiOnly
  <2>4. WifiTypes' /\ wifi'.pc = "clear"
    BY <2>1, <1>5, WifiToTypes DEF WifiTo
  <2>5. HostTypes' /\ PcTypes' /\ HistoryTypes' /\ LineTypes'
    BY <2>3, <2>4, <1>1, <1>2, <1>4 DEF HostTypes, PcTypes, HistoryTypes, LineTypes
  <2> QED
    BY <2>4, <2>5, <1>3, NextParts
<1>8. CASE WifiClear
  <2>1. WifiTo("handle", wifi.copy, wifi.part)
    BY <1>1, <1>8, WifiSteps DEF WifiClear
  <2>2. events' = events \/ events' = <<>>
    BY <1>8, Zenon DEF WifiClear
  <2>3. UNCHANGED <<uart, lock, state, history>> /\ events' \in Seq(Events)
    <3>1. <<>> \in Seq(Events)
      OBVIOUS
    <3>2. events' \in Seq(Events)
      BY <3>1, <2>2, <1>5, Zenon
    <3> QED
      BY <3>2, <1>8 DEF WifiClear, WifiOnly
  <2>4. WifiTypes' /\ wifi'.pc = "handle"
    BY <2>1, <1>5, WifiToTypes DEF WifiTo
  <2>5. HostTypes' /\ PcTypes' /\ HistoryTypes' /\ LineTypes'
    BY <2>3, <2>4, <1>1, <1>2, <1>4 DEF HostTypes, PcTypes, HistoryTypes, LineTypes
  <2> QED
    BY <2>4, <2>5, <1>3, NextParts
<1>9. CASE WifiHandle
  <2>1. WifiTo("handle", Tail(wifi.copy), wifi.part)
    BY <1>1, <1>9, WifiSteps DEF WifiHandle
  <2>2. Tail(wifi.copy) \in Seq(Events)
    BY <1>5, <1>9 DEF WifiHandle
  <2>3. /\ UNCHANGED <<uart, lock, events, history>>
        /\ state' \in [Links -> {"disconnected", "connecting", "connected"}]
    BY <1>1, <1>9 DEF WifiHandle, WifiOnly, HostTypes
  <2>4. WifiTypes' /\ wifi'.pc = "handle"
    BY <2>1, <2>2, <1>5, WifiToTypes DEF WifiTo
  <2>5. HostTypes' /\ PcTypes' /\ HistoryTypes' /\ LineTypes'
    BY <2>3, <2>4, <1>1, <1>2, <1>4 DEF HostTypes, PcTypes, HistoryTypes, LineTypes
  <2> QED
    BY <2>4, <2>5, <1>3, NextParts
<1>10. CASE WifiListen
  <2>1. WifiTo("listen", wifi.copy, <<>>) /\ wifi.copy = <<>>
    BY <1>1, <1>10, WifiSteps DEF WifiListen
  <2>3. UNCHANGED <<uart, lock, state, events, history>>
    BY <1>10 DEF WifiListen, WifiOnly
  <2>4. WifiTypes' /\ wifi'.pc = "listen"
    BY <2>1, <1>5, WifiToTypes DEF WifiTo
  <2>5. HostTypes' /\ PcTypes' /\ HistoryTypes' /\ LineTypes'
    BY <2>3, <2>4, <1>1, <1>2, <1>4 DEF HostTypes, PcTypes, HistoryTypes, LineTypes
  <2> QED
    BY <2>4, <2>5, <1>3, NextParts
<1>11. CASE WifiRead
  <2>1. uart # <<>> /\ uart' = Tail(uart) /\ lock' = lock /\ state' = state /\ wifi.pc = "listen"
    BY <1>11 DEF WifiRead
  <2>2. PICK h : h = Head(uart)
    OBVIOUS
  <2>3. h.line.link \in Links /\ Remember(h) \in Parts
    BY <2>1, <2>2, <1>1, HeadTypes
  <2>4. /\ events' = events \o Queued(Response(wifi.part, h), h)
        /\ wifi' = [wifi EXCEPT !.part = Remember(h)]
        /\ history' = [history EXCEPT !.missed = @ \/ HalfMissing(wifi.part, h)]
    BY <1>11, <2>2, Zenon DEF WifiRead
  <2>5. WifiTo("listen", wifi.copy, Remember(h)) /\ wifi.copy = <<>>
    BY <1>1, <2>1, <2>4, WifiSteps DEF WifiTypes
  <2>6. events' \in Seq(Events)
    BY <2>3, <2>4, <1>5, QueuedTypes, QueuedKept
  <2>7. WifiTypes' /\ wifi'.pc = "listen"
    BY <2>3, <2>5, <1>5, WifiToTypes DEF WifiTo
  <2>8. LineTypes'
    BY <2>1, <1>1, <1>2, ReadKeepsLines
  <2>9. HistoryTypes'
    <3>1. PICK b : b = (history.missed \/ HalfMissing(wifi.part, h))
      OBVIOUS
    <3>2. b \in BOOLEAN
      BY <3>1, Zenon
    <3>3. history' = [history EXCEPT !.missed = b]
      BY <2>4, <3>1, Zenon
    <3> QED
      BY <3>2, <3>3, <1>1 DEF HistoryTypes
  <2>10. HostTypes' /\ PcTypes'
    BY <2>1, <2>6, <2>7, <1>1, <1>2, <1>4 DEF HostTypes, PcTypes
  <2> QED
    BY <2>7, <2>8, <2>9, <2>10, <1>3, NextParts
<1>12. CASE WifiQuiet
  <2>1. WifiTo("copy", wifi.copy, <<>>) /\ wifi.copy = <<>>
    BY <1>1, <1>12, WifiSteps DEF WifiQuiet, WifiTypes
  <2>3. UNCHANGED <<uart, lock, state, events, history>>
    BY <1>12 DEF WifiQuiet, WifiOnly
  <2>4. WifiTypes' /\ wifi'.pc = "copy"
    BY <2>1, <1>5, WifiToTypes DEF WifiTo
  <2>5. HostTypes' /\ PcTypes' /\ HistoryTypes' /\ LineTypes'
    BY <2>3, <2>4, <1>1, <1>2, <1>4 DEF HostTypes, PcTypes, HistoryTypes, LineTypes
  <2> QED
    BY <2>4, <2>5, <1>3, NextParts
<1>13. CASE WifiUnlock
  <2>1. WifiTo("sleep", wifi.copy, wifi.part) /\ wifi.copy = <<>>
    BY <1>1, <1>13, WifiSteps DEF WifiUnlock
  <2>3. lock' = "free" /\ UNCHANGED <<uart, state, events, history>>
    BY <1>13 DEF WifiUnlock, WifiOnly
  <2>4. WifiTypes' /\ wifi'.pc = "sleep"
    BY <2>1, <1>5, WifiToTypes DEF WifiTo
  <2>5. HostTypes' /\ PcTypes' /\ HistoryTypes' /\ LineTypes'
    BY <2>3, <2>4, <1>1, <1>2, <1>4 DEF HostTypes, PcTypes, HistoryTypes, LineTypes
  <2> QED
    BY <2>4, <2>5, <1>3, NextParts
<1> QED
  BY <1>6, <1>7, <1>8, <1>9, <1>10, <1>11, <1>12, <1>13 DEF WifiRun

-----------------------------------------------------------------------------
(* The client, action by action: what it does to its record and the history. *)

Pcs == {"idle", "openlock", "openwait", "openfailed", "poll", "using", "closelock", "closewait", "closed",
        "sendwait", "promptwait", "sentwait"}

(* What a step does to the record of the client. *)
ClientTo(pc, slot, part) ==
    /\ client' = [pc |-> client'.pc, slot |-> client'.slot, part |-> client'.part]
    /\ client'.pc = pc /\ client'.slot = slot /\ client'.part = part

(* The record of the client after an EXCEPT, field by field.               *)
LEMMA ClientSteps ==
    ASSUME ClientTypes, NEW pc, NEW slot, NEW part,
           \/ client' = [client EXCEPT !.pc = pc] /\ slot = client.slot /\ part = client.part
           \/ client' = [client EXCEPT !.pc = pc, !.slot = slot] /\ part = client.part
           \/ client' = [client EXCEPT !.pc = pc, !.part = part] /\ slot = client.slot
           \/ client' = [client EXCEPT !.part = part] /\ slot = client.slot /\ pc = client.pc
    PROVE  ClientTo(pc, slot, part)
BY DEF ClientTypes, ClientTo

(* What a step adds to the story.                                          *)
HistoryTo(missed, misled, lied) ==
    /\ HistoryTypes' /\ history'.wrote = history.wrote
    /\ (~history'.missed <=> ~history.missed /\ ~missed)
    /\ (~history'.misled <=> ~history.misled /\ ~misled)
    /\ (~history'.lied <=> ~history.lied /\ ~lied)

(* The history after ClientAnswered: what was true stays true.             *)
LEMMA HistorySteps ==
    ASSUME HistoryTypes, NEW missed, NEW misled, NEW lied,
           history' = [history EXCEPT !.missed = @ \/ missed, !.misled = @ \/ misled, !.lied = @ \/ lied]
    PROVE  HistoryTo(missed, misled, lied)
<1>1. PICK a, b, c : a = (history.missed \/ missed) /\ b = (history.misled \/ misled) /\ c = (history.lied \/ lied)
  OBVIOUS
<1>2. a \in BOOLEAN /\ b \in BOOLEAN /\ c \in BOOLEAN
  BY <1>1, Zenon
<1>3. history' = [history EXCEPT !.missed = a, !.misled = b, !.lied = c]
  BY <1>1, Zenon
<1>4. /\ history' \in [wrote : BOOLEAN, missed : BOOLEAN, misled : BOOLEAN, lied : BOOLEAN]
      /\ history'.wrote = history.wrote /\ history'.missed = a /\ history'.misled = b /\ history'.lied = c
  BY <1>2, <1>3 DEF HistoryTypes
<1> QED
  BY <1>1, <1>4, Zenon DEF HistoryTo, HistoryTypes

(* The history after a half was read into the queue.                       *)
LEMMA HistoryMissed ==
    ASSUME HistoryTypes, NEW missed, history' = [history EXCEPT !.missed = @ \/ missed]
    PROVE  HistoryTo(missed, FALSE, FALSE)
<1>1. PICK a : a = (history.missed \/ missed)
  OBVIOUS
<1>2. a \in BOOLEAN
  BY <1>1, Zenon
<1>3. history' = [history EXCEPT !.missed = a]
  BY <1>1, Zenon
<1>4. /\ history' \in [wrote : BOOLEAN, missed : BOOLEAN, misled : BOOLEAN, lied : BOOLEAN]
      /\ history'.wrote = history.wrote /\ history'.missed = a
      /\ history'.misled = history.misled /\ history'.lied = history.lied
  BY <1>2, <1>3 DEF HistoryTypes
<1> QED
  BY <1>1, <1>4, Zenon DEF HistoryTo, HistoryTypes

(* The history after a timeout.                                            *)
LEMMA HistoryTold ==
    ASSUME HistoryTypes, NEW misled, NEW lied,
           history' = [history EXCEPT !.misled = @ \/ misled, !.lied = @ \/ lied]
    PROVE  HistoryTo(FALSE, misled, lied)
<1>1. PICK b, c : b = (history.misled \/ misled) /\ c = (history.lied \/ lied)
  OBVIOUS
<1>2. b \in BOOLEAN /\ c \in BOOLEAN
  BY <1>1, Zenon
<1>3. history' = [history EXCEPT !.misled = b, !.lied = c]
  BY <1>1, Zenon
<1>4. /\ history' \in [wrote : BOOLEAN, missed : BOOLEAN, misled : BOOLEAN, lied : BOOLEAN]
      /\ history'.wrote = history.wrote /\ history'.missed = history.missed
      /\ history'.misled = b /\ history'.lied = c
  BY <1>2, <1>3 DEF HistoryTypes
<1> QED
  BY <1>1, <1>4, Zenon DEF HistoryTo, HistoryTypes

(* The whole of what a step of the client may change. *)
ClientKept == UNCHANGED <<impatient, mode, up, line, wifi>>

(* The types after a step of the client that keeps its fields typed.       *)
LEMMA ClientTypeStep ==
    ASSUME LinkTypes, ClientKept, NEW pc \in Pcs, NEW slot \in Links, NEW part \in Parts,
           ClientTo(pc, slot, part), HistoryTypes',
           cmds' \in Seq(Commands), lock' \in {"free", "wifi", "client"},
           state' \in [Links -> {"disconnected", "connecting", "connected"}],
           events' \in Seq(Events), uart' \in Seq(HalfLines), ticket' \in 0..MaxCalls[impatient],
           pc \in {"openlock", "closelock"} => ticket' < MaxCalls[impatient],
           pc \in Waits => ticket' >= 1
    PROVE  LinkTypes'
<1>1. /\ ModuleTypes /\ HostTypes /\ PcTypes /\ HistoryTypes
      /\ impatient \in BOOLEAN /\ WifiTypes /\ ClientTypes /\ LineTypes
  BY LinkParts, Zenon
<1>2. UNCHANGED <<impatient, mode, up, line, wifi>>
  BY DEF ClientKept
<1>3. ModuleTypes' /\ impatient' \in BOOLEAN
  BY <1>1, <1>2 DEF ModuleTypes, Commands
<1>4. HostTypes'
  BY DEF HostTypes
<1>5. client'.pc = pc /\ client'.slot = slot /\ wifi'.pc = wifi.pc /\ impatient' = impatient
  BY <1>2, Zenon DEF ClientTo
<1>6. PcTypes'
  BY <1>1, <1>5 DEF PcTypes, Pcs
<1>7. ClientTypes'
  <2>1. client' = [pc |-> client'.pc, slot |-> client'.slot, part |-> client'.part] /\ client'.part \in Parts
    BY Zenon DEF ClientTo
  <2> QED
    BY <2>1, <1>5 DEF ClientTypes
<1>8. WifiTypes' /\ LineTypes'
  BY <1>1, <1>2 DEF WifiTypes, LineTypes
<1> QED
  BY <1>3, <1>4, <1>6, <1>7, <1>8, NextParts

(* The actions, one by one: where the client goes.                         *)
Closed == {l \in Links : state[l] = "disconnected"}

(* Open claims the first socket that is not open.                          *)
LEMMA OpenDoes ==
    ASSUME LinkTypes, Open
    PROVE  /\ client.pc = "idle" /\ ticket < MaxCalls[impatient] /\ ClientKept
           /\ Min(Closed) \in Links /\ state[Min(Closed)] = "disconnected"
           /\ ClientTo("openlock", Min(Closed), client.part)
           /\ state' = [state EXCEPT ![Min(Closed)] = "connecting"]
           /\ UNCHANGED <<cmds, uart, lock, events, ticket, history>>
<1>1. ClientTypes
  BY LinkParts
<1>2. /\ client.pc = "idle" /\ ticket < MaxCalls[impatient] /\ ClientKept
      /\ Closed # {} /\ client' = [client EXCEPT !.pc = "openlock", !.slot = Min(Closed)]
      /\ state' = [state EXCEPT ![Min(Closed)] = "connecting"]
      /\ UNCHANGED <<cmds, uart, lock, events, ticket, history>>
  BY DEF Open, ClientOnly, ClientKept, Closed
<1>3. Min(Closed) \in Closed
  <2>1. Closed \in SUBSET Nat /\ Closed # {}
    BY <1>2, LinkAssumption DEF Closed
  <2> QED
    BY <2>1, LeastLink
<1>4. Min(Closed) \in Links /\ state[Min(Closed)] = "disconnected"
  BY <1>3 DEF Closed
<1>5. ClientTo("openlock", Min(Closed), client.part)
  BY <1>1, <1>2, ClientSteps, Zenon
<1> QED
  BY <1>2, <1>4, <1>5, Zenon

(* OpenCommand, CloseCommand and Send give a command.                      *)
Gives(op) ==
    /\ ticket' = ticket + 1
    /\ cmds' = Append(cmds, [op |-> op, link |-> client.slot, cmd |-> ticket'])

(* OpenCommand takes the lock and gives AT+CIPSTART.                       *)
LEMMA OpenCommandDoes ==
    ASSUME LinkTypes, OpenCommand
    PROVE  /\ client.pc = "openlock" /\ lock = "free" /\ lock' = "client" /\ Gives("start") /\ ClientKept
           /\ ClientTo("openwait", client.slot, client.part)
           /\ UNCHANGED <<uart, state, events, history>>
<1>1. ClientTypes
  BY LinkParts
<1>2. client' = [client EXCEPT !.pc = "openwait"]
  BY DEF OpenCommand
<1>3. ClientTo("openwait", client.slot, client.part)
  BY <1>1, <1>2, ClientSteps, Zenon
<1> QED
  BY <1>3 DEF OpenCommand, Command, Gives, ClientOnly, ClientKept

(* CloseCommand takes the lock and gives AT+CIPCLOSE.                      *)
LEMMA CloseCommandDoes ==
    ASSUME LinkTypes, CloseCommand
    PROVE  /\ client.pc = "closelock" /\ lock = "free" /\ lock' = "client" /\ Gives("stop") /\ ClientKept
           /\ ClientTo("closewait", client.slot, client.part)
           /\ UNCHANGED <<uart, state, events, history>>
<1>1. ClientTypes
  BY LinkParts
<1>2. client' = [client EXCEPT !.pc = "closewait"]
  BY DEF CloseCommand
<1>3. ClientTo("closewait", client.slot, client.part)
  BY <1>1, <1>2, ClientSteps, Zenon
<1> QED
  BY <1>3 DEF CloseCommand, Command, Gives, ClientOnly, ClientKept

(* Send gives AT+CIPSENDEX without the lock, and the history notes it.     *)
LEMMA SendDoes ==
    ASSUME LinkTypes, Send
    PROVE  /\ client.pc = "using" /\ ticket < MaxCalls[impatient] /\ Gives("send") /\ ClientKept
           /\ ClientTo("sendwait", client.slot, client.part)
           /\ UNCHANGED <<uart, lock, state, events>>
           /\ HistoryTypes' /\ history'.wrote = TRUE /\ history'.missed = history.missed
           /\ history'.misled = history.misled /\ history'.lied = history.lied
<1>1. ClientTypes /\ HistoryTypes
  BY LinkParts
<1>2. client' = [client EXCEPT !.pc = "sendwait"]
  BY DEF Send
<1>3. ClientTo("sendwait", client.slot, client.part)
  BY <1>1, <1>2, ClientSteps, Zenon
<1>4. history' = [history EXCEPT !.wrote = TRUE]
  BY DEF Send
<1>5. /\ HistoryTypes' /\ history'.wrote = TRUE /\ history'.missed = history.missed
      /\ history'.misled = history.misled /\ history'.lied = history.lied
  BY <1>1, <1>4 DEF HistoryTypes
<1>6. /\ client.pc = "using" /\ ticket < MaxCalls[impatient] /\ Gives("send") /\ ClientKept
      /\ UNCHANGED <<uart, lock, state, events>>
  BY DEF Send, Command, Gives, ClientOnly, ClientKept
<1> QED
  BY <1>3, <1>5, <1>6, Zenon

(* OpenFailed and CloseDone mark the socket, the others only move on.      *)
Moves(from, to) ==
    /\ client.pc = from /\ ClientTo(to, client.slot, client.part) /\ ClientKept
    /\ UNCHANGED <<cmds, uart, lock, events, ticket, history>>

(* OpenFailed gives the socket up.                                         *)
LEMMA OpenFailedDoes ==
    ASSUME LinkTypes, OpenFailed
    PROVE  Moves("openfailed", "idle") /\ state' = [state EXCEPT ![client.slot] = "disconnected"]
<1>1. ClientTypes
  BY LinkParts
<1>2. client' = [client EXCEPT !.pc = "idle"]
  BY DEF OpenFailed
<1>3. ClientTo("idle", client.slot, client.part)
  BY <1>1, <1>2, ClientSteps, Zenon
<1> QED
  BY <1>3 DEF OpenFailed, Moves, ClientOnly, ClientKept

(* CloseDone marks the socket closed.                                      *)
LEMMA CloseDoneDoes ==
    ASSUME LinkTypes, CloseDone
    PROVE  Moves("closed", "idle") /\ state' = [state EXCEPT ![client.slot] = "disconnected"]
<1>1. ClientTypes
  BY LinkParts
<1>2. client' = [client EXCEPT !.pc = "idle"]
  BY DEF CloseDone
<1>3. ClientTo("idle", client.slot, client.part)
  BY <1>1, <1>2, ClientSteps, Zenon
<1> QED
  BY <1>3 DEF CloseDone, Moves, ClientOnly, ClientKept

(* PollConnected goes on with a socket that is connected.                  *)
LEMMA PollConnectedDoes ==
    ASSUME LinkTypes, PollConnected
    PROVE  Moves("poll", "using") /\ state' = state /\ state[client.slot] = "connected"
<1>1. ClientTypes
  BY LinkParts
<1>2. client' = [client EXCEPT !.pc = "using"]
  BY DEF PollConnected
<1>3. ClientTo("using", client.slot, client.part)
  BY <1>1, <1>2, ClientSteps, Zenon
<1> QED
  BY <1>3 DEF PollConnected, Moves, ClientOnly, ClientKept

(* PollTimeout gives up, once nothing can come any more or earlier.        *)
LEMMA PollTimeoutDoes ==
    ASSUME LinkTypes, PollTimeout
    PROVE  /\ Moves("poll", "idle") /\ state' = state /\ state[client.slot] # "connected"
           /\ impatient \/ (Silent /\ uart = <<>> /\ events = <<>> /\ wifi.pc = "sleep")
<1>1. ClientTypes
  BY LinkParts
<1>2. client' = [client EXCEPT !.pc = "idle"]
  BY DEF PollTimeout
<1>3. ClientTo("idle", client.slot, client.part)
  BY <1>1, <1>2, ClientSteps, Zenon
<1> QED
  BY <1>3, Zenon DEF PollTimeout, Moves, ClientOnly, ClientKept

(* Leave changes nothing but where the client is.                          *)
LEMMA LeaveDoes ==
    ASSUME LinkTypes, Leave
    PROVE  Moves("using", "idle") /\ state' = state
<1>1. ClientTypes
  BY LinkParts
<1>2. client' = [client EXCEPT !.pc = "idle"]
  BY DEF Leave
<1>3. ClientTo("idle", client.slot, client.part)
  BY <1>1, <1>2, ClientSteps, Zenon
<1> QED
  BY <1>3 DEF Leave, Moves, ClientOnly, ClientKept

(* Neither does StartClose, which is left a command to give.               *)
LEMMA StartCloseDoes ==
    ASSUME LinkTypes, StartClose
    PROVE  Moves("using", "closelock") /\ state' = state /\ ticket < MaxCalls[impatient]
<1>1. ClientTypes
  BY LinkParts
<1>2. client' = [client EXCEPT !.pc = "closelock"]
  BY DEF StartClose
<1>3. ClientTo("closelock", client.slot, client.part)
  BY <1>1, <1>2, ClientSteps, Zenon
<1> QED
  BY <1>3 DEF StartClose, Moves, ClientOnly, ClientKept

(* The three ways in which wait() goes on.                                 *)
LEMMA AnsweredDoes ==
    ASSUME LinkTypes, ClientAnswered, NEW h, h = Head(uart),
           NEW answer, answer = Response(client.part, h)
    PROVE  /\ Waiting /\ uart # <<>> /\ uart' = Tail(uart) /\ ClientKept
           /\ answer \in Expected(client.pc)
           /\ ClientTo(After(client.pc, answer), client.slot, <<>>)
           /\ HistoryTo(HalfMissing(client.part, h), UnderLock /\ h.line.cmd # ticket,
                        Reported(client.pc, answer) /\ h.line.cmd # ticket)
           /\ lock' = Release
           /\ cmds' = IF client.pc = "promptwait"
                      THEN Append(cmds, [op |-> "data", link |-> client.slot, cmd |-> ticket])
                      ELSE cmds
           /\ UNCHANGED <<state, events, ticket>>
<1>1. ClientTypes /\ HistoryTypes
  BY LinkParts
<1>2. /\ answer \in Expected(client.pc)
      /\ client' = [client EXCEPT !.pc = After(client.pc, answer), !.part = <<>>]
      /\ history' = [history EXCEPT
                        !.missed = @ \/ HalfMissing(client.part, h),
                        !.misled = @ \/ (UnderLock /\ h.line.cmd # ticket),
                        !.lied = @ \/ (Reported(client.pc, answer) /\ h.line.cmd # ticket)]
  BY Zenon DEF ClientAnswered
<1>3. ClientTo(After(client.pc, answer), client.slot, <<>>)
  BY <1>1, <1>2, ClientSteps, Zenon
<1>4. HistoryTo(HalfMissing(client.part, h), UnderLock /\ h.line.cmd # ticket,
                Reported(client.pc, answer) /\ h.line.cmd # ticket)
  BY <1>1, <1>2, HistorySteps, Zenon
<1>5. /\ Waiting /\ uart # <<>> /\ uart' = Tail(uart) /\ ClientKept /\ lock' = Release
      /\ cmds' = IF client.pc = "promptwait"
                 THEN Append(cmds, [op |-> "data", link |-> client.slot, cmd |-> ticket])
                 ELSE cmds
      /\ UNCHANGED <<state, events, ticket>>
  BY DEF ClientAnswered, ClientOnly, ClientKept
<1> QED
  BY <1>2, <1>3, <1>4, <1>5, Zenon

(* ClientQueues: the half was not the answer.                              *)
LEMMA QueuesDoes ==
    ASSUME LinkTypes, ClientQueues, NEW h, h = Head(uart)
    PROVE  /\ Waiting /\ uart # <<>> /\ uart' = Tail(uart) /\ ClientKept
           /\ Response(client.part, h) \notin Expected(client.pc)
           /\ ClientTo(client.pc, client.slot, Remember(h))
           /\ events' = events \o Queued(Response(client.part, h), h)
           /\ HistoryTo(HalfMissing(client.part, h), FALSE, FALSE)
           /\ UNCHANGED <<cmds, lock, state, ticket>>
<1>1. ClientTypes /\ HistoryTypes
  BY LinkParts
<1>2. /\ Response(client.part, h) \notin Expected(client.pc)
      /\ client' = [client EXCEPT !.part = Remember(h)]
      /\ events' = events \o Queued(Response(client.part, h), h)
      /\ history' = [history EXCEPT !.missed = @ \/ HalfMissing(client.part, h)]
  BY Zenon DEF ClientQueues
<1>3. ClientTo(client.pc, client.slot, Remember(h))
  BY <1>1, <1>2, ClientSteps, Zenon
<1>4. HistoryTo(HalfMissing(client.part, h), FALSE, FALSE)
  BY <1>1, <1>2, HistoryMissed, Zenon
<1>5. /\ Waiting /\ uart # <<>> /\ uart' = Tail(uart) /\ ClientKept
      /\ UNCHANGED <<cmds, lock, state, ticket>>
  BY DEF ClientQueues, ClientOnly, ClientKept
<1> QED
  BY <1>2, <1>3, <1>4, <1>5, Zenon

(* ClientTimeout: there is nothing to read.                                *)
LEMMA TimeoutDoes ==
    ASSUME LinkTypes, ClientTimeout
    PROVE  /\ Waiting /\ uart = <<>> /\ (impatient \/ Silent) /\ ClientKept
           /\ ClientTo(AfterTimeout(client.pc), client.slot, <<>>)
           /\ HistoryTo(FALSE, UnderLock, FALSE)
           /\ lock' = Release
           /\ UNCHANGED <<cmds, uart, state, events, ticket>>
<1>1. ClientTypes /\ HistoryTypes
  BY LinkParts
<1>2. client' = [client EXCEPT !.pc = AfterTimeout(client.pc), !.part = <<>>]
  BY DEF ClientTimeout
<1>3. ClientTo(AfterTimeout(client.pc), client.slot, <<>>)
  BY <1>1, <1>2, ClientSteps, Zenon
<1>4. history' = [history EXCEPT !.misled = @ \/ UnderLock, !.lied = @ \/ Reported(client.pc, "OK")]
  BY DEF ClientTimeout
<1>5. HistoryTo(FALSE, UnderLock, Reported(client.pc, "OK"))
  BY <1>1, <1>4, HistoryTold, Zenon
<1>6. ~Reported(client.pc, "OK")
  BY DEF Reported
<1>7. HistoryTo(FALSE, UnderLock, FALSE)
  BY <1>5, <1>6, Zenon DEF HistoryTo
<1>8. /\ Waiting /\ uart = <<>> /\ (impatient \/ Silent) /\ ClientKept /\ lock' = Release
      /\ UNCHANGED <<cmds, uart, state, events, ticket>>
  BY Zenon DEF ClientTimeout, ClientOnly, ClientKept
<1> QED
  BY <1>3, <1>7, <1>8, Zenon

-----------------------------------------------------------------------------
(* Type correctness of every step.                                         *)

(* A command that is given is typed.                                       *)
LEMMA GivesTypes ==
    ASSUME LinkTypes, NEW op \in {"start", "stop", "send", "data"}, NEW k, k \in 1..MaxCalls[impatient],
           cmds' = Append(cmds, [op |-> op, link |-> client.slot, cmd |-> k])
    PROVE  cmds' \in Seq(Commands)
<1>1. cmds \in Seq(Commands) /\ client.slot \in Links
  BY LinkParts DEF ModuleTypes, PcTypes
<1>2. PICK c : c = [op |-> op, link |-> client.slot, cmd |-> k]
  OBVIOUS
<1>3. c \in Commands
  BY <1>1, <1>2 DEF Commands
<1> QED
  BY <1>1, <1>2, <1>3

(* The types after a step that gives a command.                            *)
LEMMA CommandTypes ==
    ASSUME LinkTypes, NEW op \in {"start", "stop", "send"}, Gives(op), ticket < MaxCalls[impatient]
    PROVE  cmds' \in Seq(Commands) /\ ticket' \in 0..MaxCalls[impatient] /\ ticket' >= 1
<1>1. ticket \in Nat /\ MaxCalls[impatient] \in Nat
  BY BoundTypes
<1>2. ticket' \in 1..MaxCalls[impatient]
  BY <1>1 DEF Gives
<1>3. cmds' \in Seq(Commands)
  BY <1>2, GivesTypes DEF Gives
<1> QED
  BY <1>1, <1>2, <1>3

(* The types after a step that only moves on.                              *)
LEMMA MovesTypes ==
    ASSUME LinkTypes, NEW from, NEW to \in Pcs, Moves(from, to), to \notin Waits,
           to = "closelock" => ticket < MaxCalls[impatient], to # "openlock",
           state' \in [Links -> {"disconnected", "connecting", "connected"}]
    PROVE  LinkTypes'
<1>1. /\ ModuleTypes /\ HostTypes /\ PcTypes /\ HistoryTypes /\ ClientTypes /\ LineTypes
  BY LinkParts
<1>2. ClientTo(to, client.slot, client.part) /\ ClientKept
      /\ UNCHANGED <<cmds, uart, lock, events, ticket, history>>
  BY DEF Moves
<1>3. client.slot \in Links /\ client.part \in Parts /\ cmds \in Seq(Commands)
      /\ lock \in {"free", "wifi", "client"} /\ events \in Seq(Events) /\ uart \in Seq(HalfLines)
      /\ ticket \in 0..MaxCalls[impatient]
  BY <1>1 DEF PcTypes, ClientTypes, ModuleTypes, HostTypes, LineTypes
<1>4. HistoryTypes'
  BY <1>1, <1>2 DEF HistoryTypes
<1> QED
  BY <1>2, <1>3, <1>4, ClientTypeStep

(* Where an answer takes it.                                               *)
LEMMA AfterTypes ==
    ASSUME NEW pc \in Pcs, NEW answer, answer \in Expected(pc)
    PROVE  After(pc, answer) \in {"poll", "openfailed", "closed", "idle", "promptwait", "sentwait", "using"}
BY DEF After, Expected

(* Only a client that waits expects an answer.                             *)
LEMMA AfterWaits ==
    ASSUME NEW pc \in Pcs, NEW answer, answer \in Expected(pc)
    PROVE  pc \in Waits
BY DEF Expected, Waits

(* The types after a step of the client.                                   *)
LEMMA ClientTypeSteps ==
    ASSUME LinkTypes, Open \/ Leave \/ StartClose \/ Send \/ ClientTakesLock \/ ClientRun
    PROVE  LinkTypes'
<1>1. /\ ModuleTypes /\ HostTypes /\ PcTypes /\ HistoryTypes /\ ClientTypes /\ LineTypes
  BY LinkParts
<1>2. client.slot \in Links /\ client.part \in Parts /\ cmds \in Seq(Commands) /\ client.pc \in Pcs
      /\ lock \in {"free", "wifi", "client"} /\ events \in Seq(Events) /\ uart \in Seq(HalfLines)
      /\ state \in [Links -> {"disconnected", "connecting", "connected"}]
      /\ ticket \in 0..MaxCalls[impatient] /\ <<>> \in Parts
      /\ ("openlock" \in Pcs /\ "openwait" \in Pcs /\ "closewait" \in Pcs /\ "sendwait" \in Pcs)
      /\ ("idle" \in Pcs /\ "using" \in Pcs /\ "closelock" \in Pcs)
      /\ ("idle" \notin Waits /\ "using" \notin Waits /\ "closelock" \notin Waits)
  BY <1>1 DEF PcTypes, ClientTypes, ModuleTypes, HostTypes, LineTypes, Pcs, Parts, Waits
<1>3. CASE Open
  <2>1. /\ ticket < MaxCalls[impatient] /\ ClientKept
        /\ Min(Closed) \in Links /\ ClientTo("openlock", Min(Closed), client.part)
        /\ state' = [state EXCEPT ![Min(Closed)] = "connecting"]
        /\ UNCHANGED <<cmds, uart, lock, events, ticket, history>>
    BY <1>3, OpenDoes
  <2>2. HistoryTypes' /\ state' \in [Links -> {"disconnected", "connecting", "connected"}]
    BY <1>1, <1>2, <2>1 DEF HistoryTypes
  <2>3. "openlock" \notin Waits
    BY DEF Waits
  <2> QED
    BY <1>2, <2>1, <2>2, <2>3, ClientTypeStep
<1>4. CASE Leave
  <2>1. Moves("using", "idle") /\ state' = state
    BY <1>4, LeaveDoes
  <2> QED
    BY <1>2, <2>1, MovesTypes
<1>5. CASE StartClose
  <2>1. Moves("using", "closelock") /\ state' = state /\ ticket < MaxCalls[impatient]
    BY <1>5, StartCloseDoes
  <2> QED
    BY <1>2, <2>1, MovesTypes
<1>6. CASE Send
  <2>1. /\ ticket < MaxCalls[impatient] /\ Gives("send") /\ ClientKept
        /\ ClientTo("sendwait", client.slot, client.part)
        /\ UNCHANGED <<uart, lock, state, events>> /\ HistoryTypes'
    BY <1>6, SendDoes
  <2>2. cmds' \in Seq(Commands) /\ ticket' \in 0..MaxCalls[impatient] /\ ticket' >= 1
    BY <2>1, CommandTypes
  <2> QED
    BY <1>2, <2>1, <2>2, ClientTypeStep
<1>7. CASE OpenCommand
  <2>1. /\ client.pc = "openlock" /\ Gives("start") /\ ClientKept /\ lock' = "client"
        /\ ClientTo("openwait", client.slot, client.part)
        /\ UNCHANGED <<uart, state, events, history>>
    BY <1>7, OpenCommandDoes
  <2>2. ticket < MaxCalls[impatient]
    BY <1>1, <2>1 DEF ClientTypes
  <2>3. cmds' \in Seq(Commands) /\ ticket' \in 0..MaxCalls[impatient] /\ ticket' >= 1
    BY <2>1, <2>2, CommandTypes
  <2>4. HistoryTypes'
    BY <1>1, <2>1 DEF HistoryTypes
  <2> QED
    BY <1>2, <2>1, <2>3, <2>4, ClientTypeStep
<1>8. CASE CloseCommand
  <2>1. /\ client.pc = "closelock" /\ Gives("stop") /\ ClientKept /\ lock' = "client"
        /\ ClientTo("closewait", client.slot, client.part)
        /\ UNCHANGED <<uart, state, events, history>>
    BY <1>8, CloseCommandDoes
  <2>2. ticket < MaxCalls[impatient]
    BY <1>1, <2>1 DEF ClientTypes
  <2>3. cmds' \in Seq(Commands) /\ ticket' \in 0..MaxCalls[impatient] /\ ticket' >= 1
    BY <2>1, <2>2, CommandTypes
  <2>4. HistoryTypes'
    BY <1>1, <2>1 DEF HistoryTypes
  <2> QED
    BY <1>2, <2>1, <2>3, <2>4, ClientTypeStep
<1>9. CASE OpenFailed
  <2>1. Moves("openfailed", "idle") /\ state' = [state EXCEPT ![client.slot] = "disconnected"]
    BY <1>9, OpenFailedDoes
  <2> QED
    BY <1>2, <2>1, MovesTypes
<1>10. CASE ClientAnswered
  <2>1. PICK h : h = Head(uart)
    OBVIOUS
  <2>2. PICK answer : answer = Response(client.part, h)
    OBVIOUS
  <2>3. /\ uart # <<>> /\ uart' = Tail(uart) /\ ClientKept
        /\ answer \in Expected(client.pc)
        /\ ClientTo(After(client.pc, answer), client.slot, <<>>) /\ HistoryTypes'
        /\ lock' = Release
        /\ cmds' = IF client.pc = "promptwait"
                   THEN Append(cmds, [op |-> "data", link |-> client.slot, cmd |-> ticket])
                   ELSE cmds
        /\ UNCHANGED <<state, events, ticket>>
    BY <1>10, <2>1, <2>2, AnsweredDoes, Zenon DEF HistoryTo
  <2>4. client.pc \in Waits /\ ticket >= 1 /\ ticket \in Nat /\ MaxCalls[impatient] \in Nat
    BY <1>1, <1>2, <2>3, AfterWaits, BoundTypes DEF ClientTypes
  <2>5. ticket \in 1..MaxCalls[impatient]
    BY <1>2, <2>4
  <2>6. cmds' \in Seq(Commands)
    <3>1. CASE client.pc = "promptwait"
      <4>1. cmds' = Append(cmds, [op |-> "data", link |-> client.slot, cmd |-> ticket])
        BY <2>3, <3>1, Zenon
      <4> QED
        BY <4>1, <2>5, GivesTypes
    <3>2. CASE client.pc # "promptwait"
      BY <1>2, <2>3, <3>2, Zenon
    <3> QED
      BY <3>1, <3>2
  <2>7. lock' \in {"free", "wifi", "client"}
    BY <1>2, <2>3 DEF Release
  <2>8. uart' \in Seq(HalfLines)
    BY <1>1, <2>3, HeadTypes
  <2>9. After(client.pc, answer) \in Pcs \ {"openlock", "closelock"}
    BY <1>2, <2>3, AfterTypes DEF Pcs
  <2> QED
    BY <1>2, <2>3, <2>4, <2>6, <2>7, <2>8, <2>9, ClientTypeStep
<1>11. CASE ClientQueues
  <2>1. PICK h : h = Head(uart)
    OBVIOUS
  <2>2. /\ Waiting /\ uart # <<>> /\ uart' = Tail(uart) /\ ClientKept
        /\ ClientTo(client.pc, client.slot, Remember(h))
        /\ events' = events \o Queued(Response(client.part, h), h)
        /\ HistoryTypes' /\ UNCHANGED <<cmds, lock, state, ticket>>
    BY <1>11, <2>1, QueuesDoes, Zenon DEF HistoryTo
  <2>3. uart' \in Seq(HalfLines) /\ h.line.link \in Links /\ Remember(h) \in Parts
    BY <1>1, <2>1, <2>2, HeadTypes
  <2>4. events' \in Seq(Events)
    BY <2>3, <2>2, <1>2, QueuedTypes, QueuedKept
  <2>5. client.pc \in {"openlock", "closelock"} => ticket' < MaxCalls[impatient]
    BY <1>1, <2>2 DEF ClientTypes
  <2>6. client.pc \in Waits => ticket' >= 1
    BY <1>1, <2>2 DEF ClientTypes
  <2> QED
    BY <1>2, <2>2, <2>3, <2>4, <2>5, <2>6, ClientTypeStep
<1>12. CASE ClientTimeout
  <2>1. /\ Waiting /\ ClientKept
        /\ ClientTo(AfterTimeout(client.pc), client.slot, <<>>)
        /\ HistoryTypes' /\ lock' = Release
        /\ UNCHANGED <<cmds, uart, state, events, ticket>>
    BY <1>12, TimeoutDoes, Zenon DEF HistoryTo
  <2>2. client.pc \in Waits
    BY <1>2, <2>1 DEF Waiting, Expected, Waits
  <2>3. ticket' >= 1
    BY <1>1, <2>1, <2>2 DEF ClientTypes
  <2>4. lock' \in {"free", "wifi", "client"}
    BY <1>2, <2>1 DEF Release
  <2>5. AfterTimeout(client.pc) \in Pcs \ {"openlock", "closelock"}
    BY <2>2 DEF AfterTimeout, After, Waits, Pcs
  <2> QED
    BY <1>2, <2>1, <2>3, <2>4, <2>5, ClientTypeStep
<1>13. CASE PollConnected
  <2>1. Moves("poll", "using") /\ state' = state
    BY <1>13, PollConnectedDoes
  <2> QED
    BY <1>2, <2>1, MovesTypes
<1>14. CASE PollTimeout
  <2>1. Moves("poll", "idle") /\ state' = state
    BY <1>14, PollTimeoutDoes
  <2> QED
    BY <1>2, <2>1, MovesTypes
<1>15. CASE CloseDone
  <2>1. Moves("closed", "idle") /\ state' = [state EXCEPT ![client.slot] = "disconnected"]
    BY <1>15, CloseDoneDoes
  <2> QED
    BY <1>2, <2>1, MovesTypes
<1> QED
  BY <1>3, <1>4, <1>5, <1>6, <1>7, <1>8, <1>9, <1>10, <1>11, <1>12, <1>13, <1>14, <1>15
     DEF ClientTakesLock, ClientRun

(* The types after any step.                                               *)
LEMMA TypesStep == LinkTypes /\ [Next]_vars => LinkTypes'
<1> SUFFICES ASSUME LinkTypes, [Next]_vars PROVE LinkTypes'
  OBVIOUS
<1>1. CASE UNCHANGED vars
  <2>1. UNCHANGED <<impatient, cmds, mode, up, line, uart, lock, state, events, wifi, client, ticket, history>>
    BY <1>1 DEF vars, module
  <2> QED
    BY <2>1, LinkParts, NextParts DEF ModuleTypes, HostTypes, PcTypes, HistoryTypes, WifiTypes, ClientTypes,
       LineTypes, Commands
<1> QED
  BY <1>1, ModuleSteps, WifiTypeSteps, ClientTypeSteps DEF Next

(* Type correctness of the link: the two tasks, the module, the stream of  *)
(* halves and the queue of changes keep their types in every behaviour,    *)
(* for any number of links and calls.                                      *)
THEOREM LinkTypesHold == Spec => []TypeOK
<1>1. Init => LinkTypes
  BY TypesInit
<1>2. LinkTypes => TypeOK
  BY DEF LinkTypes
<1> QED
  BY <1>1, <1>2, TypesStep, PTL DEF Spec

-----------------------------------------------------------------------------
(* The lock, and the stream of halves.                                     *)

LockHeld ==
    /\ lock = "client" <=> UnderLock
    /\ lock = "wifi" <=> wifi.pc # "sleep"

(* At first nobody holds the lock.                                         *)
LEMMA LockInit == Init => LockHeld
BY DEF Init, LockHeld, UnderLock

(* A move between places that do not hold the lock keeps it right.         *)
LEMMA MovesLock ==
    ASSUME LockHeld, NEW from, NEW to, Moves(from, to), to \notin {"openwait", "closewait"},
           from \notin {"openwait", "closewait"}
    PROVE  LockHeld'
BY DEF LockHeld, UnderLock, Moves, ClientTo, ClientKept

(* The places in which the client waits.                                   *)
LEMMA WaitingPcs == Waiting <=> client.pc \in Waits
BY DEF Waiting, Expected, Waits

(* Each step takes and releases m_lock as its task's place requires.       *)
LEMMA LockStep == LinkTypes /\ LockHeld /\ [Next]_vars => LockHeld'
<1> SUFFICES ASSUME LinkTypes, LockHeld, [Next]_vars PROVE LockHeld'
  OBVIOUS
<1>0. WifiTypes /\ client.pc \in Pcs
  BY LinkParts DEF PcTypes, Pcs
<1>1. CASE UNCHANGED vars \/ Execute \/ PeerCloses \/ Transmit
  BY <1>1 DEF vars, Execute, PeerCloses, Transmit, LockHeld, UnderLock
<1>2. CASE WifiLock
  <2>1. WifiTo("copy", wifi.copy, wifi.part)
    BY <1>0, <1>2, WifiSteps DEF WifiLock
  <2> QED
    BY <2>1, <1>2 DEF WifiLock, WifiTo, LockHeld, UnderLock, WifiOnly
<1>3. CASE WifiCopy \/ WifiClear \/ WifiHandle \/ WifiListen \/ WifiRead \/ WifiQuiet
  <2>1. lock' = lock /\ client' = client /\ wifi.pc # "sleep"
    BY <1>3 DEF WifiCopy, WifiClear, WifiHandle, WifiListen, WifiRead, WifiQuiet, WifiOnly
  <2>2. wifi'.pc # "sleep"
    BY <1>0, <1>3, <2>1 DEF WifiTypes, WifiCopy, WifiClear, WifiHandle, WifiListen, WifiRead, WifiQuiet
  <2> QED
    BY <2>1, <2>2 DEF LockHeld, UnderLock
<1>4. CASE WifiUnlock
  <2>1. WifiTo("sleep", wifi.copy, wifi.part)
    BY <1>0, <1>4, WifiSteps DEF WifiUnlock
  <2> QED
    BY <2>1, <1>4 DEF WifiUnlock, WifiTo, LockHeld, UnderLock, WifiOnly
<1>5. CASE Open
  BY <1>5, OpenDoes DEF ClientTo, ClientKept, LockHeld, UnderLock
<1>6. CASE Leave
  BY <1>6, LeaveDoes, MovesLock
<1>7. CASE StartClose
  BY <1>7, StartCloseDoes, MovesLock
<1>8. CASE Send
  BY <1>8, SendDoes DEF ClientTo, ClientKept, LockHeld, UnderLock
<1>9. CASE OpenCommand
  BY <1>9, OpenCommandDoes DEF ClientTo, ClientKept, LockHeld, UnderLock
<1>10. CASE CloseCommand
  BY <1>10, CloseCommandDoes DEF ClientTo, ClientKept, LockHeld, UnderLock
<1>11. CASE OpenFailed
  BY <1>11, OpenFailedDoes, MovesLock
<1>12. CASE CloseDone
  BY <1>12, CloseDoneDoes, MovesLock
<1>13. CASE PollConnected
  BY <1>13, PollConnectedDoes, MovesLock
<1>14. CASE PollTimeout
  BY <1>14, PollTimeoutDoes, MovesLock
<1>15. CASE ClientAnswered
  <2>1. PICK h : h = Head(uart)
    OBVIOUS
  <2>2. PICK answer : answer = Response(client.part, h)
    OBVIOUS
  <2>3. ClientKept /\ answer \in Expected(client.pc) /\ lock' = Release
        /\ ClientTo(After(client.pc, answer), client.slot, <<>>)
    BY <1>15, <2>1, <2>2, AnsweredDoes, Zenon
  <2>4. After(client.pc, answer) \notin {"openwait", "closewait"}
    BY <1>0, <2>3, AfterTypes
  <2> QED
    BY <2>3, <2>4 DEF ClientTo, ClientKept, LockHeld, UnderLock, Release
<1>16. CASE ClientQueues
  <2>1. PICK h : h = Head(uart)
    OBVIOUS
  <2>2. ClientKept /\ ClientTo(client.pc, client.slot, Remember(h)) /\ lock' = lock
    BY <1>16, <2>1, QueuesDoes, Zenon
  <2> QED
    BY <2>2 DEF ClientTo, ClientKept, LockHeld, UnderLock
<1>17. CASE ClientTimeout
  <2>1. ClientKept /\ ClientTo(AfterTimeout(client.pc), client.slot, <<>>) /\ lock' = Release /\ Waiting
    BY <1>17, TimeoutDoes, Zenon
  <2>2. AfterTimeout(client.pc) \notin {"openwait", "closewait"}
    BY <2>1, WaitingPcs DEF AfterTimeout, After, Waits
  <2> QED
    BY <2>1, <2>2 DEF ClientTo, ClientKept, LockHeld, UnderLock, Release
<1> QED
  BY <1>1, <1>2, <1>3, <1>4, <1>5, <1>6, <1>7, <1>8, <1>9, <1>10, <1>11, <1>12, <1>13, <1>14, <1>15, <1>16, <1>17
     DEF Next, WifiRun, ClientRun, ClientTakesLock

-----------------------------------------------------------------------------
At == 1..Len(Stream)

(* A half is read from the front of the stream.                            *)
Shorter == /\ Len(Stream) \in Nat /\ Len(Stream) >= 1 /\ Len(Stream') = Len(Stream) - 1
           /\ \A j \in 1..Len(Stream') : Stream'[j] = Stream[j + 1]

(* One line, or two, come to its end.                                      *)
Kept(n) == /\ Len(Stream) \in Nat /\ Len(Stream') = Len(Stream) + n
           /\ \A j \in 1..Len(Stream) : Stream'[j] = Stream[j]
Longer1(t, l, c) ==
    Kept(2) /\ ArePair(Stream'[Len(Stream) + 1], Stream'[Len(Stream) + 2], t, l, c)
Longer2(t, u, l, c) ==
    /\ Kept(4) /\ ArePair(Stream'[Len(Stream) + 1], Stream'[Len(Stream) + 2], t, l, c)
    /\ ArePair(Stream'[Len(Stream) + 3], Stream'[Len(Stream) + 4], u, l, c)

(* The stream is a sequence of halves.                                     *)
LEMMA StreamTypes == LineTypes => Stream \in Seq(HalfLines) /\ Len(Stream) \in Nat
BY DEF LineTypes, Stream

(* Reading from the UART takes the first half of the stream.               *)
LEMMA ReadsStream ==
    ASSUME LineTypes, uart # <<>>, uart' = Tail(uart), line' = line
    PROVE  Shorter /\ Stream[1] = Head(uart)
<1>1. uart \in Seq(HalfLines) /\ line \in Seq(HalfLines)
  BY DEF LineTypes
<1>2. Len(uart) \in Nat /\ Len(uart) >= 1 /\ Len(line) \in Nat
  BY <1>1
<1>3. /\ Tail(uart) \in Seq(HalfLines) /\ Len(Tail(uart)) = Len(uart) - 1
      /\ \A j \in 1..(Len(uart) - 1) : Tail(uart)[j] = uart[j + 1]
      /\ Head(uart) = uart[1]
  BY <1>1, <1>2
<1>4. /\ Len(Stream) = Len(uart) + Len(line)
      /\ \A j \in 1..(Len(uart) + Len(line)) :
            Stream[j] = IF j <= Len(uart) THEN uart[j] ELSE line[j - Len(uart)]
  BY <1>1, ConcatProperties DEF Stream
<1>5. /\ Len(Stream') = Len(uart) - 1 + Len(line)
      /\ \A j \in 1..(Len(uart) - 1 + Len(line)) :
            Stream'[j] = IF j <= Len(uart) - 1 THEN Tail(uart)[j] ELSE line[j - (Len(uart) - 1)]
  <2>1. PICK r : r = Tail(uart)
    OBVIOUS
  <2>2. r \in Seq(HalfLines) /\ Len(r) = Len(uart) - 1
    BY <1>3, <2>1
  <2>3. Stream' = r \o line
    BY <2>1 DEF Stream
  <2> QED
    BY <1>1, <2>1, <2>2, <2>3, ConcatProperties
<1>6. ASSUME NEW j \in 1..Len(Stream') PROVE Stream'[j] = Stream[j + 1]
  <2>1. j \in 1..(Len(uart) - 1 + Len(line)) /\ j + 1 \in 1..(Len(uart) + Len(line))
    BY <1>2, <1>5
  <2>2. CASE j <= Len(uart) - 1
    <3>1. Stream'[j] = Tail(uart)[j] /\ Stream[j + 1] = uart[j + 1] /\ j \in 1..(Len(uart) - 1)
      BY <2>1, <2>2, <1>2, <1>4, <1>5
    <3> QED
      BY <3>1, <1>3
  <2>3. CASE ~(j <= Len(uart) - 1)
    <3>1. Stream'[j] = line[j - (Len(uart) - 1)] /\ Stream[j + 1] = line[j + 1 - Len(uart)]
      BY <2>1, <2>3, <1>2, <1>4, <1>5
    <3>2. j - (Len(uart) - 1) = j + 1 - Len(uart)
      BY <2>1, <1>2
    <3> QED
      BY <3>1, <3>2
  <2> QED
    BY <2>2, <2>3
<1>7. Stream[1] = Head(uart)
  BY <1>2, <1>3, <1>4
<1> QED
  BY <1>2, <1>4, <1>5, <1>6, <1>7 DEF Shorter

(* What is said comes to the end of the stream.                            *)
LEMMA Lengthens ==
    ASSUME LineTypes, NEW new, Adds(new)
    PROVE  /\ Kept(Len(new))
           /\ \A j \in 1..Len(new) : Stream'[Len(Stream) + j] = new[j]
<1>1. Stream \in Seq(HalfLines) /\ new \in Seq(HalfLines) /\ Len(Stream) \in Nat /\ Len(new) \in Nat
  BY StreamTypes DEF Adds
<1>2. Stream' = Stream \o new
  BY AddingTypes
<1>3. /\ Len(Stream') = Len(Stream) + Len(new)
      /\ \A j \in 1..(Len(Stream) + Len(new)) :
            Stream'[j] = IF j <= Len(Stream) THEN Stream[j] ELSE new[j - Len(Stream)]
  BY <1>1, <1>2, ConcatProperties
<1>4. Kept(Len(new))
  BY <1>1, <1>3 DEF Kept
<1>5. ASSUME NEW j \in 1..Len(new) PROVE Stream'[Len(Stream) + j] = new[j]
  <2>1. Len(Stream) + j \in 1..(Len(Stream) + Len(new)) /\ ~(Len(Stream) + j <= Len(Stream))
        /\ (Len(Stream) + j) - Len(Stream) = j
    BY <1>1
  <2> QED
    BY <2>1, <1>3
<1> QED
  BY <1>4, <1>5

(* One line is a pair at its end.                                          *)
LEMMA AddsLonger1 ==
    ASSUME LineTypes, NEW t, NEW l, NEW c, Adds1(t, l, c) PROVE Longer1(t, l, c)
<1>1. PICK new : Says1(new, t, l, c) /\ Adds(new)
  BY DEF Adds1
<1>2. Len(new) = 2 /\ ArePair(new[1], new[2], t, l, c)
  BY <1>1 DEF Says1
<1>3. Kept(2) /\ Stream'[Len(Stream) + 1] = new[1] /\ Stream'[Len(Stream) + 2] = new[2]
  BY <1>1, <1>2, Lengthens
<1> QED
  BY <1>2, <1>3, Zenon DEF Longer1

(* Two lines are two pairs at its end.                                     *)
LEMMA AddsLonger2 ==
    ASSUME LineTypes, NEW t, NEW u, NEW l, NEW c, Adds2(t, u, l, c) PROVE Longer2(t, u, l, c)
<1>1. PICK new : Says2(new, t, u, l, c) /\ Adds(new)
  BY DEF Adds2
<1>2. Len(new) = 4 /\ ArePair(new[1], new[2], t, l, c) /\ ArePair(new[3], new[4], u, l, c)
  BY <1>1 DEF Says2
<1>3. Kept(Len(new)) /\ \A j \in 1..Len(new) : Stream'[Len(Stream) + j] = new[j]
  BY <1>1, Lengthens
<1>4. Kept(4) /\ \A j \in 1..4 : Stream'[Len(Stream) + j] = new[j]
  BY <1>2, <1>3, Zenon
<1>5. 1 \in 1..4 /\ 2 \in 1..4 /\ 3 \in 1..4 /\ 4 \in 1..4
  OBVIOUS
<1>6. /\ Stream'[Len(Stream) + 1] = new[1] /\ Stream'[Len(Stream) + 2] = new[2]
      /\ Stream'[Len(Stream) + 3] = new[3] /\ Stream'[Len(Stream) + 4] = new[4]
  BY <1>4, <1>5, Zenon
<1> QED
  BY <1>2, <1>4, <1>6, Zenon DEF Longer2

-----------------------------------------------------------------------------
(* The queue of changes.                                                   *)

QAt == 1..Len(Queue)
QGrown(r, l) ==
    /\ Len(Queue) \in Nat /\ Len(Queue') = Len(Queue) + 1
    /\ \A i \in 1..Len(Queue) : Queue'[i] = Queue[i]
    /\ Queue'[Len(Queue) + 1].code = r /\ Queue'[Len(Queue) + 1].link = l
QShrunk ==
    /\ Len(Queue) \in Nat /\ Len(Queue) >= 1 /\ Len(Queue') = Len(Queue) - 1
    /\ \A i \in 1..Len(Queue') : Queue'[i] = Queue[i + 1]

(* The queue is a sequence of changes.                                     *)
LEMMA QueueTypes == LinkTypes => Queue \in Seq(Events) /\ Len(Queue) \in Nat
<1> SUFFICES ASSUME LinkTypes PROVE Queue \in Seq(Events)
  OBVIOUS
<1>1. wifi.copy \in Seq(Events) /\ events \in Seq(Events)
  BY LinkParts DEF WifiTypes, HostTypes
<1> QED
  BY <1>1 DEF Queue

(* A change appended to it comes last.                                     *)
LEMMA GrownQueue ==
    ASSUME NEW q \in Seq(Events), NEW e \in Events, Queue = q, Queue' = q \o <<e>>
    PROVE  QGrown(e.code, e.link)
<1>1. Len(q) \in Nat /\ Len(q \o <<e>>) = Len(q) + 1 /\ (q \o <<e>>)[Len(q) + 1] = e
      /\ \A i \in 1..Len(q) : (q \o <<e>>)[i] = q[i]
  OBVIOUS
<1> QED
  BY <1>1, Zenon DEF QGrown

(* What a task does not expect is queued, unless the WiFi task is about to *)
(* clear the queue.                                                        *)
LEMMA QueueReads ==
    ASSUME LinkTypes, NEW r, NEW h, h.line.link \in Links, events' = events \o Queued(r, h),
           wifi'.pc = wifi.pc, wifi'.copy = wifi.copy
    PROVE  /\ r \in {"CONNECT", "CLOSED"} =>
                  QGrown(r, h.line.link) \/ (Queue' = Queue /\ wifi.pc = "clear")
           /\ r \notin {"CONNECT", "CLOSED"} => Queue' = Queue
<1>1. wifi.copy \in Seq(Events) /\ events \in Seq(Events) /\ Queue \in Seq(Events)
  BY LinkParts, QueueTypes DEF WifiTypes, HostTypes
<1>2. CASE wifi.pc = "clear" /\ wifi.copy # <<>>
  <2>1. Queue' = Queue
    BY <1>2 DEF Queue
  <2> QED
    BY <1>2, <2>1
<1>3. CASE ~(wifi.pc = "clear" /\ wifi.copy # <<>>)
  <2>1. Queue = wifi.copy \o events /\ Queue' = wifi.copy \o events'
    BY <1>3 DEF Queue
  <2>2. CASE r \in {"CONNECT", "CLOSED"}
    <3>1. PICK e : e = [code |-> r, link |-> h.line.link]
      OBVIOUS
    <3>2. e \in Events /\ e.code = r /\ e.link = h.line.link
      BY <2>2, <3>1 DEF Events
    <3>3. events' = events \o <<e>>
      BY <2>2, <3>1, Zenon DEF Queued
    <3>4. Queue' = Queue \o <<e>>
      <4>1. PICK q : q = <<e>>
        OBVIOUS
      <4>2. q \in Seq(Events)
        BY <3>2, <4>1
      <4>3. PICK c : c = wifi.copy
        OBVIOUS
      <4>4. (c \o events) \o q = c \o (events \o q)
        <5>1. c \in Seq(Events) /\ events \in Seq(Events)
          BY <1>1, <4>3
        <5> QED
          BY <4>2, <5>1, ConcatAssociative
      <4> QED
        BY <2>1, <3>3, <4>1, <4>3, <4>4, Zenon
    <3>5. QGrown(e.code, e.link)
      BY <1>1, <3>2, <3>4, GrownQueue
    <3> QED
      BY <2>2, <3>2, <3>5, Zenon
  <2>3. CASE r \notin {"CONNECT", "CLOSED"}
    <3>1. events' = events \o <<>>
      BY <2>3, Zenon DEF Queued
    <3>2. events' = events
      BY <1>1, <3>1
    <3> QED
      BY <2>1, <2>3, <3>2
  <2> QED
    BY <2>2, <2>3
<1> QED
  BY <1>2, <1>3

(* handle() takes the first change; the other steps of run() before it     *)
(* move the queue, and lose none of it.                                    *)
LEMMA HandleQueue ==
    ASSUME LinkTypes, WifiHandle
    PROVE  /\ QShrunk /\ Queue[1] \in Events
           /\ state' = [state EXCEPT ![Queue[1].link] = IF Queue[1].code = "CONNECT"
                                                        THEN "connected" ELSE "disconnected"]
           /\ wifi.pc # "sleep"
           /\ UNCHANGED <<impatient, cmds, mode, up, line, uart, lock, client, ticket, history>>
<1>1. wifi.copy \in Seq(Events) /\ events \in Seq(Events) /\ WifiTypes
  BY LinkParts DEF WifiTypes, HostTypes
<1>2. wifi.pc = "handle" /\ wifi.copy # <<>> /\ wifi' = [wifi EXCEPT !.copy = Tail(wifi.copy)]
      /\ events' = events
  BY DEF WifiHandle
<1>3. WifiTo("handle", Tail(wifi.copy), wifi.part)
  BY <1>1, <1>2, WifiSteps
<1>4. PICK c : c = wifi.copy
  OBVIOUS
<1>5. PICK t : t = Tail(c)
  OBVIOUS
<1>6. c \in Seq(Events) /\ Len(c) \in Nat /\ Len(c) >= 1 /\ Head(c) = c[1] /\ c[1] \in Events
  BY <1>1, <1>2, <1>4
<1>7. t \in Seq(Events) /\ Len(t) = Len(c) - 1 /\ \A i \in 1..(Len(c) - 1) : t[i] = c[i + 1]
  BY <1>5, <1>6
<1>8. Queue = c \o events /\ Queue' = t \o events
  BY <1>2, <1>3, <1>4, <1>5 DEF Queue, WifiTo
<1>9. /\ Len(Queue) = Len(c) + Len(events) /\ Len(events) \in Nat
      /\ \A i \in 1..(Len(c) + Len(events)) : Queue[i] = IF i <= Len(c) THEN c[i] ELSE events[i - Len(c)]
  BY <1>1, <1>6, <1>8, ConcatProperties
<1>10. /\ Len(Queue') = Len(c) - 1 + Len(events)
       /\ \A i \in 1..(Len(c) - 1 + Len(events)) :
             Queue'[i] = IF i <= Len(c) - 1 THEN t[i] ELSE events[i - (Len(c) - 1)]
  <2>1. /\ Len(t \o events) = Len(t) + Len(events)
        /\ \A i \in 1..(Len(t) + Len(events)) :
              (t \o events)[i] = IF i <= Len(t) THEN t[i] ELSE events[i - Len(t)]
    BY <1>1, <1>7, ConcatProperties
  <2>2. Len(t) = Len(c) - 1
    BY <1>7
  <2> QED
    BY <1>8, <2>1, <2>2, Zenon
<1>11. ASSUME NEW i \in 1..Len(Queue') PROVE Queue'[i] = Queue[i + 1]
  <2>1. i \in 1..(Len(c) - 1 + Len(events)) /\ i + 1 \in 1..(Len(c) + Len(events))
    BY <1>6, <1>9, <1>10
  <2>2. CASE i <= Len(c) - 1
    <3>1. Queue'[i] = t[i] /\ Queue[i + 1] = c[i + 1] /\ i \in 1..(Len(c) - 1)
      BY <2>1, <2>2, <1>6, <1>9, <1>10
    <3> QED
      BY <3>1, <1>7
  <2>3. CASE ~(i <= Len(c) - 1)
    <3>1. Queue'[i] = events[i - (Len(c) - 1)] /\ Queue[i + 1] = events[i + 1 - Len(c)]
      BY <2>1, <2>3, <1>6, <1>9, <1>10
    <3>2. i - (Len(c) - 1) = i + 1 - Len(c)
      BY <2>1, <1>6
    <3> QED
      BY <3>1, <3>2
  <2> QED
    BY <2>2, <2>3
<1>12. QShrunk
  BY <1>6, <1>9, <1>10, <1>11 DEF QShrunk
<1>13. Queue[1] = Head(wifi.copy)
  BY <1>4, <1>6, <1>9
<1> QED
  BY <1>2, <1>4, <1>6, <1>12, <1>13 DEF WifiHandle, WifiOnly, module

(* The steps that change nothing the invariant speaks of.                  *)
QuietStep ==
    /\ Stream' = Stream /\ Queue' = Queue
    /\ UNCHANGED <<impatient, cmds, mode, up, state, client, ticket, history>>

(* Transmitting, and the steps of run() around its reading, are such       *)
(* steps.                                                                  *)
LEMMA QuietSteps ==
    ASSUME LinkTypes,
           \/ UNCHANGED vars \/ Transmit \/ WifiLock \/ WifiCopy \/ WifiClear \/ WifiListen \/ WifiQuiet
           \/ WifiUnlock
    PROVE  QuietStep
<1>1. wifi.copy \in Seq(Events) /\ events \in Seq(Events) /\ WifiTypes
  BY LinkParts DEF WifiTypes, HostTypes
<1>2. CASE UNCHANGED vars
  BY <1>2 DEF vars, module, QuietStep, Stream, Queue
<1>3. CASE Transmit
  <2>1. UNCHANGED <<impatient, cmds, mode, up, state, client, ticket, history, wifi, events>>
    BY <1>3 DEF Transmit
  <2>2. Queue' = Queue
    BY <2>1 DEF Queue
  <2> QED
    BY <1>3, <2>1, <2>2, TransmitMoves DEF QuietStep
<1>4. CASE WifiLock
  <2>1. WifiTo("copy", wifi.copy, wifi.part)
    BY <1>1, <1>4, WifiSteps DEF WifiLock
  <2> QED
    BY <2>1, <1>4 DEF WifiLock, WifiTo, WifiOnly, module, QuietStep, Stream, Queue
<1>5. CASE WifiCopy
  <2>1. WifiTo("clear", events, wifi.part)
    BY <1>1, <1>5, WifiSteps DEF WifiCopy
  <2>2. wifi.copy = <<>> /\ wifi.pc = "copy"
    BY <1>1, <1>5 DEF WifiCopy, WifiTypes
  <2>3. UNCHANGED <<impatient, cmds, mode, up, line, uart, state, client, ticket, history, events>>
    BY <1>5 DEF WifiCopy, WifiOnly, module
  <2>4. Queue = events
    BY <2>2, <1>1 DEF Queue
  <2>5. Queue' = events
    <3>1. CASE events = <<>>
      BY <2>1, <2>3, <3>1 DEF Queue, WifiTo
    <3>2. CASE events # <<>>
      BY <2>1, <2>3, <3>2 DEF Queue, WifiTo
    <3> QED
      BY <3>1, <3>2
  <2> QED
    BY <2>3, <2>4, <2>5 DEF QuietStep, Stream
<1>6. CASE WifiClear
  <2>1. WifiTo("handle", wifi.copy, wifi.part)
    BY <1>1, <1>6, WifiSteps DEF WifiClear
  <2>2. wifi.pc = "clear" /\ events' = IF wifi.copy = <<>> THEN events ELSE <<>>
    BY <1>6 DEF WifiClear
  <2>3. UNCHANGED <<impatient, cmds, mode, up, line, uart, state, client, ticket, history>>
    BY <1>6 DEF WifiClear, WifiOnly, module
  <2>4. Queue' = wifi.copy \o events'
    BY <2>1 DEF Queue, WifiTo
  <2>5. Queue' = Queue
    <3>1. CASE wifi.copy = <<>>
      BY <2>2, <2>4, <3>1 DEF Queue
    <3>2. CASE wifi.copy # <<>>
      <4>1. Queue' = wifi.copy \o <<>> /\ Queue = wifi.copy
        BY <2>2, <2>4, <3>2 DEF Queue
      <4> QED
        BY <4>1, <1>1
    <3> QED
      BY <3>1, <3>2
  <2> QED
    BY <2>3, <2>5 DEF QuietStep, Stream
<1>7. CASE WifiListen
  <2>1. WifiTo("listen", wifi.copy, <<>>) /\ wifi.pc = "handle"
    BY <1>1, <1>7, WifiSteps DEF WifiListen
  <2> QED
    BY <2>1, <1>7 DEF WifiListen, WifiTo, WifiOnly, module, QuietStep, Stream, Queue
<1>8. CASE WifiQuiet
  <2>1. WifiTo("copy", wifi.copy, <<>>) /\ wifi.pc = "listen"
    BY <1>1, <1>8, WifiSteps DEF WifiQuiet
  <2> QED
    BY <2>1, <1>8 DEF WifiQuiet, WifiTo, WifiOnly, module, QuietStep, Stream, Queue
<1>9. CASE WifiUnlock
  <2>1. WifiTo("sleep", wifi.copy, wifi.part) /\ wifi.pc = "handle"
    BY <1>1, <1>9, WifiSteps DEF WifiUnlock
  <2> QED
    BY <2>1, <1>9 DEF WifiUnlock, WifiTo, WifiOnly, module, QuietStep, Stream, Queue
<1> QED
  BY <1>2, <1>3, <1>4, <1>5, <1>6, <1>7, <1>8, <1>9

(* The WiFi task reads one half.                                           *)
LEMMA WifiReads ==
    ASSUME LinkTypes, WifiRead, NEW h, h = Head(uart)
    PROVE  /\ Shorter /\ Stream[1] = h /\ h.line.link \in Links /\ wifi.pc = "listen"
           /\ HistoryTo(HalfMissing(wifi.part, h), FALSE, FALSE)
           /\ Response(wifi.part, h) \in {"CONNECT", "CLOSED"} => QGrown(Response(wifi.part, h), h.line.link)
           /\ Response(wifi.part, h) \notin {"CONNECT", "CLOSED"} => Queue' = Queue
           /\ UNCHANGED <<impatient, cmds, mode, up, state, client, ticket>>
<1>1. WifiTypes /\ HistoryTypes /\ LineTypes
  BY LinkParts
<1>2. /\ events' = events \o Queued(Response(wifi.part, h), h)
      /\ wifi' = [wifi EXCEPT !.part = Remember(h)]
      /\ history' = [history EXCEPT !.missed = @ \/ HalfMissing(wifi.part, h)]
  BY Zenon DEF WifiRead
<1>3. /\ wifi.pc = "listen" /\ uart # <<>> /\ uart' = Tail(uart)
      /\ UNCHANGED <<impatient, cmds, mode, up, line, state, client, ticket>>
  BY DEF WifiRead, module
<1>4. Shorter /\ Stream[1] = h /\ h.line.link \in Links
  BY <1>1, <1>3, ReadsStream, HeadTypes
<1>5. HistoryTo(HalfMissing(wifi.part, h), FALSE, FALSE)
  BY <1>1, <1>2, HistoryMissed
<1>6. WifiTo(wifi.pc, wifi.copy, Remember(h))
  BY <1>1, <1>2, WifiSteps
<1>7. wifi'.pc = wifi.pc /\ wifi'.copy = wifi.copy
  BY <1>6 DEF WifiTo
<1> QED
  BY <1>2, <1>3, <1>4, <1>5, <1>7, QueueReads

-----------------------------------------------------------------------------
(* The answers.                                                            *)

(* What is said of the halves: an answer is to a command of the client,    *)
(* everything else that the peer closed.                                   *)
Answer(h) == ~(h.line.text = "CLOSED" /\ h.line.cmd = 0)
Sent == {"SEND OK", "SEND FAIL"}
Answers(pc) ==
    CASE pc = "openwait"   -> {"CONNECT", "OK", "ERROR", "ALREADY CONNECTED"} \cup Sent
      [] pc = "poll"       -> {"ERROR"}
      [] pc = "closewait"  -> {"CLOSED", "OK", "ERROR"} \cup Sent
      [] pc = "sendwait"   -> {"OK", "> ", "ERROR"} \cup Sent
      [] pc = "promptwait" -> {"> "}
      [] pc = "sentwait"   -> Sent
      [] OTHER             -> {}
Op(pc) ==
    CASE pc = "openwait" -> "start" [] pc = "closewait" -> "stop" [] pc = "sendwait" -> "send"
      [] OTHER -> "data"
Order == {<<"CONNECT", "OK">>, <<"CLOSED", "OK">>, <<"OK", "> ">>, <<"ALREADY CONNECTED", "ERROR">>}
Follows(a, b) == (~a.last /\ b.last /\ b.line = a.line) \/ <<a.line.text, b.line.text>> \in Order

InStream(t) == \E j \in At : Answer(Stream[j]) /\ Stream[j].line.text = t
NoAnswers == \A j \in At : ~Answer(Stream[j])

Paired ==
    \A j \in At :
       /\ ~Stream[j].last =>
             j < Len(Stream) /\ Stream[j + 1].line = Stream[j].line /\ Stream[j + 1].last
       /\ Stream[j].last /\ j < Len(Stream) => ~Stream[j + 1].last
OnlyAnswers ==
    \A j \in At : Answer(Stream[j]) =>
       /\ Stream[j].line.text \in Answers(client.pc) /\ Stream[j].line.link = client.slot
       /\ Stream[j].line.cmd = ticket \/ (Stream[j].line.text \in Sent /\ client.pc # "sentwait")
InOrder ==
    \A j, k \in At : j < k /\ Answer(Stream[j]) /\ Answer(Stream[k]) => Follows(Stream[j], Stream[k])
Outstanding ==
    cmds # <<>> =>
       /\ cmds = <<[op |-> Op(client.pc), link |-> client.slot, cmd |-> ticket]>>
       /\ client.pc \in {"openwait", "closewait", "sendwait", "sentwait"}
       /\ client.pc = "sentwait" => mode = "data"
       /\ NoAnswers
Modes ==
    /\ InStream("> ") => mode = "data"
    /\ ~history.wrote =>
          /\ mode = "command" /\ client.pc \notin {"sendwait", "promptwait", "sentwait"}
          /\ \A t \in Sent : ~InStream(t)
PartKept ==
    UnderLock /\ Len(Stream) >= 1 /\ Answer(Stream[1]) /\ Stream[1].last => client.part = <<Stream[1].line>>
Final == {"OK", "ERROR", "ALREADY CONNECTED"}
Answering ==
    ~history.wrote /\ UnderLock =>
       cmds # <<>> \/ \E j \in At : Stream[j].last /\ Stream[j].line.text \in Final

ConnectQueued == \E i \in QAt : Queue[i].code = "CONNECT"
Connects ==
    /\ \A i \in QAt : Queue[i].code = "CONNECT" =>
          Queue[i].link = client.slot /\ client.pc \in {"openwait", "poll"}
    /\ \A i, j \in QAt : Queue[i].code = "CONNECT" /\ Queue[j].code = "CONNECT" => i = j
    /\ client.pc = "openwait" /\ ConnectQueued =>
          cmds = <<>> /\ \A j \in At : Answer(Stream[j]) => Stream[j].line.text = "OK"
    /\ client.pc \in {"openlock", "openwait"} => state[client.slot] # "connected"
    /\ client.pc = "poll" /\ (ConnectQueued \/ InStream("ERROR")) => state[client.slot] # "connected"
    /\ client.pc = "poll" /\ InStream("ERROR") => ~ConnectQueued

Truth == ~history.lied /\ (~history.wrote => ~history.misled)

AnswerInv ==
    /\ Paired /\ OnlyAnswers /\ InOrder /\ Outstanding /\ Modes /\ PartKept /\ Answering /\ Connects /\ Truth

-----------------------------------------------------------------------------
(* AnswerInv holds initially.                                              *)
LEMMA AnswerInit == Init => AnswerInv
<1> SUFFICES ASSUME Init PROVE AnswerInv
  OBVIOUS
<1> USE DEF Init
<1>1. Stream = <<>> /\ Queue = <<>>
  BY DEF Stream, Queue
<1>2. At = {} /\ QAt = {} /\ Len(Stream) = 0
  BY <1>1 DEF At, QAt
<1>3. Paired /\ OnlyAnswers /\ InOrder /\ Outstanding
  BY <1>2 DEF Paired, OnlyAnswers, InOrder, Outstanding
<1>4. Modes /\ PartKept /\ Answering /\ Connects /\ Truth
  BY <1>2 DEF Modes, PartKept, Answering, Connects, Truth, InStream, UnderLock, ConnectQueued
<1> QED
  BY <1>3, <1>4 DEF AnswerInv

(* AnswerInv survives such a step.                                         *)
LEMMA QuietAnswers == AnswerInv /\ QuietStep => AnswerInv'
BY DEF AnswerInv, QuietStep, Paired, OnlyAnswers, InOrder, Outstanding, Modes, PartKept, Answering, Connects,
       Truth, InStream, NoAnswers, At, QAt, ConnectQueued, UnderLock

(* What is true of every half stays true when one is taken.                *)
LEMMA ShorterHalves ==
    ASSUME Shorter
    PROVE  /\ \A j \in At' : j + 1 \in At /\ Stream'[j] = Stream[j + 1] /\ j + 1 >= 2
           /\ \A j \in At : j = 1 \/ (j - 1 \in At' /\ Stream'[j - 1] = Stream[j])
           /\ 1 \in At
BY DEF Shorter, At

(* Halves stay paired when the first is taken.                             *)
LEMMA ShorterPaired == Paired /\ Shorter => Paired'
<1> SUFFICES ASSUME Paired, Shorter, NEW j \in At'
             PROVE  /\ ~Stream'[j].last => j < Len(Stream') /\ Stream'[j + 1].line = Stream'[j].line
                                           /\ Stream'[j + 1].last
                    /\ Stream'[j].last /\ j < Len(Stream') => ~Stream'[j + 1].last
  BY DEF Paired
<1>1. j + 1 \in At /\ Stream'[j] = Stream[j + 1] /\ Len(Stream') = Len(Stream) - 1 /\ Len(Stream) \in Nat
      /\ j \in Nat
  BY DEF Shorter, At
<1>2. j < Len(Stream') => Stream'[j + 1] = Stream[j + 2]
  BY <1>1 DEF Shorter, At
<1>3. /\ ~Stream[j + 1].last => j + 1 < Len(Stream) /\ Stream[(j + 1) + 1].line = Stream[j + 1].line
                                /\ Stream[(j + 1) + 1].last
      /\ Stream[j + 1].last /\ j + 1 < Len(Stream) => ~Stream[(j + 1) + 1].last
  BY <1>1 DEF Paired
<1>4. (j + 1) + 1 = j + 2 /\ (j + 1 < Len(Stream) <=> j < Len(Stream'))
  BY <1>1
<1> QED
  BY <1>1, <1>2, <1>3, <1>4, Zenon

(* What is said after that was said before.                                *)
LEMMA ShorterIn == ASSUME Shorter, NEW t, InStream(t)' PROVE InStream(t)
BY ShorterHalves DEF InStream, Answer

(* The order of answers survives it.                                       *)
LEMMA ShorterOrder == InOrder /\ Shorter => InOrder'
<1> SUFFICES ASSUME InOrder, Shorter, NEW j \in At', NEW k \in At', j < k,
                    Answer(Stream'[j]), Answer(Stream'[k])
             PROVE  Follows(Stream'[j], Stream'[k])
  BY DEF InOrder, Answer, Follows
<1>1. /\ j + 1 \in At /\ Stream'[j] = Stream[j + 1] /\ k + 1 \in At /\ Stream'[k] = Stream[k + 1]
  BY ShorterHalves
<1>2. j + 1 < k + 1
  BY DEF At, Shorter
<1> QED
  BY <1>1, <1>2, Zenon DEF InOrder

(* A whole line at the end of the stream.                                  *)
LEMMA LongerPaired1 ==
    ASSUME Paired, NEW t, NEW l, NEW c, Longer1(t, l, c) PROVE Paired'
<1> SUFFICES ASSUME NEW j \in At'
             PROVE  /\ ~Stream'[j].last => j < Len(Stream') /\ Stream'[j + 1].line = Stream'[j].line
                                           /\ Stream'[j + 1].last
                    /\ Stream'[j].last /\ j < Len(Stream') => ~Stream'[j + 1].last
  BY DEF Paired
<1> DEFINE n == Len(Stream)
<1>1. n \in Nat /\ Len(Stream') = n + 2 /\ j \in 1..(n + 2) /\ \A i \in 1..n : Stream'[i] = Stream[i]
  BY DEF Longer1, Kept, At
<1>2. /\ ~Stream'[n + 1].last /\ Stream'[n + 2].last /\ Stream'[n + 2].line = Stream'[n + 1].line
  BY DEF Longer1, ArePair
<1> HIDE DEF n
<1>3. CASE j \in 1..n
  <2>1. /\ ~Stream[j].last => j < n /\ Stream[j + 1].line = Stream[j].line /\ Stream[j + 1].last
        /\ Stream[j].last /\ j < n => ~Stream[j + 1].last
    BY <1>3 DEF Paired, At, n
  <2>2. Stream'[j] = Stream[j] /\ (j < n => Stream'[j + 1] = Stream[j + 1]) /\ j < Len(Stream')
    BY <1>1, <1>3
  <2>3. j = n \/ j < n
    BY <1>1, <1>3
  <2> QED
    BY <2>1, <2>2, <2>3, <1>2
<1>4. CASE j = n + 1
  <2>1. j + 1 = n + 2 /\ j < Len(Stream')
    BY <1>1, <1>4
  <2> QED
    BY <2>1, <1>2, <1>4
<1>5. CASE j = n + 2
  BY <1>1, <1>2, <1>5
<1> QED
  BY <1>1, <1>3, <1>4, <1>5

(* Two whole lines at the end of the stream.                               *)
LEMMA LongerPaired2 ==
    ASSUME Paired, NEW t, NEW u, NEW l, NEW c, Longer2(t, u, l, c) PROVE Paired'
<1> SUFFICES ASSUME NEW j \in At'
             PROVE  /\ ~Stream'[j].last => j < Len(Stream') /\ Stream'[j + 1].line = Stream'[j].line
                                           /\ Stream'[j + 1].last
                    /\ Stream'[j].last /\ j < Len(Stream') => ~Stream'[j + 1].last
  BY DEF Paired
<1> DEFINE n == Len(Stream)
<1>1. n \in Nat /\ Len(Stream') = n + 4 /\ j \in 1..(n + 4) /\ \A i \in 1..n : Stream'[i] = Stream[i]
  BY DEF Longer2, Kept, At
<1>2. /\ ~Stream'[n + 1].last /\ Stream'[n + 2].last /\ Stream'[n + 2].line = Stream'[n + 1].line
      /\ ~Stream'[n + 3].last /\ Stream'[n + 4].last /\ Stream'[n + 4].line = Stream'[n + 3].line
  BY DEF Longer2, ArePair
<1> HIDE DEF n
<1>3. CASE j \in 1..n
  <2>1. /\ ~Stream[j].last => j < n /\ Stream[j + 1].line = Stream[j].line /\ Stream[j + 1].last
        /\ Stream[j].last /\ j < n => ~Stream[j + 1].last
    BY <1>3 DEF Paired, At, n
  <2>2. Stream'[j] = Stream[j] /\ (j < n => Stream'[j + 1] = Stream[j + 1]) /\ j < Len(Stream')
    BY <1>1, <1>3
  <2>3. j = n \/ j < n
    BY <1>1, <1>3
  <2> QED
    BY <2>1, <2>2, <2>3, <1>2
<1>4. CASE j = n + 1
  <2>1. j + 1 = n + 2 /\ j < Len(Stream')
    BY <1>1, <1>4
  <2> QED
    BY <2>1, <1>2, <1>4
<1>5. CASE j = n + 2
  <2>1. j + 1 = n + 3
    BY <1>1, <1>5
  <2> QED
    BY <2>1, <1>2, <1>5
<1>6. CASE j = n + 3
  <2>1. j + 1 = n + 4 /\ j < Len(Stream')
    BY <1>1, <1>6
  <2> QED
    BY <2>1, <1>2, <1>6
<1>7. CASE j = n + 4
  BY <1>1, <1>2, <1>7
<1> QED
  BY <1>1, <1>3, <1>4, <1>5, <1>6, <1>7

(* The peer closes: what is added answers nothing.                         *)
LEMMA PeerHalves ==
    ASSUME NEW l, Longer1("CLOSED", l, 0)
    PROVE  /\ \A j \in At : j \in At' /\ Stream'[j] = Stream[j]
           /\ \A j \in At' : j \in At \/ ~Answer(Stream'[j])
           /\ Len(Stream) \in Nat /\ (Len(Stream) = 0 => ~Stream'[1].last)
<1>1. Len(Stream) \in Nat /\ Len(Stream') = Len(Stream) + 2 /\ \A j \in 1..Len(Stream) : Stream'[j] = Stream[j]
  BY DEF Longer1, Kept
<1>2. \A j \in At' : j \in At \/ j = Len(Stream) + 1 \/ j = Len(Stream) + 2
  BY <1>1 DEF At
<1>3. ~Answer(Stream'[Len(Stream) + 1]) /\ ~Answer(Stream'[Len(Stream) + 2]) /\ ~Stream'[Len(Stream) + 1].last
  BY DEF Longer1, ArePair, Answer
<1>4. \A j \in At : j \in At' /\ Stream'[j] = Stream[j]
  BY <1>1 DEF At
<1> QED
  BY <1>1, <1>2, <1>3, <1>4

(* AnswerInv survives the peer's closing.                                  *)
LEMMA PeerAnswers == LinkTypes /\ AnswerInv /\ PeerCloses => AnswerInv'
<1> SUFFICES ASSUME LinkTypes, AnswerInv, PeerCloses PROVE AnswerInv'
  OBVIOUS
<1>1. PICK l \in up : Adds1("CLOSED", l, 0)
  BY PeerAdds
<1>2. Longer1("CLOSED", l, 0)
  BY <1>1, AddsLonger1, LinkParts
<1>3. UNCHANGED <<cmds, mode, state, client, ticket, history>> /\ Queue' = Queue
  BY DEF PeerCloses, Queue
<1>4. /\ \A j \in At : j \in At' /\ Stream'[j] = Stream[j]
      /\ \A j \in At' : j \in At \/ ~Answer(Stream'[j])
      /\ Len(Stream) \in Nat /\ (Len(Stream) = 0 => ~Stream'[1].last)
  BY <1>2, PeerHalves
<1>5. \A j \in At' : Answer(Stream'[j]) => j \in At /\ Stream'[j] = Stream[j] /\ Answer(Stream[j])
  BY <1>4
<1> USE DEF AnswerInv
<1>6. Paired'
  BY <1>2, LongerPaired1
<1>7. OnlyAnswers'
  BY <1>3, <1>5 DEF OnlyAnswers, Answer
<1>8. InOrder'
  BY <1>5 DEF InOrder, Answer, Follows
<1>9. \A t : InStream(t)' => InStream(t)
  BY <1>5 DEF InStream, Answer
<1>10. Outstanding'
  BY <1>3, <1>5 DEF Outstanding, NoAnswers, Answer
<1>11. Modes'
  BY <1>3, <1>9, Zenon DEF Modes
<1>12. PartKept'
  <2>1. CASE Len(Stream) = 0
    BY <2>1, <1>4 DEF PartKept
  <2>2. CASE Len(Stream) # 0
    <3>1. Stream'[1] = Stream[1] /\ Len(Stream) >= 1
      BY <2>2, <1>4 DEF At
    <3> QED
      BY <3>1, <1>3 DEF PartKept, UnderLock, Answer
  <2> QED
    BY <2>1, <2>2
<1>13. Answering'
  BY <1>3, <1>4, Zenon DEF Answering, UnderLock, Final
<1>14. Connects'
  <2>1. ConnectQueued' = ConnectQueued /\ QAt' = QAt
    BY <1>3 DEF ConnectQueued, QAt
  <2> QED
    BY <1>3, <1>5, <1>9, <2>1 DEF Connects, Answer
<1>15. Truth'
  BY <1>3 DEF Truth
<1> QED
  BY <1>6, <1>7, <1>8, <1>10, <1>11, <1>12, <1>13, <1>14, <1>15

-----------------------------------------------------------------------------
(* What wait() makes of a half that changes a connection.                  *)
IsEvent(h) == h.last /\ h.line.text \in {"CONNECT", "CLOSED"}

(* Only the last half of a CONNECT or CLOSED line is taken for one.        *)
LEMMA ResponseEvent ==
    ASSUME NEW part, NEW h, Response(part, h) \in {"CONNECT", "CLOSED"}
    PROVE  Response(part, h) = h.line.text /\ IsEvent(h)
BY DEF Response, Whole, IsEvent

(* The queue is the same.                                                  *)
LEMMA QueuedSame ==
    ASSUME Queue' = Queue
    PROVE  QAt' = QAt /\ ConnectQueued' = ConnectQueued /\ \A i \in QAt : Queue'[i] = Queue[i]
BY DEF QAt, ConnectQueued

(* A queued CLOSED is no CONNECT.                                          *)
LEMMA QueuedClosed ==
    ASSUME NEW l, QGrown("CLOSED", l)
    PROVE  \A i \in QAt' : Queue'[i].code = "CONNECT" => i \in QAt /\ Queue'[i] = Queue[i]
BY DEF QGrown, QAt

(* AnswerInv survives a read of the WiFi task: it holds the lock, so no    *)
(* open() or close() waits, and a CONNECT cannot be on its way.            *)
LEMMA WifiReadAnswers == LinkTypes /\ LockHeld /\ AnswerInv /\ WifiRead => AnswerInv'
<1> SUFFICES ASSUME LinkTypes, LockHeld, AnswerInv, WifiRead PROVE AnswerInv'
  OBVIOUS
<1>1. PICK h : h = Head(uart)
  OBVIOUS
<1>2. PICK r : r = Response(wifi.part, h)
  OBVIOUS
<1>3. /\ Shorter /\ Stream[1] = h /\ wifi.pc = "listen"
      /\ HistoryTo(HalfMissing(wifi.part, h), FALSE, FALSE)
      /\ r \in {"CONNECT", "CLOSED"} => QGrown(r, h.line.link)
      /\ r \notin {"CONNECT", "CLOSED"} => Queue' = Queue
      /\ UNCHANGED <<impatient, cmds, mode, up, state, client, ticket>>
  BY <1>1, <1>2, WifiReads, Zenon
<1> USE DEF AnswerInv
<1>4. ~UnderLock
  BY <1>3 DEF LockHeld
<1>5. \A j \in At' : j + 1 \in At /\ Stream'[j] = Stream[j + 1]
  BY <1>3, ShorterHalves
<1>6. history'.wrote = history.wrote /\ (history'.misled => history.misled) /\ (history'.lied => history.lied)
  BY <1>3, Zenon DEF HistoryTo, HistoryTypes
<1>7. Paired' /\ InOrder'
  BY <1>3, ShorterPaired, ShorterOrder
<1>8. OnlyAnswers'
  BY <1>3, <1>5 DEF OnlyAnswers, Answer
<1>9. \A t : InStream(t)' => InStream(t)
  BY <1>3, ShorterIn
<1>10. Outstanding'
  BY <1>3, <1>5 DEF Outstanding, NoAnswers, Answer
<1>11. Modes'
  BY <1>3, <1>6, <1>9, Zenon DEF Modes
<1>12. PartKept' /\ Answering'
  BY <1>3, <1>4 DEF PartKept, Answering, UnderLock
<1>13. r # "CONNECT"
  <2> SUFFICES ASSUME r = "CONNECT" PROVE FALSE
    OBVIOUS
  <2>1. h.line.text = "CONNECT"
    BY <1>2, ResponseEvent
  <2>2. 1 \in At /\ Answer(Stream[1])
    BY <2>1, <1>3, ShorterHalves DEF Answer
  <2>3. "CONNECT" \in Answers(client.pc)
    BY <2>1, <2>2, <1>3 DEF OnlyAnswers
  <2>4. client.pc \notin {"openwait", "closewait"}
    BY <1>4 DEF UnderLock
  <2> QED
    BY <2>3, <2>4 DEF Answers, Sent
<1>14. \A i \in QAt' : Queue'[i].code = "CONNECT" => i \in QAt /\ Queue'[i] = Queue[i]
  <2>1. CASE r = "CLOSED"
    BY <2>1, <1>3, QueuedClosed
  <2>2. CASE r # "CLOSED"
    BY <2>2, <1>3, <1>13, QueuedSame
  <2> QED
    BY <2>1, <2>2
<1>15. ConnectQueued' => ConnectQueued
  BY <1>14 DEF ConnectQueued
<1>16. Connects'
  <2>1. client.pc # "openwait"
    BY <1>4 DEF UnderLock
  <2>2. \A i \in QAt' : Queue'[i].code = "CONNECT" =>
            Queue'[i].link = client'.slot /\ client'.pc \in {"openwait", "poll"}
    BY <1>3, <1>14 DEF Connects
  <2>3. \A i, j \in QAt' : Queue'[i].code = "CONNECT" /\ Queue'[j].code = "CONNECT" => i = j
    BY <1>14 DEF Connects
  <2>4. client' = client /\ state' = state
    BY <1>3
  <2> QED
    BY <1>9, <1>15, <2>1, <2>2, <2>3, <2>4 DEF Connects
<1>17. Truth'
  BY <1>6, Zenon DEF Truth
<1> QED
  BY <1>7, <1>8, <1>10, <1>11, <1>12, <1>16, <1>17

(* The WiFi task carries out a change.                                     *)
LEMMA HandleAnswers == LinkTypes /\ LockHeld /\ AnswerInv /\ WifiHandle => AnswerInv'
<1> SUFFICES ASSUME LinkTypes, LockHeld, AnswerInv, WifiHandle PROVE AnswerInv'
  OBVIOUS
<1>1. /\ QShrunk /\ Queue[1] \in Events
      /\ state' = [state EXCEPT ![Queue[1].link] = IF Queue[1].code = "CONNECT"
                                                   THEN "connected" ELSE "disconnected"]
      /\ wifi.pc # "sleep"
      /\ UNCHANGED <<impatient, cmds, mode, up, line, uart, lock, client, ticket, history>>
  BY HandleQueue
<1> USE DEF AnswerInv
<1>2. Stream' = Stream /\ At' = At
  BY <1>1 DEF Stream, At
<1>3. ~UnderLock
  BY <1>1 DEF LockHeld
<1>4. /\ Paired' /\ OnlyAnswers' /\ InOrder' /\ Outstanding' /\ Modes' /\ PartKept' /\ Answering' /\ Truth'
      /\ \A t : InStream(t)' = InStream(t)
  BY <1>1, <1>2 DEF Paired, OnlyAnswers, InOrder, Outstanding, Modes, PartKept, Answering, Truth,
     InStream, NoAnswers, UnderLock
<1>5. \A i \in QAt' : i + 1 \in QAt /\ Queue'[i] = Queue[i + 1] /\ i + 1 # 1
  BY <1>1 DEF QShrunk, QAt
<1>6. 1 \in QAt
  BY <1>1 DEF QShrunk, QAt
<1>7. ConnectQueued' => ConnectQueued /\ Queue[1].code # "CONNECT"
  <2> SUFFICES ASSUME ConnectQueued' PROVE ConnectQueued /\ Queue[1].code # "CONNECT"
    OBVIOUS
  <2>1. PICK i \in QAt' : Queue'[i].code = "CONNECT"
    BY DEF ConnectQueued
  <2>2. i + 1 \in QAt /\ Queue[i + 1].code = "CONNECT" /\ i + 1 # 1
    BY <2>1, <1>5
  <2> QED
    BY <2>2, <1>6 DEF Connects, ConnectQueued
<1>8. client.slot \in Links /\ state \in [Links -> {"disconnected", "connecting", "connected"}]
  BY LinkParts DEF PcTypes, HostTypes
<1>9. state[client.slot] # "connected" /\ Queue[1].code # "CONNECT" => state'[client.slot] # "connected"
  BY <1>1, <1>8
<1>10. Connects'
  <2>1. \A i \in QAt' : Queue'[i].code = "CONNECT" =>
            Queue'[i].link = client'.slot /\ client'.pc \in {"openwait", "poll"}
    BY <1>1, <1>5 DEF Connects
  <2>2. \A i, j \in QAt' : Queue'[i].code = "CONNECT" /\ Queue'[j].code = "CONNECT" => i = j
    <3> SUFFICES ASSUME NEW i \in QAt', NEW j \in QAt', Queue'[i].code = "CONNECT", Queue'[j].code = "CONNECT"
                 PROVE  i = j
      OBVIOUS
    <3>1. i + 1 = j + 1
      BY <1>5 DEF Connects
    <3>2. i \in Nat /\ j \in Nat
      BY DEF QAt
    <3> QED
      BY <3>1, <3>2
  <2>3. client.pc # "openwait" /\ client' = client
    BY <1>1, <1>3 DEF UnderLock
  <2>4. client.pc = "openlock" => state'[client.slot] # "connected"
    <3> SUFFICES ASSUME client.pc = "openlock" PROVE state'[client.slot] # "connected"
      OBVIOUS
    <3>1. Queue[1].code # "CONNECT"
      BY <1>6 DEF Connects
    <3> QED
      BY <3>1, <1>9 DEF Connects
  <2>5. client.pc = "poll" /\ (ConnectQueued' \/ InStream("ERROR")) => state'[client.slot] # "connected"
    <3> SUFFICES ASSUME client.pc = "poll", ConnectQueued' \/ InStream("ERROR")
                 PROVE  state'[client.slot] # "connected"
      OBVIOUS
    <3>1. Queue[1].code # "CONNECT"
      BY <1>6, <1>7 DEF Connects, ConnectQueued
    <3>2. ConnectQueued \/ InStream("ERROR")
      BY <1>7
    <3> QED
      BY <3>1, <3>2, <1>9 DEF Connects
  <2>6. client.pc = "poll" /\ InStream("ERROR") => ~ConnectQueued'
    BY <1>7 DEF Connects
  <2>7. InStream("ERROR")' = InStream("ERROR")
    BY <1>4
  <2> QED
    BY <2>1, <2>2, <2>3, <2>4, <2>5, <2>6, <2>7 DEF Connects
<1> QED
  BY <1>4, <1>10

-----------------------------------------------------------------------------
(* A command is executed, and answered.                                    *)

(* The halves of an answer, where there was none.                          *)
LEMMA OneAnswer ==
    ASSUME NoAnswers, NEW t, NEW l, NEW c, Longer1(t, l, c)
    PROVE  /\ Len(Stream) \in Nat
           /\ \A j \in At' : Answer(Stream'[j]) => j \in {Len(Stream) + 1, Len(Stream) + 2}
           /\ Len(Stream) + 1 \in At' /\ Len(Stream) + 2 \in At'
           /\ ArePair(Stream'[Len(Stream) + 1], Stream'[Len(Stream) + 2], t, l, c)
           /\ Len(Stream) >= 1 => Stream'[1] = Stream[1] /\ 1 \in At
<1>1. Len(Stream) \in Nat /\ Len(Stream') = Len(Stream) + 2 /\ \A j \in 1..Len(Stream) : Stream'[j] = Stream[j]
  BY DEF Longer1, Kept
<1>2. \A j \in At' : j \in At \/ j = Len(Stream) + 1 \/ j = Len(Stream) + 2
  BY <1>1 DEF At
<1>3. \A j \in At : ~Answer(Stream'[j])
  BY <1>1 DEF At, NoAnswers
<1>4. Len(Stream) + 1 \in At' /\ Len(Stream) + 2 \in At'
  BY <1>1 DEF At
<1>5. ArePair(Stream'[Len(Stream) + 1], Stream'[Len(Stream) + 2], t, l, c)
  BY DEF Longer1
<1>6. Len(Stream) >= 1 => Stream'[1] = Stream[1] /\ 1 \in At
  BY <1>1 DEF At
<1> QED
  BY <1>1, <1>2, <1>3, <1>4, <1>5, <1>6

(* The halves of two answers, where there was none.                        *)
LEMMA TwoAnswers ==
    ASSUME NoAnswers, NEW t, NEW u, NEW l, NEW c, Longer2(t, u, l, c)
    PROVE  /\ Len(Stream) \in Nat
           /\ \A j \in At' : Answer(Stream'[j]) =>
                 j \in {Len(Stream) + 1, Len(Stream) + 2, Len(Stream) + 3, Len(Stream) + 4}
           /\ Len(Stream) + 1 \in At' /\ Len(Stream) + 2 \in At'
           /\ Len(Stream) + 3 \in At' /\ Len(Stream) + 4 \in At'
           /\ ArePair(Stream'[Len(Stream) + 1], Stream'[Len(Stream) + 2], t, l, c)
           /\ ArePair(Stream'[Len(Stream) + 3], Stream'[Len(Stream) + 4], u, l, c)
           /\ Len(Stream) >= 1 => Stream'[1] = Stream[1] /\ 1 \in At
<1>1. Len(Stream) \in Nat /\ Len(Stream') = Len(Stream) + 4 /\ \A j \in 1..Len(Stream) : Stream'[j] = Stream[j]
  BY DEF Longer2, Kept
<1>2. \A j \in At' : j \in At \/ j = Len(Stream) + 1 \/ j = Len(Stream) + 2
                     \/ j = Len(Stream) + 3 \/ j = Len(Stream) + 4
  BY <1>1 DEF At
<1>3. \A j \in At : ~Answer(Stream'[j])
  BY <1>1 DEF At, NoAnswers
<1>4. /\ Len(Stream) + 1 \in At' /\ Len(Stream) + 2 \in At'
      /\ Len(Stream) + 3 \in At' /\ Len(Stream) + 4 \in At'
  BY <1>1 DEF At
<1>5. /\ ArePair(Stream'[Len(Stream) + 1], Stream'[Len(Stream) + 2], t, l, c)
      /\ ArePair(Stream'[Len(Stream) + 3], Stream'[Len(Stream) + 4], u, l, c)
  BY DEF Longer2
<1>6. Len(Stream) >= 1 => Stream'[1] = Stream[1] /\ 1 \in At
  BY <1>1 DEF At
<1> QED
  BY <1>1, <1>2, <1>3, <1>4, <1>5, <1>6

(* What an executed command leaves as it was.                              *)
Answered == /\ cmds # <<>> /\ cmds' = <<>> /\ NoAnswers /\ client.pc # "poll" /\ Queue' = Queue
            /\ UNCHANGED <<state, client, ticket, history>>

(* It keeps what is known of the CONNECTs in the queue.                    *)
LEMMA AnsweredConnects == ASSUME Connects, Answered PROVE Connects'
<1>1. /\ QAt' = QAt /\ ConnectQueued' = ConnectQueued /\ \A i \in QAt : Queue'[i] = Queue[i]
      /\ client' = client /\ state' = state /\ client.pc # "poll"
  BY QueuedSame DEF Answered
<1>2. ~(client.pc = "openwait" /\ ConnectQueued)
  BY DEF Connects, Answered
<1> QED
  BY <1>1, <1>2 DEF Connects

(* Arithmetic: two of two numbers in order.                                *)
LEMMA OfTwo ==
    ASSUME NEW n \in Nat, NEW i \in {n + 1, n + 2}, NEW j \in {n + 1, n + 2}, i < j
    PROVE  i = n + 1 /\ j = n + 2
OBVIOUS

(* Arithmetic: after an empty stream comes position 1.                     *)
LEMMA OfNone == ASSUME NEW n \in Nat, ~(n >= 1) PROVE n + 1 = 1
OBVIOUS

(* Arithmetic: two of four numbers in order.                               *)
LEMMA OfFour ==
    ASSUME NEW n \in Nat, NEW i \in {n + 1, n + 2, n + 3, n + 4}, NEW j \in {n + 1, n + 2, n + 3, n + 4}, i < j
    PROVE  \/ i = n + 1 /\ j = n + 2
           \/ i = n + 3 /\ j = n + 4
           \/ i \in {n + 1, n + 2} /\ j \in {n + 3, n + 4}
OBVIOUS

(* One line answers.                                                       *)
LEMMA AnswerOne ==
    ASSUME AnswerInv, Answered, NEW t, NEW k, Longer1(t, client.slot, k),
           t \in Answers(client.pc), k = ticket \/ (t \in Sent /\ client.pc # "sentwait"),
           t # "> ", ~history.wrote => mode' = "command" /\ t \in Final
    PROVE  AnswerInv'
<1> USE DEF AnswerInv
<1> DEFINE n == Len(Stream)
<1>1. /\ n \in Nat /\ \A j \in At' : Answer(Stream'[j]) => j \in {n + 1, n + 2}
      /\ n + 1 \in At' /\ n + 2 \in At'
      /\ ArePair(Stream'[n + 1], Stream'[n + 2], t, client.slot, k)
      /\ n >= 1 => Stream'[1] = Stream[1] /\ 1 \in At
  BY OneAnswer DEF Answered
<1>2. /\ UNCHANGED <<state, client, ticket, history>> /\ cmds' = <<>> /\ cmds # <<>>
  BY DEF Answered
<1>3. \A j \in At' : Answer(Stream'[j]) =>
          Stream'[j].line.text = t /\ Stream'[j].line.link = client.slot /\ Stream'[j].line.cmd = k
  BY <1>1 DEF ArePair
<1>4. Paired'
  BY LongerPaired1
<1>5. OnlyAnswers'
  BY <1>2, <1>3 DEF OnlyAnswers, Answer
<1>6. InOrder'
  <2> SUFFICES ASSUME NEW i \in At', NEW j \in At', i < j, Answer(Stream'[i]), Answer(Stream'[j])
               PROVE  Follows(Stream'[i], Stream'[j])
    BY DEF InOrder, Answer, Follows
  <2>1. i = n + 1 /\ j = n + 2
    <3>1. i \in {n + 1, n + 2} /\ j \in {n + 1, n + 2} /\ n \in Nat
      BY <1>1
    <3> QED
      BY <3>1, OfTwo
  <2>2. Stream'[n + 1].last = FALSE /\ Stream'[n + 2].last = TRUE /\ Stream'[n + 2].line = Stream'[n + 1].line
    BY <1>1 DEF ArePair
  <2> QED
    BY <2>1, <2>2, Zenon DEF Follows
<1>7. Outstanding'
  BY <1>2 DEF Outstanding
<1>8. \A s : InStream(s)' => s = t
  BY <1>3 DEF InStream, Answer
<1>9. Modes'
  <2>1. ~InStream("> ")'
    BY <1>8
  <2>2. ~history.wrote => \A s \in Sent : ~InStream(s)'
    BY <1>8 DEF Sent, Final
  <2>3. ~history.wrote => client.pc \notin {"sendwait", "promptwait", "sentwait"}
    BY DEF Modes
  <2> QED
    BY <1>2, <2>1, <2>2, <2>3 DEF Modes
<1>10. PartKept'
  <2>1. CASE n >= 1
    <3>1. ~Answer(Stream'[1])
      BY <2>1, <1>1 DEF Answered, NoAnswers
    <3> QED
      BY <3>1 DEF PartKept, Answer
  <2>2. CASE ~(n >= 1)
    <3>1. n + 1 = 1
      <4>1. n \in Nat
        BY <1>1
      <4> QED
        BY <2>2, <4>1, OfNone
    <3>2. Stream'[n + 1].last = FALSE
      BY <1>1 DEF ArePair
    <3>3. Stream'[1].last = FALSE
      BY <3>1, <3>2, Zenon
    <3> QED
      BY <3>3 DEF PartKept
  <2> QED
    BY <2>1, <2>2
<1>11. Answering'
  <2> SUFFICES ASSUME ~history.wrote
               PROVE  \E j \in At' : Stream'[j].last /\ Stream'[j].line.text \in Final
    BY <1>2 DEF Answering, Final
  <2> QED
    BY <1>1 DEF ArePair
<1>12. Connects'
  BY AnsweredConnects
<1>13. Truth'
  BY <1>2 DEF Truth
<1> QED
  BY <1>4, <1>5, <1>6, <1>7, <1>9, <1>10, <1>11, <1>12, <1>13

(* Two lines answer.                                                       *)
LEMMA AnswerTwo ==
    ASSUME AnswerInv, Answered, NEW t, NEW u, Longer2(t, u, client.slot, ticket),
           t \in Answers(client.pc), u \in Answers(client.pc), <<t, u>> \in Order,
           t # "> ", u = "> " => mode' = "data",
           ~history.wrote => mode' = "command" /\ u \in Final
    PROVE  AnswerInv'
<1> USE DEF AnswerInv
<1> DEFINE n == Len(Stream)
<1>1. /\ n \in Nat /\ \A j \in At' : Answer(Stream'[j]) => j \in {n + 1, n + 2, n + 3, n + 4}
      /\ n + 1 \in At' /\ n + 2 \in At' /\ n + 3 \in At' /\ n + 4 \in At'
      /\ ArePair(Stream'[n + 1], Stream'[n + 2], t, client.slot, ticket)
      /\ ArePair(Stream'[n + 3], Stream'[n + 4], u, client.slot, ticket)
      /\ n >= 1 => Stream'[1] = Stream[1] /\ 1 \in At
  BY TwoAnswers DEF Answered
<1>2. /\ UNCHANGED <<state, client, ticket, history>> /\ cmds' = <<>> /\ cmds # <<>>
  BY DEF Answered
<1>3. \A j \in At' : Answer(Stream'[j]) =>
          Stream'[j].line.text \in {t, u} /\ Stream'[j].line.link = client.slot /\ Stream'[j].line.cmd = ticket
  BY <1>1 DEF ArePair
<1>4. Paired'
  BY LongerPaired2
<1>5. OnlyAnswers'
  BY <1>2, <1>3 DEF OnlyAnswers, Answer
<1>6. InOrder'
  <2> SUFFICES ASSUME NEW i \in At', NEW j \in At', i < j, Answer(Stream'[i]), Answer(Stream'[j])
               PROVE  Follows(Stream'[i], Stream'[j])
    BY DEF InOrder, Answer, Follows
  <2>1. \/ i = n + 1 /\ j = n + 2
        \/ i = n + 3 /\ j = n + 4
        \/ i \in {n + 1, n + 2} /\ j \in {n + 3, n + 4}
    <3>1. i \in {n + 1, n + 2, n + 3, n + 4} /\ j \in {n + 1, n + 2, n + 3, n + 4} /\ n \in Nat
      BY <1>1
    <3> QED
      BY <3>1, OfFour
  <2>2. /\ Stream'[n + 1].last = FALSE /\ Stream'[n + 2].last = TRUE /\ Stream'[n + 2].line = Stream'[n + 1].line
        /\ Stream'[n + 3].last = FALSE /\ Stream'[n + 4].last = TRUE /\ Stream'[n + 4].line = Stream'[n + 3].line
    BY <1>1 DEF ArePair
  <2>3. /\ Stream'[n + 1].line.text = t /\ Stream'[n + 2].line.text = t
        /\ Stream'[n + 3].line.text = u /\ Stream'[n + 4].line.text = u
    BY <1>1 DEF ArePair
  <2>4. CASE i = n + 1 /\ j = n + 2
    BY <2>2, <2>4, Zenon DEF Follows
  <2>5. CASE i = n + 3 /\ j = n + 4
    BY <2>2, <2>5, Zenon DEF Follows
  <2>6. CASE i \in {n + 1, n + 2} /\ j \in {n + 3, n + 4}
    <3>1. Stream'[i].line.text = t /\ Stream'[j].line.text = u
      BY <2>3, <2>6
    <3> QED
      BY <3>1, Zenon DEF Follows
  <2> QED
    BY <2>1, <2>4, <2>5, <2>6
<1>7. Outstanding'
  BY <1>2 DEF Outstanding
<1>8. \A s : InStream(s)' => s \in {t, u}
  BY <1>3 DEF InStream, Answer
<1>9. Modes'
  <2>1. InStream("> ")' => mode' = "data"
    BY <1>8
  <2>2. \A s \in Sent : ~InStream(s)'
    BY <1>8 DEF Sent, Order
  <2>3. ~history.wrote => client.pc \notin {"sendwait", "promptwait", "sentwait"}
    BY DEF Modes
  <2> QED
    BY <1>2, <2>1, <2>2, <2>3 DEF Modes
<1>10. PartKept'
  <2>1. CASE n >= 1
    <3>1. ~Answer(Stream'[1])
      BY <2>1, <1>1 DEF Answered, NoAnswers
    <3> QED
      BY <3>1 DEF PartKept, Answer
  <2>2. CASE ~(n >= 1)
    <3>1. n + 1 = 1
      <4>1. n \in Nat
        BY <1>1
      <4> QED
        BY <2>2, <4>1, OfNone
    <3>2. Stream'[n + 1].last = FALSE
      BY <1>1 DEF ArePair
    <3>3. Stream'[1].last = FALSE
      BY <3>1, <3>2, Zenon
    <3> QED
      BY <3>3 DEF PartKept
  <2> QED
    BY <2>1, <2>2
<1>11. Answering'
  <2> SUFFICES ASSUME ~history.wrote
               PROVE  \E j \in At' : Stream'[j].last /\ Stream'[j].line.text \in Final
    BY <1>2 DEF Answering, Final
  <2> QED
    BY <1>1 DEF ArePair
<1>12. Connects'
  BY AnsweredConnects
<1>13. Truth'
  BY <1>2 DEF Truth
<1> QED
  BY <1>4, <1>5, <1>6, <1>7, <1>9, <1>10, <1>11, <1>12, <1>13

(* The one command that is out, and what may come of it.                   *)
LEMMA TheCommand ==
    ASSUME LinkTypes, Outstanding, Execute
    PROVE  /\ Answered /\ client.pc \in {"openwait", "closewait", "sendwait", "sentwait"}
           /\ client.pc = "sentwait" => mode = "data"
           /\ \E c : Done(c) /\ c.op = Op(client.pc) /\ c.link = client.slot /\ c.cmd = ticket
<1>1. cmds # <<>> /\ cmds' = Tail(cmds) /\ Done(Head(cmds))
  BY ExecuteDone
<1>2. PICK c : c = [op |-> Op(client.pc), link |-> client.slot, cmd |-> ticket]
  OBVIOUS
<1>3. cmds = <<c>>
  BY <1>1, <1>2, Zenon DEF Outstanding
<1>4. Head(cmds) = c /\ Tail(cmds) = <<>>
  BY <1>3
<1>5. Done(c) /\ cmds' = <<>>
  BY <1>1, <1>4
<1>6. c.op = Op(client.pc) /\ c.link = client.slot /\ c.cmd = ticket
  BY <1>2
<1>7. UNCHANGED <<state, client, ticket, history>> /\ Queue' = Queue
  BY DEF Execute, Queue
<1>8. /\ client.pc \in {"openwait", "closewait", "sendwait", "sentwait"}
      /\ client.pc = "sentwait" => mode = "data"
      /\ NoAnswers
  BY <1>1 DEF Outstanding
<1>9. Answered
  BY <1>1, <1>5, <1>7, <1>8 DEF Answered
<1> QED
  BY <1>5, <1>6, <1>8, <1>9

(* AnswerInv survives the execution of the command.                        *)
LEMMA ExecuteAnswers == LinkTypes /\ AnswerInv /\ Execute => AnswerInv'
<1> SUFFICES ASSUME LinkTypes, AnswerInv, Execute PROVE AnswerInv'
  OBVIOUS
<1>0. LineTypes
  BY LinkParts
<1>1. /\ Answered /\ client.pc \in {"openwait", "closewait", "sendwait", "sentwait"}
      /\ client.pc = "sentwait" => mode = "data"
      /\ ~history.wrote => mode = "command" /\ client.pc \notin {"sendwait", "promptwait", "sentwait"}
  BY TheCommand DEF AnswerInv, Modes
<1>2. PICK c : Done(c) /\ c.op = Op(client.pc) /\ c.link = client.slot /\ c.cmd = ticket
  BY TheCommand DEF AnswerInv
<1>3. CASE StartDone(c)
  <2>1. client.pc = "openwait" /\ mode' = mode
    BY <1>1, <1>2, <1>3 DEF StartDone, Op
  <2>2. {"CONNECT", "OK", "ERROR", "ALREADY CONNECTED"} \subseteq Answers(client.pc)
    BY <2>1 DEF Answers
  <2>3. \/ Adds2("CONNECT", "OK", client.slot, ticket) \/ Adds1("ERROR", client.slot, ticket)
        \/ Adds2("ALREADY CONNECTED", "ERROR", client.slot, ticket)
    BY <1>2, <1>3, Zenon DEF StartDone
  <2>4. <<"CONNECT", "OK">> \in Order /\ <<"ALREADY CONNECTED", "ERROR">> \in Order
        /\ {"OK", "ERROR"} \subseteq Final
    BY DEF Order, Final
  <2>5. CASE Adds2("CONNECT", "OK", client.slot, ticket)
    <3>1. Longer2("CONNECT", "OK", client.slot, ticket)
      BY <2>5, <1>0, AddsLonger2
    <3> QED
      BY <3>1, <2>1, <2>2, <2>4, <1>1, AnswerTwo
  <2>6. CASE Adds1("ERROR", client.slot, ticket)
    <3>1. Longer1("ERROR", client.slot, ticket)
      BY <2>6, <1>0, AddsLonger1
    <3> QED
      BY <3>1, <2>1, <2>2, <2>4, <1>1, AnswerOne
  <2>7. CASE Adds2("ALREADY CONNECTED", "ERROR", client.slot, ticket)
    <3>1. Longer2("ALREADY CONNECTED", "ERROR", client.slot, ticket)
      BY <2>7, <1>0, AddsLonger2
    <3> QED
      BY <3>1, <2>1, <2>2, <2>4, <1>1, AnswerTwo
  <2> QED
    BY <2>3, <2>5, <2>6, <2>7
<1>4. CASE StopDone(c)
  <2>1. client.pc = "closewait" /\ mode' = mode
    BY <1>1, <1>2, <1>4 DEF StopDone, Op
  <2>2. {"CLOSED", "OK", "ERROR"} \subseteq Answers(client.pc)
    BY <2>1 DEF Answers
  <2>3. Adds2("CLOSED", "OK", client.slot, ticket) \/ Adds1("ERROR", client.slot, ticket)
    BY <1>2, <1>4, Zenon DEF StopDone
  <2>4. <<"CLOSED", "OK">> \in Order /\ {"OK", "ERROR"} \subseteq Final
    BY DEF Order, Final
  <2>5. CASE Adds2("CLOSED", "OK", client.slot, ticket)
    <3>1. Longer2("CLOSED", "OK", client.slot, ticket)
      BY <2>5, <1>0, AddsLonger2
    <3> QED
      BY <3>1, <2>1, <2>2, <2>4, <1>1, AnswerTwo
  <2>6. CASE Adds1("ERROR", client.slot, ticket)
    <3>1. Longer1("ERROR", client.slot, ticket)
      BY <2>6, <1>0, AddsLonger1
    <3> QED
      BY <3>1, <2>1, <2>2, <2>4, <1>1, AnswerOne
  <2> QED
    BY <2>3, <2>5, <2>6
<1>5. CASE PromptDone(c)
  <2>1. client.pc = "sendwait" /\ history.wrote
    BY <1>1, <1>2, <1>5 DEF PromptDone, Op
  <2>2. {"> ", "OK", "ERROR"} \subseteq Answers(client.pc)
    BY <2>1 DEF Answers
  <2>3. \/ mode' = "data" /\ Adds2("OK", "> ", client.slot, ticket)
        \/ Adds1("ERROR", client.slot, ticket)
    BY <1>2, <1>5, Zenon DEF PromptDone
  <2>4. <<"OK", "> ">> \in Order
    BY DEF Order
  <2>5. CASE mode' = "data" /\ Adds2("OK", "> ", client.slot, ticket)
    <3>1. Longer2("OK", "> ", client.slot, ticket)
      BY <2>5, <1>0, AddsLonger2
    <3> QED
      BY <3>1, <2>1, <2>2, <2>4, <2>5, <1>1, AnswerTwo
  <2>6. CASE Adds1("ERROR", client.slot, ticket)
    <3>1. Longer1("ERROR", client.slot, ticket)
      BY <2>6, <1>0, AddsLonger1
    <3> QED
      BY <3>1, <2>1, <2>2, <1>1, AnswerOne
  <2> QED
    BY <2>3, <2>5, <2>6
<1>6. CASE DataDone(c)
  <2>1. mode = "data" /\ history.wrote
    BY <1>1, <1>6 DEF DataDone
  <2>2. PICK t \in {"SEND OK", "SEND FAIL"} :
           Adds1(t, c.link, IF c.op = "data" THEN c.cmd ELSE 0)
    BY <1>6 DEF DataDone
  <2>3. PICK k : k = IF c.op = "data" THEN c.cmd ELSE 0
    OBVIOUS
  <2>4. Adds1(t, client.slot, k)
    BY <2>2, <2>3, <1>2, Zenon
  <2>5. Longer1(t, client.slot, k)
    BY <2>4, <1>0, AddsLonger1
  <2>6. t \in Answers(client.pc) /\ t \in Sent /\ t # "> "
    BY <1>1 DEF Answers, Sent
  <2>7. client.pc = "sentwait" => k = ticket
    BY <1>2, <2>3 DEF Op
  <2> QED
    BY <2>1, <2>5, <2>6, <2>7, <1>1, AnswerOne
<1>7. CASE RejectDone(c)
  <2>1. client.pc = "sentwait" /\ mode = "command"
    BY <1>1, <1>2, <1>7 DEF RejectDone, Op
  <2> QED
    BY <2>1, <1>1
<1> QED
  BY <1>2, <1>3, <1>4, <1>5, <1>6, <1>7, Zenon DEF Done

-----------------------------------------------------------------------------
(* The client's steps while no answer comes.                               *)

(* A step of the client while no answer is on its way.                     *)
LEMMA NothingSaid ==
    ASSUME AnswerInv, NoAnswers, Stream' = Stream, mode' = mode, Truth', Connects',
           NEW op,
           \/ cmds' = <<>>
           \/ /\ cmds' = <<[op |-> op, link |-> client'.slot, cmd |-> ticket']>> /\ op = Op(client'.pc)
              /\ client'.pc \in {"openwait", "closewait", "sendwait"},
           client'.pc \in {"openwait", "closewait"} => cmds' # <<>>,
           ~history'.wrote => ~history.wrote /\ client'.pc \notin {"sendwait", "promptwait", "sentwait"}
    PROVE  AnswerInv'
<1> USE DEF AnswerInv
<1>1. At' = At /\ \A j \in At' : ~Answer(Stream'[j])
  BY DEF At, NoAnswers
<1>2. Paired'
  BY <1>1 DEF Paired
<1>3. OnlyAnswers' /\ InOrder'
  BY <1>1 DEF OnlyAnswers, InOrder, Answer
<1>4. NoAnswers' /\ \A t : ~InStream(t)'
  BY <1>1 DEF NoAnswers, InStream, Answer
<1>5. Outstanding'
  BY <1>4, Zenon DEF Outstanding
<1>6. Modes'
  BY <1>4, Zenon DEF Modes
<1>7. PartKept'
  BY <1>1 DEF PartKept, Answer, At
<1>8. Answering'
  BY Zenon DEF Answering, UnderLock
<1> QED
  BY <1>2, <1>3, <1>5, <1>6, <1>7, <1>8

(* Outside of a call of wait() and of the poll nothing is on its way.      *)
AtEase == {"idle", "openlock", "openfailed", "using", "closelock", "closed"}
(* There no answer, CONNECT or command is on its way.                      *)
LEMMA EaseQuiet ==
    ASSUME AnswerInv, client.pc \in AtEase
    PROVE  NoAnswers /\ ~ConnectQueued /\ cmds = <<>>
<1>1. NoAnswers
  BY DEF AnswerInv, OnlyAnswers, NoAnswers, Answers, AtEase
<1>2. ~ConnectQueued
  BY DEF AnswerInv, Connects, ConnectQueued, AtEase
<1>3. cmds = <<>>
  BY DEF AnswerInv, Outstanding, AtEase
<1> QED
  BY <1>1, <1>2, <1>3

(* Without a CONNECT and an answer on its way, only the claimed socket     *)
(* matters.                                                                *)
LEMMA NoConnect ==
    ASSUME ~ConnectQueued, Queue' = Queue, NoAnswers, Stream' = Stream,
           client'.pc \in {"openlock", "openwait"} => state'[client'.slot] # "connected"
    PROVE  Connects'
<1>1. QAt' = QAt /\ \A i \in QAt' : Queue'[i].code # "CONNECT"
  BY DEF QAt, ConnectQueued
<1>2. ~ConnectQueued'
  BY <1>1 DEF ConnectQueued
<1>3. ~InStream("ERROR")'
  BY DEF InStream, NoAnswers, At, Answer
<1> QED
  BY <1>1, <1>2, <1>3 DEF Connects

(* A step of the client that neither reads nor queues keeps the stream and *)
(* the queue.                                                              *)
LEMMA KeptStreams ==
    ASSUME ClientKept, uart' = uart, events' = events
    PROVE  Stream' = Stream /\ Queue' = Queue /\ mode' = mode
BY DEF ClientKept, Stream, Queue

(* Moving on from a place of ease to another.                              *)
LEMMA EaseMoves ==
    ASSUME AnswerInv, NEW from \in AtEase, NEW to \in {"idle", "closelock"}, Moves(from, to)
    PROVE  AnswerInv'
<1>1. client.pc = from /\ client'.pc = to /\ client'.slot = client.slot /\ ClientKept
      /\ UNCHANGED <<cmds, uart, lock, events, ticket, history>>
  BY DEF Moves, ClientTo
<1>2. NoAnswers /\ ~ConnectQueued /\ cmds = <<>>
  BY <1>1, EaseQuiet
<1>3. Stream' = Stream /\ Queue' = Queue /\ mode' = mode
  BY <1>1, KeptStreams
<1>4. Connects'
  BY <1>1, <1>2, <1>3, NoConnect
<1>5. Truth'
  BY <1>1 DEF AnswerInv, Truth
<1>6. history'.wrote = history.wrote
  BY <1>1
<1> QED
  BY <1>1, <1>2, <1>3, <1>4, <1>5, <1>6, NothingSaid

(* A command is given: nothing is out, and this one is.                    *)
LEMMA FirstGiven ==
    ASSUME NEW op, cmds = <<>>, Gives(op)
    PROVE  cmds' = <<[op |-> op, link |-> client.slot, cmd |-> ticket']>> /\ cmds' # <<>>
<1>1. PICK c : c = [op |-> op, link |-> client.slot, cmd |-> ticket']
  OBVIOUS
<1>2. cmds' = Append(<<>>, c)
  BY <1>1, Zenon DEF Gives
<1>3. Append(<<>>, c) = <<c>> /\ <<c>> # <<>>
  OBVIOUS
<1> QED
  BY <1>1, <1>2, <1>3, Zenon

(* AnswerInv survives the giving of a command.                             *)
LEMMA CommandAnswers ==
    ASSUME AnswerInv, NEW op, Gives(op), ClientKept, UNCHANGED <<uart, events, state>>,
           NEW from \in {"openlock", "closelock", "using"}, client.pc = from,
           NEW to \in {"openwait", "closewait", "sendwait"}, ClientTo(to, client.slot, client.part),
           op = Op(to), to = "openwait" => from = "openlock",
           ~history'.wrote => ~history.wrote /\ to # "sendwait",
           history'.misled = history.misled, history'.lied = history.lied
    PROVE  AnswerInv'
<1>1. NoAnswers /\ ~ConnectQueued /\ cmds = <<>>
  BY EaseQuiet DEF AtEase
<1>2. Stream' = Stream /\ Queue' = Queue /\ mode' = mode
  BY KeptStreams
<1>3. client'.pc = to /\ client'.slot = client.slot
  BY DEF ClientTo
<1>4. Connects'
  <2>1. to = "openwait" => state'[client'.slot] # "connected"
    BY <1>3 DEF AnswerInv, Connects
  <2> QED
    BY <1>1, <1>2, <1>3, <2>1, NoConnect
<1>5. Truth'
  BY Zenon DEF AnswerInv, Truth
<1>6. cmds' = <<[op |-> op, link |-> client'.slot, cmd |-> ticket']>> /\ cmds' # <<>>
  BY <1>1, <1>3, FirstGiven
<1> QED
  BY <1>1, <1>2, <1>3, <1>4, <1>5, <1>6, NothingSaid

(* No half is on its way.                                                  *)
LEMMA EmptyStream ==
    ASSUME uart = <<>>, line = <<>> PROVE Stream = <<>> /\ At = {} /\ Len(Stream) = 0
<1>1. Stream = <<>>
  BY DEF Stream
<1> QED
  BY <1>1 DEF At

(* AnswerInv survives a patient timeout; and there is none unless data was *)
(* written: the answer to open() or close() is still on its way, so the    *)
(* stream is not empty.                                                    *)
LEMMA TimeoutAnswers ==
    ASSUME LinkTypes, AnswerInv, ~impatient, ClientTimeout
    PROVE  AnswerInv' /\ history.wrote
<1>1. /\ Waiting /\ uart = <<>> /\ Silent /\ ClientKept
      /\ ClientTo(AfterTimeout(client.pc), client.slot, <<>>)
      /\ HistoryTo(FALSE, UnderLock, FALSE)
      /\ UNCHANGED <<cmds, uart, state, events, ticket>>
  BY TimeoutDoes
<1>2. cmds = <<>> /\ Stream = <<>> /\ At = {} /\ Len(Stream) = 0
  BY <1>1, EmptyStream DEF Silent
<1>3. NoAnswers
  BY <1>2 DEF NoAnswers
<1>4. client.pc \in Waits
  BY <1>1, WaitingPcs
<1>5. history.wrote
  BY <1>2, <1>4 DEF AnswerInv, Answering, Modes, UnderLock, Waits
<1>6. Stream' = Stream /\ Queue' = Queue /\ mode' = mode
  BY <1>1, KeptStreams
<1>7. client'.pc = AfterTimeout(client.pc) /\ client'.slot = client.slot
  BY <1>1 DEF ClientTo
<1>8. /\ client.pc = "openwait" => client'.pc = "poll"
      /\ client'.pc \in {"poll", "closed", "promptwait", "using"}
  BY <1>4, <1>7 DEF AfterTimeout, After, Waits
<1>9. /\ history'.wrote /\ (~history'.lied <=> ~history.lied)
  BY <1>1, <1>5, Zenon DEF HistoryTo, HistoryTypes
<1>10. Truth'
  BY <1>9 DEF AnswerInv, Truth
<1>11. Connects'
  <2>1. QAt' = QAt /\ ConnectQueued' = ConnectQueued /\ \A i \in QAt : Queue'[i] = Queue[i]
    BY <1>6, QueuedSame
  <2>2. ~InStream("ERROR")'
    BY <1>2, <1>6 DEF InStream, At
  <2>3. client.pc # "poll"
    BY <1>4 DEF Waits
  <2>4. state'[client'.slot] = state[client.slot]
    BY <1>1, <1>7
  <2>5. \A i \in QAt' : Queue'[i].code = "CONNECT" =>
            Queue'[i].link = client'.slot /\ client'.pc \in {"openwait", "poll"}
    BY <2>1, <2>3, <1>7, <1>8 DEF AnswerInv, Connects
  <2>6. \A i, j \in QAt' : Queue'[i].code = "CONNECT" /\ Queue'[j].code = "CONNECT" => i = j
    BY <2>1 DEF AnswerInv, Connects
  <2>7. ConnectQueued' => state'[client'.slot] # "connected"
    BY <2>1, <2>3, <2>4 DEF AnswerInv, Connects, ConnectQueued
  <2> QED
    BY <1>8, <2>2, <2>5, <2>6, <2>7 DEF Connects
<1>12. cmds' = <<>> /\ client'.pc \notin {"openwait", "closewait"}
  BY <1>1, <1>2, <1>8
<1> QED
  BY <1>3, <1>5, <1>6, <1>9, <1>10, <1>11, <1>12, NothingSaid

(* AnswerInv survives the end of the poll: the connected state shows that  *)
(* the CONNECT was handled, and that no ERROR is left.                     *)
LEMMA PollConnectedAnswers == LinkTypes /\ AnswerInv /\ PollConnected => AnswerInv'
<1> SUFFICES ASSUME LinkTypes, AnswerInv, PollConnected PROVE AnswerInv'
  OBVIOUS
<1>1. Moves("poll", "using") /\ state' = state /\ state[client.slot] = "connected"
  BY PollConnectedDoes
<1>2. client.pc = "poll" /\ client'.pc = "using" /\ client'.slot = client.slot /\ ClientKept
      /\ UNCHANGED <<cmds, uart, lock, events, ticket, history>>
  BY <1>1 DEF Moves, ClientTo
<1>3. ~ConnectQueued /\ ~InStream("ERROR")
  BY <1>1, <1>2 DEF AnswerInv, Connects
<1>4. NoAnswers
  BY <1>2, <1>3 DEF AnswerInv, OnlyAnswers, Answers, NoAnswers, InStream
<1>5. cmds = <<>>
  BY <1>2 DEF AnswerInv, Outstanding
<1>6. Stream' = Stream /\ Queue' = Queue /\ mode' = mode
  BY <1>2, KeptStreams
<1>7. Connects'
  BY <1>2, <1>3, <1>4, <1>6, NoConnect
<1>8. Truth'
  BY <1>2 DEF AnswerInv, Truth
<1>9. history'.wrote = history.wrote
  BY <1>2
<1> QED
  BY <1>2, <1>4, <1>5, <1>6, <1>7, <1>8, <1>9, NothingSaid

(* It survives giving up, since nothing is on its way then.                *)
LEMMA PollTimeoutAnswers == LinkTypes /\ AnswerInv /\ ~impatient /\ PollTimeout => AnswerInv'
<1> SUFFICES ASSUME LinkTypes, AnswerInv, ~impatient, PollTimeout PROVE AnswerInv'
  OBVIOUS
<1>1. /\ Moves("poll", "idle") /\ state' = state
      /\ Silent /\ uart = <<>> /\ events = <<>> /\ wifi.pc = "sleep"
  BY PollTimeoutDoes
<1>2. client.pc = "poll" /\ client'.pc = "idle" /\ client'.slot = client.slot /\ ClientKept
      /\ UNCHANGED <<cmds, uart, lock, events, ticket, history>>
  BY <1>1 DEF Moves, ClientTo
<1>3. cmds = <<>> /\ At = {}
  BY <1>1, EmptyStream DEF Silent
<1>4. NoAnswers
  BY <1>3 DEF NoAnswers
<1>5. ~ConnectQueued
  <2>1. wifi.copy = <<>>
    BY <1>1, LinkParts DEF WifiTypes
  <2>2. Queue = <<>>
    BY <1>1, <2>1 DEF Queue
  <2> QED
    BY <2>2 DEF ConnectQueued, QAt
<1>6. Stream' = Stream /\ Queue' = Queue /\ mode' = mode
  BY <1>2, KeptStreams
<1>7. Connects'
  BY <1>2, <1>4, <1>5, <1>6, NoConnect
<1>8. Truth'
  BY <1>2 DEF AnswerInv, Truth
<1>9. history'.wrote = history.wrote
  BY <1>2
<1> QED
  BY <1>2, <1>3, <1>4, <1>6, <1>7, <1>8, <1>9, NothingSaid

(* It survives the claiming of a socket.                                   *)
LEMMA OpenAnswers == LinkTypes /\ AnswerInv /\ Open => AnswerInv'
<1> SUFFICES ASSUME LinkTypes, AnswerInv, Open PROVE AnswerInv'
  OBVIOUS
<1>1. /\ client.pc = "idle" /\ ClientKept
      /\ Min(Closed) \in Links /\ ClientTo("openlock", Min(Closed), client.part)
      /\ state' = [state EXCEPT ![Min(Closed)] = "connecting"]
      /\ UNCHANGED <<cmds, uart, lock, events, ticket, history>>
  BY OpenDoes
<1>2. NoAnswers /\ ~ConnectQueued /\ cmds = <<>>
  BY <1>1, EaseQuiet DEF AtEase
<1>3. Stream' = Stream /\ Queue' = Queue /\ mode' = mode
  BY <1>1, KeptStreams
<1>4. client'.pc = "openlock" /\ client'.slot = Min(Closed)
  BY <1>1 DEF ClientTo
<1>5. state'[client'.slot] = "connecting"
  <2>1. state \in [Links -> {"disconnected", "connecting", "connected"}]
    BY LinkParts DEF HostTypes
  <2> QED
    BY <2>1, <1>1, <1>4
<1>6. Connects'
  BY <1>2, <1>3, <1>5, NoConnect
<1>7. Truth'
  BY <1>1 DEF AnswerInv, Truth
<1>8. history'.wrote = history.wrote /\ cmds' = <<>>
  BY <1>1, <1>2
<1> QED
  BY <1>2, <1>3, <1>4, <1>6, <1>7, <1>8, NothingSaid

-----------------------------------------------------------------------------
(* The client reads in wait().                                             *)

(* The client reads a half in wait(), whatever it then does with it.       *)
LEMMA ClientReads ==
    ASSUME LinkTypes, Waiting, uart # <<>>, uart' = Tail(uart), ClientKept, NEW h, h = Head(uart)
    PROVE  /\ Shorter /\ Stream[1] = h /\ 1 \in At /\ h.line.link \in Links /\ client.pc \in Waits
           /\ h.line.text \in Texts
           /\ UNCHANGED <<impatient, mode, up, wifi>>
<1>1. LineTypes
  BY LinkParts
<1>2. UNCHANGED <<impatient, mode, up, line, wifi>>
  BY DEF ClientKept
<1>3. Shorter /\ Stream[1] = h /\ h.line.link \in Links
  BY <1>1, <1>2, ReadsStream, HeadTypes
<1>4. h.line.text \in Texts
  <2>1. h \in HalfLines
    BY <1>1, HeadTypes
  <2>2. h.line \in Lines
    BY <2>1 DEF HalfLines
  <2> QED
    BY <2>2 DEF Lines
<1> QED
  BY <1>2, <1>3, <1>4, ShorterHalves, WaitingPcs

(* An answer that comes after a read one follows it in the order above.    *)
LEMMA LaterAnswers ==
    ASSUME AnswerInv, Shorter, NEW j \in At', Answer(Stream'[j])
    PROVE  /\ j + 1 \in At /\ Stream'[j] = Stream[j + 1] /\ Answer(Stream[j + 1])
           /\ Answer(Stream[1]) /\ Stream[1].last =>
                 <<Stream[1].line.text, Stream'[j].line.text>> \in Order
<1>1. j + 1 \in At /\ Stream'[j] = Stream[j + 1] /\ j + 1 >= 2 /\ 1 \in At
  BY ShorterHalves
<1>2. 1 < j + 1
  BY <1>1 DEF At
<1>3. Answer(Stream[1]) => Follows(Stream[1], Stream[j + 1])
  BY <1>1, <1>2, Zenon DEF AnswerInv, InOrder
<1> QED
  BY <1>1, <1>3, Zenon DEF Follows

(* Under the lock a whole answer is recognised.                            *)
LEMMA FinalExpected ==
    ASSUME AnswerInv, UnderLock, NEW h, Stream[1] = h, 1 \in At, h.last, h.line.text \in Final
    PROVE  Response(client.part, h) \in Expected(client.pc)
<1>1. Answer(h)
  BY DEF Answer, Final
<1>2. client.part = <<h.line>>
  BY <1>1 DEF AnswerInv, PartKept, At
<1>3. h.line.text \in Answers(client.pc)
  BY <1>1 DEF AnswerInv, OnlyAnswers
<1>4. Whole(client.part, h)
  BY <1>2 DEF Whole
<1>5. Response(client.part, h) = h.line.text
  BY <1>4 DEF Response, Final
<1>6. h.line.text \in Expected(client.pc)
  BY <1>3 DEF Answers, Sent, Expected, Final, UnderLock
<1> QED
  BY <1>5, <1>6

(* AnswerInv survives a read that does not end the wait: it was not a      *)
(* whole answer, or it was the CONNECT, which is queued.                   *)
LEMMA ClientQueuesAnswers == LinkTypes /\ LockHeld /\ AnswerInv /\ ClientQueues => AnswerInv'
<1> SUFFICES ASSUME LinkTypes, LockHeld, AnswerInv, ClientQueues PROVE AnswerInv'
  OBVIOUS
<1>1. PICK h : h = Head(uart)
  OBVIOUS
<1>2. PICK r : r = Response(client.part, h)
  OBVIOUS
<1>3. /\ Waiting /\ uart # <<>> /\ uart' = Tail(uart) /\ ClientKept
      /\ r \notin Expected(client.pc)
      /\ ClientTo(client.pc, client.slot, Remember(h))
      /\ events' = events \o Queued(r, h)
      /\ HistoryTo(HalfMissing(client.part, h), FALSE, FALSE)
      /\ UNCHANGED <<cmds, lock, state, ticket>>
  BY <1>1, <1>2, QueuesDoes, Zenon
<1>4. /\ Shorter /\ Stream[1] = h /\ 1 \in At /\ h.line.link \in Links /\ client.pc \in Waits
      /\ UNCHANGED <<mode, wifi>>
  BY <1>1, <1>3, ClientReads
<1>5. client'.pc = client.pc /\ client'.slot = client.slot /\ client'.part = Remember(h)
  BY <1>3 DEF ClientTo
<1>6. /\ r \in {"CONNECT", "CLOSED"} => QGrown(r, h.line.link) \/ (Queue' = Queue /\ wifi.pc = "clear")
      /\ r \notin {"CONNECT", "CLOSED"} => Queue' = Queue
  BY <1>3, <1>4, QueueReads
<1>7. \A j \in At' : j + 1 \in At /\ Stream'[j] = Stream[j + 1]
  BY <1>4, ShorterHalves
<1>8. history'.wrote = history.wrote /\ (history'.misled => history.misled) /\ (history'.lied => history.lied)
  BY <1>3, Zenon DEF HistoryTo, HistoryTypes
<1> USE DEF AnswerInv
<1>9. Paired' /\ InOrder'
  BY <1>4, ShorterPaired, ShorterOrder
<1>10. OnlyAnswers'
  BY <1>3, <1>5, <1>7 DEF OnlyAnswers, Answer
<1>11. \A t : InStream(t)' => InStream(t)
  BY <1>4, ShorterIn
<1>12. Outstanding'
  BY <1>3, <1>4, <1>5, <1>7 DEF Outstanding, NoAnswers, Answer
<1>13. Modes'
  BY <1>4, <1>5, <1>8, <1>11, Zenon DEF Modes
<1>14. PartKept'
  <2> SUFFICES ASSUME Len(Stream') >= 1, Stream'[1].last PROVE client'.part = <<Stream'[1].line>>
    BY DEF PartKept
  <2>1. Stream'[1] = Stream[2] /\ 1 < Len(Stream)
    BY <1>4 DEF Shorter
  <2>2. ~h.last /\ Stream[2].line = h.line
    BY <2>1, <1>4 DEF Paired
  <2> QED
    BY <2>1, <2>2, <1>5 DEF Remember
<1>15. Answering'
  <2> SUFFICES ASSUME ~history.wrote, UnderLock, cmds = <<>>
               PROVE  \E j \in At' : Stream'[j].last /\ Stream'[j].line.text \in Final
    BY <1>3, <1>5, <1>8 DEF Answering, UnderLock, Final
  <2>1. PICK j \in At : Stream[j].last /\ Stream[j].line.text \in Final
    BY DEF Answering
  <2>2. j # 1
    BY <2>1, <1>2, <1>3, <1>4, FinalExpected
  <2>3. j - 1 \in At' /\ Stream'[j - 1] = Stream[j]
    BY <2>2, <1>4, ShorterHalves
  <2> QED
    BY <2>1, <2>3
<1>16. client.pc # "poll" /\ client.pc # "openlock"
  BY <1>4 DEF Waits
<1>17. CASE r = "CONNECT"
  <2>0. Response(client.part, h) = "CONNECT"
    BY <1>2, <1>17
  <2>1. h.line.text = "CONNECT" /\ h.last
    BY <2>0, ResponseEvent DEF IsEvent
  <2>2. Answer(h)
    BY <2>1 DEF Answer
  <2>3. "CONNECT" \in Answers(client.pc) /\ h.line.link = client.slot
    BY <2>1, <2>2, <1>4 DEF OnlyAnswers
  <2>4. client.pc = "openwait"
    BY <2>3 DEF Answers, Sent
  <2>5. wifi.pc = "sleep"
    BY <2>4 DEF LockHeld, UnderLock
  <2>6. QGrown("CONNECT", client.slot)
    BY <2>3, <2>5, <1>6, <1>17
  <2>7. ~ConnectQueued /\ cmds = <<>>
    BY <2>1, <2>2, <2>4, <1>4 DEF Connects, Outstanding, NoAnswers
  <2>8. \A i \in QAt' : Queue'[i].code = "CONNECT" =>
            i = Len(Queue) + 1 /\ Queue'[i].link = client.slot
    BY <2>6, <2>7 DEF QGrown, QAt, ConnectQueued
  <2>9. ASSUME NEW j \in At', Answer(Stream'[j]) PROVE Stream'[j].line.text = "OK"
    <3>1. <<h.line.text, Stream'[j].line.text>> \in Order
      BY <2>1, <2>2, <2>9, <1>4, LaterAnswers
    <3> QED
      BY <3>1, <2>1 DEF Order
  <2>10. state[client.slot] # "connected"
    BY <2>4 DEF Connects
  <2>11. Connects'
    BY <2>4, <2>7, <2>8, <2>9, <2>10, <1>3, <1>5 DEF Connects, Answer
  <2>12. Truth'
    BY <1>8 DEF Truth
  <2> QED
    BY <2>11, <2>12, <1>9, <1>10, <1>12, <1>13, <1>14, <1>15
<1>18. CASE r # "CONNECT"
  <2>1. \A i \in QAt' : Queue'[i].code = "CONNECT" => i \in QAt /\ Queue'[i] = Queue[i]
    <3>1. CASE r = "CLOSED"
      <4>1. QGrown("CLOSED", h.line.link) \/ Queue' = Queue
        BY <3>1, <1>6
      <4> QED
        BY <4>1, QueuedClosed, QueuedSame
    <3>2. CASE r # "CLOSED"
      BY <3>2, <1>6, <1>18, QueuedSame
    <3> QED
      BY <3>1, <3>2
  <2>2. ConnectQueued' => ConnectQueued
    BY <2>1 DEF ConnectQueued
  <2>3. \A i \in QAt' : Queue'[i].code = "CONNECT" =>
            Queue'[i].link = client'.slot /\ client'.pc \in {"openwait", "poll"}
    BY <2>1, <1>5 DEF Connects
  <2>4. \A i, j \in QAt' : Queue'[i].code = "CONNECT" /\ Queue'[j].code = "CONNECT" => i = j
    BY <2>1 DEF Connects
  <2>5. client'.pc = "openwait" /\ ConnectQueued' =>
            cmds' = <<>> /\ \A j \in At' : Answer(Stream'[j]) => Stream'[j].line.text = "OK"
    BY <2>2, <1>3, <1>5, <1>7 DEF Connects, Answer
  <2>6. client'.pc \in {"openlock", "openwait"} => state'[client'.slot] # "connected"
    BY <1>3, <1>5 DEF Connects
  <2>7. Connects'
    BY <2>3, <2>4, <2>5, <2>6, <1>5, <1>16 DEF Connects, Answer
  <2>8. Truth'
    BY <1>8 DEF Truth
  <2> QED
    BY <2>7, <2>8, <1>9, <1>10, <1>12, <1>13, <1>14, <1>15
<1> QED
  BY <1>17, <1>18

-----------------------------------------------------------------------------
(* What ends a call of wait(), and where the client goes with it.          *)
Ends(pc, h, to) ==
    /\ h.last /\ h.line.text \in Final \cup Sent \cup {"> "}
    /\ pc = "openwait" =>
          to \in {"poll", "openfailed"} /\ (to = "openfailed" => h.line.text \in {"ERROR", "SEND FAIL"})
    /\ pc = "closewait" =>
          to \in {"closed", "idle"} /\ (to = "idle" => h.line.text \in {"ERROR", "SEND FAIL"})
    /\ pc = "sendwait" =>
          to \in {"promptwait", "using"} /\ (to = "using" => h.line.text = "ERROR")
    /\ pc = "promptwait" => to = "sentwait" /\ h.line.text = "> "
    /\ pc = "sentwait" => to = "using" /\ h.line.text = "SEND OK"

(* A line that ends wait() ends it as the table says.                      *)
LEMMA EndOfWait ==
    ASSUME NEW pc \in Waits, NEW part, NEW h, h.line.text \in Texts,
           NEW r, r = Response(part, h), r \in Expected(pc)
    PROVE  Ends(pc, h, After(pc, r))
<1>0. \/ h.line.text = r /\ r # "FAIL"
      \/ (h.line.text = "SEND OK" /\ r = "OK") \/ (h.line.text = "SEND FAIL" /\ r = "FAIL")
  BY DEF Response, Whole, Expected, Waits, Texts
<1>1. h.last
  BY DEF Response, Whole, Expected, Waits
<1>2. r = "SEND FAIL" => FALSE
  BY DEF Response
<1>3. CASE pc = "openwait"
  <2>1. r \in {"OK", "ERROR", "FAIL", "ALREADY CONNECTED"}
    BY <1>3 DEF Expected
  <2>2. After(pc, r) = IF r \in {"OK", "ALREADY CONNECTED"} THEN "poll" ELSE "openfailed"
    BY <2>1, <1>3 DEF After
  <2>3. h.line.text \in {"OK", "ERROR", "ALREADY CONNECTED", "SEND OK", "SEND FAIL"}
    BY <2>1, <1>0
  <2>4. After(pc, r) = "openfailed" => h.line.text \in {"ERROR", "SEND FAIL"}
    BY <2>1, <2>2, <1>0
  <2> QED
    BY <2>2, <2>3, <2>4, <1>1, <1>3 DEF Final, Sent, Ends
<1>4. CASE pc = "closewait"
  <2>1. r \in {"OK", "ERROR", "FAIL"}
    BY <1>4 DEF Expected
  <2>2. After(pc, r) = IF r = "OK" THEN "closed" ELSE "idle"
    BY <2>1, <1>4 DEF After
  <2>3. h.line.text \in {"OK", "ERROR", "ALREADY CONNECTED", "SEND OK", "SEND FAIL"}
    BY <2>1, <1>0
  <2>4. After(pc, r) = "idle" => h.line.text \in {"ERROR", "SEND FAIL"}
    BY <2>1, <2>2, <1>0
  <2> QED
    BY <2>2, <2>3, <2>4, <1>1, <1>4 DEF Final, Sent, Ends
<1>5. CASE pc = "sendwait"
  BY <1>0, <1>1, <1>2, <1>5 DEF Expected, After, Final, Sent, Ends
<1>6. CASE pc = "promptwait"
  BY <1>0, <1>1, <1>2, <1>6 DEF Expected, After, Final, Sent, Ends
<1>7. CASE pc = "sentwait"
  BY <1>0, <1>1, <1>2, <1>7 DEF Expected, After, Final, Sent, Ends
<1> QED
  BY <1>3, <1>4, <1>5, <1>6, <1>7 DEF Waits, Ends

(* What may still come after it.                                           *)
LEMMA AfterEnd ==
    ASSUME NEW pc \in Waits, NEW part, NEW h, h.line.text \in Texts,
           NEW r, r = Response(part, h), r \in Expected(pc),
           NEW u, <<h.line.text, u>> \in Order, u \in Answers(pc)
    PROVE  \/ u = "> " /\ After(pc, r) = "promptwait"
           \/ u = "ERROR" /\ After(pc, r) = "poll" /\ pc = "openwait"
<1>0. Ends(pc, h, After(pc, r))
  BY EndOfWait
<1>1. h.line.text \in Final \cup Sent \cup {"> "}
  BY <1>0 DEF Ends
<1>2. (h.line.text = "OK" /\ u = "> ") \/ (h.line.text = "ALREADY CONNECTED" /\ u = "ERROR")
  BY <1>1 DEF Order, Final, Sent
<1>3. CASE u = "> "
  <2>1. pc = "sendwait"
    <3>1. pc # "promptwait"
      BY <1>0, <1>2, <1>3 DEF Ends
    <3> QED
      BY <3>1, <1>3 DEF Answers, Sent, Waits
  <2>2. After(pc, r) = "using" => h.line.text = "ERROR"
    BY <1>0, <2>1 DEF Ends
  <2>3. After(pc, r) \in {"promptwait", "using"}
    BY <1>0, <2>1 DEF Ends
  <2> QED
    BY <2>2, <2>3, <1>2, <1>3
<1>4. CASE u = "ERROR"
  <2>1. h.line.text = "ALREADY CONNECTED"
    BY <1>2, <1>4
  <2>2. pc \notin {"closewait", "sendwait"}
    BY <2>1 DEF Response, Whole, Expected
  <2>3. pc = "openwait"
    BY <2>2, <1>4 DEF Answers, Sent, Waits
  <2>4. After(pc, r) = "openfailed" => h.line.text \in {"ERROR", "SEND FAIL"}
    BY <1>0, <2>3 DEF Ends
  <2>5. After(pc, r) \in {"poll", "openfailed"}
    BY <1>0, <2>3 DEF Ends
  <2> QED
    BY <2>1, <2>3, <2>4, <2>5, <1>4
<1> QED
  BY <1>2, <1>3, <1>4

(* AnswerInv survives the answer: it is one to the command that was given. *)
LEMMA ClientAnsweredAnswers == LinkTypes /\ AnswerInv /\ ClientAnswered => AnswerInv'
<1> SUFFICES ASSUME LinkTypes, AnswerInv, ClientAnswered PROVE AnswerInv'
  OBVIOUS
<1>1. PICK h : h = Head(uart)
  OBVIOUS
<1>2. PICK r : r = Response(client.part, h)
  OBVIOUS
<1>3. PICK to : to = After(client.pc, r)
  OBVIOUS
<1>4. /\ Waiting /\ uart # <<>> /\ uart' = Tail(uart) /\ ClientKept
      /\ r \in Expected(client.pc) /\ ClientTo(to, client.slot, <<>>)
      /\ HistoryTo(HalfMissing(client.part, h), UnderLock /\ h.line.cmd # ticket,
                   Reported(client.pc, r) /\ h.line.cmd # ticket)
      /\ cmds' = IF client.pc = "promptwait"
                 THEN Append(cmds, [op |-> "data", link |-> client.slot, cmd |-> ticket])
                 ELSE cmds
      /\ UNCHANGED <<state, events, ticket>>
  BY <1>1, <1>2, <1>3, AnsweredDoes, Zenon
<1>5. /\ Shorter /\ Stream[1] = h /\ 1 \in At /\ client.pc \in Waits /\ h.line.text \in Texts
      /\ UNCHANGED <<mode, wifi>>
  BY <1>1, <1>4, ClientReads
<1>6. client'.pc = to /\ client'.slot = client.slot
  BY <1>4 DEF ClientTo
<1>7. Queue' = Queue
  BY <1>4, <1>5 DEF Queue
<1>8. Ends(client.pc, h, to)
  BY <1>2, <1>3, <1>4, <1>5, EndOfWait
<1>9. Answer(h)
  BY <1>8 DEF Answer, Final, Sent, Ends
<1> USE DEF AnswerInv
<1>10. /\ h.line.text \in Answers(client.pc) /\ cmds = <<>>
       /\ h.line.cmd = ticket \/ (h.line.text \in Sent /\ client.pc # "sentwait")
  BY <1>5, <1>9 DEF OnlyAnswers, Outstanding, NoAnswers
<1>11. ASSUME NEW j \in At', Answer(Stream'[j])
       PROVE  /\ j + 1 \in At /\ Stream'[j] = Stream[j + 1] /\ Answer(Stream[j + 1])
              /\ Stream'[j].line.link = client.slot /\ Stream'[j].line.cmd = ticket
              /\ \/ Stream'[j].line.text = "> " /\ to = "promptwait"
                 \/ Stream'[j].line.text = "ERROR" /\ to = "poll" /\ client.pc = "openwait"
  <2>1. /\ j + 1 \in At /\ Stream'[j] = Stream[j + 1] /\ Answer(Stream[j + 1])
        /\ <<h.line.text, Stream'[j].line.text>> \in Order
    BY <1>5, <1>8, <1>9, <1>11, LaterAnswers DEF Ends
  <2>2. /\ Stream'[j].line.text \in Answers(client.pc) /\ Stream'[j].line.link = client.slot
        /\ Stream'[j].line.cmd = ticket \/ Stream'[j].line.text \in Sent
    BY <2>1 DEF OnlyAnswers
  <2>3. PICK u : u = Stream'[j].line.text
    OBVIOUS
  <2>4. \/ u = "> " /\ After(client.pc, r) = "promptwait"
        \/ u = "ERROR" /\ After(client.pc, r) = "poll" /\ client.pc = "openwait"
    BY <2>1, <2>2, <2>3, <1>2, <1>4, <1>5, AfterEnd
  <2> QED
    BY <2>1, <2>2, <2>3, <2>4, <1>3 DEF Sent
<1>12. Paired' /\ InOrder'
  BY <1>5, ShorterPaired, ShorterOrder
<1>13. OnlyAnswers'
  BY <1>4, <1>6, <1>11 DEF OnlyAnswers, Answers, Answer
<1>14. \A t : InStream(t)' => InStream(t)
  BY <1>5, ShorterIn
<1>15. Outstanding'
  <2> SUFFICES ASSUME cmds' # <<>>
               PROVE  /\ cmds' = <<[op |-> Op(client'.pc), link |-> client'.slot, cmd |-> ticket']>>
                      /\ client'.pc = "sentwait" /\ mode' = "data" /\ NoAnswers'
    BY DEF Outstanding
  <2>1. client.pc = "promptwait" /\ to = "sentwait" /\ h.line.text = "> "
    BY <1>4, <1>8, <1>10 DEF Ends
  <2>2. PICK c : c = [op |-> "data", link |-> client.slot, cmd |-> ticket]
    OBVIOUS
  <2>3. cmds' = Append(<<>>, c)
    BY <2>1, <2>2, <1>4, <1>10, Zenon
  <2>4. Append(<<>>, c) = <<c>>
    OBVIOUS
  <2>5. Op(client'.pc) = "data" /\ client'.slot = client.slot /\ ticket' = ticket
    BY <2>1, <1>4, <1>6 DEF Op
  <2>6. cmds' = <<[op |-> Op(client'.pc), link |-> client'.slot, cmd |-> ticket']>>
    BY <2>2, <2>3, <2>4, <2>5, Zenon
  <2>7. mode' = "data"
    BY <2>1, <1>5, <1>9 DEF Modes, InStream
  <2>8. NoAnswers'
    BY <2>1, <1>11 DEF NoAnswers, Answer
  <2> QED
    BY <2>1, <2>6, <2>7, <2>8, <1>6
<1>16. /\ history'.wrote = history.wrote
       /\ history'.misled => history.misled \/ (UnderLock /\ h.line.cmd # ticket)
       /\ history'.lied => history.lied \/ (Reported(client.pc, r) /\ h.line.cmd # ticket)
  BY <1>4, Zenon DEF HistoryTo, HistoryTypes
<1>17. to \in {"poll", "openfailed", "closed", "idle", "promptwait", "sentwait", "using"}
  BY <1>5, <1>8 DEF Waits, Ends
<1>18. Modes'
  <2>1. InStream("> ")' => mode' = "data"
    BY <1>5, <1>14 DEF Modes
  <2>2. ~history.wrote => mode' = "command" /\ to \notin {"sendwait", "promptwait", "sentwait"}
                          /\ \A t \in Sent : ~InStream(t)'
    BY <1>5, <1>8, <1>14, <1>17 DEF Modes, Waits, Ends
  <2> QED
    BY <2>1, <2>2, <1>6, <1>16, Zenon DEF Modes
<1>19. PartKept' /\ Answering'
  BY <1>6, <1>17 DEF PartKept, Answering, UnderLock
<1>20. Connects'
  <2>1. QAt' = QAt /\ ConnectQueued' = ConnectQueued /\ \A i \in QAt : Queue'[i] = Queue[i]
    BY <1>7, QueuedSame
  <2>2. client.pc \notin {"poll", "openlock"} /\ client'.pc \notin {"openlock", "openwait"}
    BY <1>5, <1>6, <1>17 DEF Waits
  <2>3. ConnectQueued => client.pc = "openwait" /\ to = "poll" /\ ~InStream("ERROR")
    <3> SUFFICES ASSUME ConnectQueued
                 PROVE  client.pc = "openwait" /\ to = "poll" /\ ~InStream("ERROR")
      OBVIOUS
    <3>1. client.pc = "openwait"
      BY <2>2 DEF Connects, ConnectQueued
    <3>2. \A j \in At : Answer(Stream[j]) => Stream[j].line.text = "OK"
      BY <3>1 DEF Connects
    <3>3. h.line.text = "OK"
      BY <3>2, <1>5, <1>9
    <3> QED
      BY <3>1, <3>2, <3>3, <1>8 DEF InStream, Ends
  <2>4. \A i \in QAt' : Queue'[i].code = "CONNECT" =>
            Queue'[i].link = client'.slot /\ client'.pc \in {"openwait", "poll"}
    BY <2>1, <2>3, <1>6 DEF Connects, ConnectQueued
  <2>5. \A i, j \in QAt' : Queue'[i].code = "CONNECT" /\ Queue'[j].code = "CONNECT" => i = j
    BY <2>1 DEF Connects
  <2>6. client'.pc = "poll" => state'[client'.slot] # "connected"
    <3>1. to = "poll" => client.pc = "openwait"
      BY <1>5, <1>8 DEF Waits, Ends
    <3> QED
      BY <3>1, <1>4, <1>6 DEF Connects
  <2>7. client'.pc = "poll" /\ InStream("ERROR")' => ~ConnectQueued'
    BY <2>1, <2>3, <1>14
  <2> QED
    BY <2>2, <2>4, <2>5, <2>6, <2>7 DEF Connects
<1>21. Truth'
  <2>1. ~(Reported(client.pc, r) /\ h.line.cmd # ticket)
    BY <1>10 DEF Reported
  <2>2. ~history.wrote => ~(UnderLock /\ h.line.cmd # ticket)
    <3>1. ~history.wrote => h.line.text \notin Sent
      BY <1>5, <1>9 DEF Modes, InStream
    <3> QED
      BY <3>1, <1>10
  <2> QED
    BY <2>1, <2>2, <1>16, Zenon DEF Truth
<1> QED
  BY <1>12, <1>13, <1>15, <1>18, <1>19, <1>20, <1>21

-----------------------------------------------------------------------------
LinkInv == LinkTypes /\ LockHeld /\ (~impatient => AnswerInv)

(* AnswerInv survives every step of a patient behaviour.                   *)
LEMMA AnswerStep ==
    ASSUME LinkTypes, LockHeld, ~impatient, AnswerInv, [Next]_vars PROVE AnswerInv'
<1>1. CASE UNCHANGED vars \/ Transmit \/ WifiLock \/ WifiCopy \/ WifiClear \/ WifiListen \/ WifiQuiet
           \/ WifiUnlock
  BY <1>1, QuietSteps, QuietAnswers
<1>2. CASE Execute
  BY <1>2, ExecuteAnswers
<1>3. CASE PeerCloses
  BY <1>3, PeerAnswers
<1>4. CASE WifiHandle
  BY <1>4, HandleAnswers
<1>5. CASE WifiRead
  BY <1>5, WifiReadAnswers
<1>6. CASE Open
  BY <1>6, OpenAnswers
<1>7. CASE Leave
  <2>1. Moves("using", "idle")
    BY <1>7, LeaveDoes
  <2> QED
    BY <2>1, EaseMoves DEF AtEase
<1>8. CASE StartClose
  <2>1. Moves("using", "closelock")
    BY <1>8, StartCloseDoes
  <2> QED
    BY <2>1, EaseMoves DEF AtEase
<1>9. CASE OpenFailed
  <2>1. Moves("openfailed", "idle")
    BY <1>9, OpenFailedDoes
  <2> QED
    BY <2>1, EaseMoves DEF AtEase
<1>10. CASE CloseDone
  <2>1. Moves("closed", "idle")
    BY <1>10, CloseDoneDoes
  <2> QED
    BY <2>1, EaseMoves DEF AtEase
<1>11. CASE Send
  <2>1. /\ client.pc = "using" /\ Gives("send") /\ ClientKept /\ UNCHANGED <<uart, state, events>>
        /\ ClientTo("sendwait", client.slot, client.part) /\ history'.wrote = TRUE
        /\ history'.misled = history.misled /\ history'.lied = history.lied
    BY <1>11, SendDoes, Zenon
  <2> QED
    BY <2>1, CommandAnswers DEF Op
<1>12. CASE OpenCommand
  <2>1. /\ client.pc = "openlock" /\ Gives("start") /\ ClientKept /\ UNCHANGED <<uart, state, events>>
        /\ ClientTo("openwait", client.slot, client.part) /\ history' = history
    BY <1>12, OpenCommandDoes
  <2> QED
    BY <2>1, CommandAnswers DEF Op
<1>13. CASE CloseCommand
  <2>1. /\ client.pc = "closelock" /\ Gives("stop") /\ ClientKept /\ UNCHANGED <<uart, state, events>>
        /\ ClientTo("closewait", client.slot, client.part) /\ history' = history
    BY <1>13, CloseCommandDoes
  <2> QED
    BY <2>1, CommandAnswers DEF Op
<1>14. CASE PollConnected
  BY <1>14, PollConnectedAnswers
<1>15. CASE PollTimeout
  BY <1>15, PollTimeoutAnswers
<1>16. CASE ClientAnswered
  BY <1>16, ClientAnsweredAnswers
<1>17. CASE ClientQueues
  BY <1>17, ClientQueuesAnswers
<1>18. CASE ClientTimeout
  BY <1>18, TimeoutAnswers
<1> QED
  BY <1>1, <1>2, <1>3, <1>4, <1>5, <1>6, <1>7, <1>8, <1>9, <1>10, <1>11, <1>12, <1>13, <1>14, <1>15, <1>16,
     <1>17, <1>18 DEF Next, WifiRun, ClientRun, ClientTakesLock

(* No step changes whether timeouts are patient.                           *)
LEMMA SameCase == [Next]_vars => impatient' = impatient
BY DEF Next, vars, Execute, PeerCloses, Transmit, WifiRun, WifiLock, WifiCopy, WifiClear, WifiHandle, WifiListen,
       WifiRead, WifiQuiet, WifiUnlock, WifiOnly, ClientRun, ClientTakesLock, ClientOnly, Open, Leave,
       StartClose, Send, OpenCommand, CloseCommand, OpenFailed, CloseDone, PollConnected, PollTimeout,
       ClientAnswered, ClientQueues, ClientTimeout

(* So the invariant holds.                                                 *)
LEMMA LinkInvHolds == Spec => []LinkInv
<1>1. Init => LinkInv
  BY TypesInit, LockInit, AnswerInit DEF LinkInv
<1>2. LinkInv /\ [Next]_vars => LinkInv'
  <2> SUFFICES ASSUME LinkInv, [Next]_vars PROVE LinkInv'
    OBVIOUS
  <2>1. LinkTypes' /\ LockHeld'
    BY TypesStep, LockStep DEF LinkInv
  <2>2. impatient' = impatient
    BY SameCase
  <2>3. ~impatient => AnswerInv'
    BY AnswerStep DEF LinkInv
  <2> QED
    BY <2>1, <2>2, <2>3 DEF LinkInv
<1> QED
  BY <1>1, <1>2, PTL DEF Spec

(* open() and close() act on the module's answer to the command they gave, *)
(* and a write that is reported done sent its own data, however the two    *)
(* tasks and the module interleave: for any number of links and calls,     *)
(* whole lines or torn ones.                                               *)
THEOREM ToldTrueHolds == Spec => []ToldTrue
<1>1. LinkInv => ToldTrue
  BY DEF LinkInv, AnswerInv, Truth, ToldTrue, CommandsToldTrue, SendsToldTrue
<1> QED
  BY <1>1, LinkInvHolds, PTL

-----------------------------------------------------------------------------
(* The changes of connections.                                             *)

(* What the end of the stream, of the queue and the state say of a link.   *)
EventOf(h, l) == IsEvent(h) /\ h.line.link = l
LastSaid(j, l) == EventOf(Stream[j], l) /\ \A k \in At : k > j => ~EventOf(Stream[k], l)
NoneSaid(l) == \A j \in At : ~EventOf(Stream[j], l)
LastQueued(i, l) == Queue[i].link = l /\ \A k \in QAt : k > i => Queue[k].link # l
NoneQueued(l) == \A i \in QAt : Queue[i].link # l

(* The last change that is on its way is the one that the module made.     *)
SaidTrue(l) == \A j \in At : LastSaid(j, l) => (Stream[j].line.text = "CONNECT" <=> l \in up)
QueuedTrue(l) ==
    NoneSaid(l) => \A i \in QAt : LastQueued(i, l) => (Queue[i].code = "CONNECT" <=> l \in up)
(* With none on its way the state says so too, outside of open() and the   *)
(* end of close(), which set it themselves.                                *)
Between(l) == l = client.slot /\ client.pc \in {"openlock", "openwait", "openfailed", "closed"}
StateTrue(l) ==
    NoneSaid(l) /\ NoneQueued(l) /\ ~Between(l) =>
       state[l] = IF l \in up THEN "connected" ELSE "disconnected"
Follow(l) == SaidTrue(l) /\ QueuedTrue(l) /\ StateTrue(l)

(* open() and close() on the way to setting it.                            *)
ConnectSaid == \E j \in At : Stream[j].last /\ Stream[j].line.text = "CONNECT"
OnTheWay ==
    /\ client.pc \in {"openlock", "openfailed", "closed"} => client.slot \notin up
    /\ client.pc = "openwait" /\ (cmds # <<>> \/ InStream("ERROR")) => client.slot \notin up
    /\ client.pc = "closewait" /\ InStream("OK") => client.slot \notin up
    /\ client.pc = "openwait" /\ InStream("OK") => ConnectQueued \/ ConnectSaid
    /\ ~InStream("ALREADY CONNECTED")

EventInv == (\A l \in Links : Follow(l)) /\ OnTheWay

(* EventInv holds initially.                                               *)
LEMMA EventInit == Init => EventInv
<1> SUFFICES ASSUME Init PROVE EventInv
  OBVIOUS
<1> USE DEF Init
<1>1. Stream = <<>> /\ Queue = <<>>
  BY DEF Stream, Queue
<1>2. At = {} /\ QAt = {}
  BY <1>1 DEF At, QAt
<1>3. \A l \in Links : Follow(l)
  BY <1>2 DEF Follow, SaidTrue, QueuedTrue, StateTrue
<1>4. OnTheWay
  BY <1>2 DEF OnTheWay, InStream
<1> QED
  BY <1>3, <1>4 DEF EventInv

-----------------------------------------------------------------------------
(* Reading a half that is no event of the link.                            *)
LEMMA OtherRead ==
    ASSUME NEW l, Shorter, ~EventOf(Stream[1], l), SaidTrue(l), l \in up' <=> l \in up
    PROVE  SaidTrue(l)' /\ (NoneSaid(l)' <=> NoneSaid(l))
<1>1. \A j \in At' : j + 1 \in At /\ Stream'[j] = Stream[j + 1] /\ j \in Nat
  BY ShorterHalves DEF At
<1>2. \A j \in At : j \in Nat /\ (j = 1 \/ (j - 1 \in At' /\ Stream'[j - 1] = Stream[j]))
  BY ShorterHalves DEF At
<1>3. NoneSaid(l)' <=> NoneSaid(l)
  BY <1>1, <1>2 DEF NoneSaid, EventOf, IsEvent
<1>4. ASSUME NEW j \in At', LastSaid(j, l)' PROVE LastSaid(j + 1, l)
  <2>1. EventOf(Stream[j + 1], l)
    BY <1>1, <1>4 DEF LastSaid, EventOf, IsEvent
  <2>2. ASSUME NEW k \in At, k > j + 1 PROVE ~EventOf(Stream[k], l)
    <3>1. k - 1 \in At' /\ Stream'[k - 1] = Stream[k] /\ k - 1 > j
      BY <1>1, <1>2, <2>2
    <3> QED
      BY <3>1, <1>4 DEF LastSaid, EventOf, IsEvent
  <2> QED
    BY <2>1, <2>2 DEF LastSaid
<1>5. SaidTrue(l)'
  BY <1>1, <1>4 DEF SaidTrue
<1> QED
  BY <1>3, <1>5

(* The queue stays as it was, or grows by a change of another link.        *)
LEMMA OtherQueued ==
    ASSUME NEW l, Queue' = Queue \/ \E r, m : m # l /\ QGrown(r, m)
    PROVE  /\ NoneQueued(l)' <=> NoneQueued(l)
           /\ \A i \in QAt' : LastQueued(i, l)' => i \in QAt /\ LastQueued(i, l) /\ Queue'[i] = Queue[i]
<1>1. CASE Queue' = Queue
  BY <1>1 DEF QAt, NoneQueued, LastQueued
<1>2. CASE \E r, m : m # l /\ QGrown(r, m)
  <2>1. PICK r, m : m # l /\ QGrown(r, m)
    BY <1>2
  <2>2. /\ \A i \in QAt : i \in QAt' /\ Queue'[i] = Queue[i]
        /\ \A i \in QAt' : i \in QAt \/ Queue'[i].link # l
    BY <2>1 DEF QGrown, QAt
  <2> QED
    BY <2>2 DEF NoneQueued, LastQueued
<1> QED
  BY <1>1, <1>2

(* Reading an event of the link, which goes to the end of the queue.       *)
LEMMA EventRead ==
    ASSUME NEW l, Shorter, EventOf(Stream[1], l), QGrown(Stream[1].line.text, l), SaidTrue(l),
           l \in up' <=> l \in up
    PROVE  SaidTrue(l)' /\ QueuedTrue(l)' /\ ~NoneQueued(l)'
<1>1. \A j \in At' : j + 1 \in At /\ Stream'[j] = Stream[j + 1] /\ j \in Nat
  BY ShorterHalves DEF At
<1>2. \A j \in At : j \in Nat /\ (j = 1 \/ (j - 1 \in At' /\ Stream'[j - 1] = Stream[j]))
  BY ShorterHalves DEF At
<1>3. ASSUME NEW j \in At', LastSaid(j, l)' PROVE LastSaid(j + 1, l)
  <2>1. EventOf(Stream[j + 1], l)
    BY <1>1, <1>3 DEF LastSaid, EventOf, IsEvent
  <2>2. ASSUME NEW k \in At, k > j + 1 PROVE ~EventOf(Stream[k], l)
    <3>1. k - 1 \in At' /\ Stream'[k - 1] = Stream[k] /\ k - 1 > j
      BY <1>1, <1>2, <2>2
    <3> QED
      BY <3>1, <1>3 DEF LastSaid, EventOf, IsEvent
  <2> QED
    BY <2>1, <2>2 DEF LastSaid
<1>4. SaidTrue(l)'
  BY <1>1, <1>3 DEF SaidTrue
<1> DEFINE n == Len(Queue) + 1
<1>5. n \in QAt' /\ Queue'[n].code = Stream[1].line.text /\ Queue'[n].link = l /\ \A i \in QAt' : i = n \/ n > i
  BY DEF QGrown, QAt
<1> HIDE DEF n
<1>6. QueuedTrue(l)'
  <2> SUFFICES ASSUME NoneSaid(l)', NEW i \in QAt', LastQueued(i, l)'
               PROVE  Queue'[i].code = "CONNECT" <=> l \in up'
    BY DEF QueuedTrue
  <2>1. i = n
    BY <1>5 DEF LastQueued
  <2>2. LastSaid(1, l) /\ 1 \in At
    <3>1. ASSUME NEW k \in At, k > 1 PROVE ~EventOf(Stream[k], l)
      <4>1. k - 1 \in At' /\ Stream'[k - 1] = Stream[k]
        BY <1>2, <3>1
      <4> QED
        BY <4>1 DEF NoneSaid, EventOf, IsEvent
    <3> QED
      BY <3>1, ShorterHalves DEF LastSaid
  <2>3. Stream[1].line.text = "CONNECT" <=> l \in up
    BY <2>2 DEF SaidTrue
  <2> QED
    BY <2>1, <2>3, <1>5
<1>7. ~NoneQueued(l)'
  BY <1>5 DEF NoneQueued
<1> QED
  BY <1>4, <1>6, <1>7

-----------------------------------------------------------------------------
(* What a step makes of them, link by link.                                *)

(* Lines that say nothing of the link come to the end of the stream.       *)
LEMMA OtherAdded ==
    ASSUME NEW l, NEW n \in Nat, Kept(n), \A j \in At' : j \in At \/ ~EventOf(Stream'[j], l),
           SaidTrue(l), l \in up' <=> l \in up
    PROVE  SaidTrue(l)' /\ (NoneSaid(l)' <=> NoneSaid(l))
<1>1. \A j \in At : j \in At' /\ Stream'[j] = Stream[j]
  BY DEF Kept, At
<1>2. NoneSaid(l)' <=> NoneSaid(l)
  BY <1>1 DEF NoneSaid, EventOf, IsEvent
<1>3. ASSUME NEW j \in At', LastSaid(j, l)' PROVE j \in At /\ LastSaid(j, l)
  <2>1. EventOf(Stream'[j], l)
    BY <1>3 DEF LastSaid, EventOf, IsEvent
  <2>2. j \in At /\ Stream'[j] = Stream[j]
    BY <1>1, <2>1
  <2>3. ASSUME NEW k \in At, k > j PROVE ~EventOf(Stream[k], l)
    BY <1>1, <1>3, <2>3 DEF LastSaid, EventOf, IsEvent
  <2> QED
    BY <2>1, <2>2, <2>3 DEF LastSaid
<1>4. SaidTrue(l)'
  BY <1>1, <1>3 DEF SaidTrue
<1> QED
  BY <1>2, <1>4

(* A change of the link itself does.                                       *)
LEMMA EventAdded ==
    ASSUME NEW l, NEW p \in At', EventOf(Stream'[p], l),
           \A j \in At' : j > p => ~EventOf(Stream'[j], l),
           l \in up' <=> Stream'[p].line.text = "CONNECT"
    PROVE  Follow(l)'
<1>1. ~NoneSaid(l)'
  BY DEF NoneSaid, EventOf, IsEvent
<1>2. \A j \in At' : p \in Int /\ j \in Int
  BY DEF At
<1>3. \A j \in At' : LastSaid(j, l)' => j = p
  BY <1>2 DEF LastSaid, EventOf, IsEvent
<1>4. SaidTrue(l)'
  BY <1>3 DEF SaidTrue
<1> QED
  BY <1>1, <1>4 DEF Follow, QueuedTrue, StateTrue

(* A link of which nothing was said, and whose state stays.                *)
LEMMA FollowKept ==
    ASSUME NEW l, Follow(l), SaidTrue(l)', NoneSaid(l)' <=> NoneSaid(l), Queue' = Queue,
           l \in up' <=> l \in up, state'[l] = state[l], Between(l) => Between(l)'
    PROVE  Follow(l)'
<1>1. QueuedTrue(l)' /\ (NoneQueued(l)' <=> NoneQueued(l))
  BY DEF Follow, QueuedTrue, LastQueued, QAt, NoneQueued
<1>2. StateTrue(l)'
  BY <1>1 DEF Follow, StateTrue
<1> QED
  BY <1>1, <1>2 DEF Follow

(* One line is added that is no change, or one that is.                    *)
LEMMA LineFollows ==
    ASSUME NEW l, NEW t, NEW m, NEW c, Longer1(t, m, c), Follow(l), Queue' = Queue, state' = state,
           Between(l) => Between(l)',
           IF t = "CLOSED" /\ l = m THEN l \notin up' ELSE t # "CONNECT" /\ (l \in up' <=> l \in up)
    PROVE  Follow(l)'
<1> DEFINE n == Len(Stream)
<1>1. /\ n \in Nat /\ At' = 1..(n + 2) /\ At = 1..n
      /\ ArePair(Stream'[n + 1], Stream'[n + 2], t, m, c)
  BY DEF Longer1, Kept, At
<1>2. CASE t = "CLOSED" /\ l = m
  <2>1. n + 2 \in At' /\ \A j \in At' : ~(j > n + 2)
    BY <1>1
  <2>2. EventOf(Stream'[n + 2], l) /\ Stream'[n + 2].line.text = "CLOSED"
    BY <1>1, <1>2 DEF ArePair, EventOf, IsEvent
  <2>3. l \notin up'
    BY <1>2
  <2> QED
    BY <2>1, <2>2, <2>3, EventAdded
<1>3. CASE ~(t = "CLOSED" /\ l = m)
  <2>1. ~EventOf(Stream'[n + 1], l) /\ ~EventOf(Stream'[n + 2], l)
    BY <1>1, <1>3 DEF ArePair, EventOf, IsEvent
  <2>2. \A j \in At' : j \in At \/ j = n + 1 \/ j = n + 2
    BY <1>1
  <2>3. Kept(2)
    BY DEF Longer1
  <2>4. SaidTrue(l)' /\ (NoneSaid(l)' <=> NoneSaid(l))
    BY <2>1, <2>2, <2>3, <1>3, OtherAdded DEF Follow
  <2> QED
    BY <2>4, <1>3, FollowKept
<1> QED
  BY <1>2, <1>3

(* A change is added, and OK after it.                                     *)
LEMMA LinesFollow ==
    ASSUME NEW l, NEW t \in {"CONNECT", "CLOSED"}, NEW m, NEW c, Longer2(t, "OK", m, c), Follow(l),
           Queue' = Queue, state' = state, Between(l) => Between(l)',
           l \in up' <=> IF l = m THEN t = "CONNECT" ELSE l \in up
    PROVE  Follow(l)'
<1> DEFINE n == Len(Stream)
<1>1. /\ n \in Nat /\ At' = 1..(n + 4) /\ At = 1..n
      /\ ArePair(Stream'[n + 1], Stream'[n + 2], t, m, c)
      /\ ArePair(Stream'[n + 3], Stream'[n + 4], "OK", m, c)
  BY DEF Longer2, Kept, At
<1>2. ~EventOf(Stream'[n + 3], l) /\ ~EventOf(Stream'[n + 4], l) /\ ~EventOf(Stream'[n + 1], l)
  BY <1>1 DEF ArePair, EventOf, IsEvent
<1>3. CASE l = m
  <2>1. n + 2 \in At' /\ \A j \in At' : j > n + 2 => j = n + 3 \/ j = n + 4
    BY <1>1
  <2>2. EventOf(Stream'[n + 2], l) /\ Stream'[n + 2].line.text = t
    BY <1>1, <1>3 DEF ArePair, EventOf, IsEvent
  <2>3. l \in up' <=> t = "CONNECT"
    BY <1>3
  <2> QED
    BY <2>1, <2>2, <2>3, <1>2, EventAdded
<1>4. CASE l # m
  <2>1. ~EventOf(Stream'[n + 2], l)
    BY <1>1, <1>4 DEF ArePair, EventOf, IsEvent
  <2>2. \A j \in At' : j \in At \/ j = n + 1 \/ j = n + 2 \/ j = n + 3 \/ j = n + 4
    BY <1>1
  <2>3. Kept(4)
    BY DEF Longer2
  <2>4. SaidTrue(l)' /\ (NoneSaid(l)' <=> NoneSaid(l))
    BY <2>1, <2>2, <2>3, <1>2, <1>4, OtherAdded DEF Follow
  <2> QED
    BY <2>4, <1>4, FollowKept
<1> QED
  BY <1>3, <1>4

(* A half is read, and queued if it is a change.                           *)
LEMMA ReadFollows ==
    ASSUME NEW l, Shorter, NEW h, Stream[1] = h, Follow(l), up' = up, state' = state,
           Between(l) => Between(l)',
           IsEvent(h) => QGrown(h.line.text, h.line.link), ~IsEvent(h) => Queue' = Queue
    PROVE  Follow(l)'
<1>1. CASE EventOf(h, l)
  <2>1. QGrown(h.line.text, l)
    BY <1>1 DEF EventOf
  <2>2. SaidTrue(l)' /\ QueuedTrue(l)' /\ ~NoneQueued(l)'
    BY <2>1, <1>1, EventRead DEF Follow
  <2> QED
    BY <2>2 DEF Follow, StateTrue
<1>2. CASE ~EventOf(h, l)
  <2>1. Queue' = Queue \/ \E r, m : m # l /\ QGrown(r, m)
    BY <1>2 DEF EventOf
  <2>2. SaidTrue(l)' /\ (NoneSaid(l)' <=> NoneSaid(l))
    BY <1>2, OtherRead DEF Follow
  <2>3. /\ NoneQueued(l)' <=> NoneQueued(l)
        /\ \A i \in QAt' : LastQueued(i, l)' => i \in QAt /\ LastQueued(i, l) /\ Queue'[i] = Queue[i]
    BY <2>1, OtherQueued
  <2>4. QueuedTrue(l)'
    BY <2>2, <2>3 DEF Follow, QueuedTrue
  <2>5. StateTrue(l)'
    BY <2>2, <2>3 DEF Follow, StateTrue
  <2> QED
    BY <2>2, <2>4, <2>5 DEF Follow
<1> QED
  BY <1>1, <1>2

(* handle() carries out the first change of the queue.                     *)
LEMMA HandleFollows ==
    ASSUME LinkTypes, NEW l \in Links, QShrunk, Queue[1] \in Events, Stream' = Stream, up' = up,
           state' = [state EXCEPT ![Queue[1].link] = IF Queue[1].code = "CONNECT"
                                                     THEN "connected" ELSE "disconnected"],
           Follow(l), Between(l) => Between(l)'
    PROVE  Follow(l)'
<1>1. \A i \in QAt' : i + 1 \in QAt /\ Queue'[i] = Queue[i + 1] /\ i \in Nat
  BY DEF QShrunk, QAt
<1>2. \A i \in QAt : i \in Nat /\ (i = 1 \/ (i - 1 \in QAt' /\ Queue'[i - 1] = Queue[i]))
  BY DEF QShrunk, QAt
<1>3. 1 \in QAt
  BY DEF QShrunk, QAt
<1>4. SaidTrue(l)' /\ (NoneSaid(l)' <=> NoneSaid(l))
  BY DEF Follow, SaidTrue, LastSaid, NoneSaid, EventOf, IsEvent, At
<1>5. ASSUME NEW i \in QAt', LastQueued(i, l)' PROVE LastQueued(i + 1, l)
  <2>1. Queue[i + 1].link = l
    BY <1>1, <1>5 DEF LastQueued
  <2>2. ASSUME NEW k \in QAt, k > i + 1 PROVE Queue[k].link # l
    <3>1. k - 1 \in QAt' /\ Queue'[k - 1] = Queue[k] /\ k - 1 > i
      BY <1>1, <1>2, <2>2
    <3> QED
      BY <3>1, <1>5 DEF LastQueued
  <2> QED
    BY <2>1, <2>2 DEF LastQueued
<1>6. QueuedTrue(l)'
  BY <1>1, <1>4, <1>5 DEF Follow, QueuedTrue
<1>7. StateTrue(l)'
  <2> SUFFICES ASSUME NoneSaid(l)', NoneQueued(l)', ~Between(l)'
               PROVE  state'[l] = IF l \in up' THEN "connected" ELSE "disconnected"
    BY DEF StateTrue
  <2>1. state \in [Links -> {"disconnected", "connecting", "connected"}]
    BY LinkParts DEF HostTypes
  <2>2. \A i \in QAt : i > 1 => Queue[i].link # l
    BY <1>2 DEF NoneQueued
  <2>3. CASE Queue[1].link = l
    <3>1. LastQueued(1, l)
      BY <2>2, <2>3 DEF LastQueued
    <3>2. Queue[1].code = "CONNECT" <=> l \in up
      BY <3>1, <1>3, <1>4 DEF Follow, QueuedTrue
    <3> QED
      BY <3>2, <2>1, <2>3
  <2>4. CASE Queue[1].link # l
    <3>1. NoneQueued(l)
      BY <2>2, <2>4, <1>2 DEF NoneQueued
    <3>2. state'[l] = state[l]
      BY <2>1, <2>4
    <3> QED
      BY <3>1, <3>2, <1>4 DEF Follow, StateTrue
  <2> QED
    BY <2>3, <2>4
<1> QED
  BY <1>4, <1>6, <1>7 DEF Follow

-----------------------------------------------------------------------------
(* And action by action.                                                   *)

(* No data is written, so that the module takes commands only.             *)
Unwritten == LinkTypes /\ LockHeld /\ AnswerInv /\ EventInv /\ ~impatient /\ ~history.wrote

(* Then the module is in command mode, and says none of its answers to     *)
(* data.                                                                   *)
LEMMA UnwrittenModes ==
    ASSUME Unwritten
    PROVE  /\ mode = "command" /\ client.pc \notin {"sendwait", "promptwait", "sentwait"}
           /\ \A t \in Sent : ~InStream(t)
           /\ ~InStream("ALREADY CONNECTED")
BY DEF Unwritten, AnswerInv, Modes, EventInv, OnTheWay

(* EventInv survives a step that changes nothing it speaks of.             *)
LEMMA EventQuiet == EventInv /\ QuietStep => EventInv'
<1> SUFFICES ASSUME EventInv, QuietStep PROVE EventInv'
  OBVIOUS
<1>1. Stream' = Stream /\ Queue' = Queue /\ UNCHANGED <<cmds, up, state, client>>
  BY DEF QuietStep
<1>2. ConnectQueued' = ConnectQueued
  BY <1>1, QueuedSame
<1>3. /\ \A t : InStream(t)' <=> InStream(t)
      /\ ConnectSaid' <=> ConnectSaid
  BY <1>1 DEF InStream, ConnectSaid, At, Answer
<1>4. OnTheWay'
  BY <1>1, <1>2, <1>3 DEF EventInv, OnTheWay
<1>5. ASSUME NEW l \in Links PROVE Follow(l)'
  <2>1. SaidTrue(l) /\ Follow(l)
    BY DEF EventInv, Follow
  <2>2. SaidTrue(l)' /\ (NoneSaid(l)' <=> NoneSaid(l))
    BY <1>1, <2>1 DEF SaidTrue, LastSaid, NoneSaid, At, EventOf, IsEvent
  <2>3. Between(l) => Between(l)'
    BY <1>1 DEF Between
  <2> QED
    BY <2>1, <2>2, <2>3, <1>1, FollowKept
<1> QED
  BY <1>4, <1>5 DEF EventInv

(* It survives the peer's closing.                                         *)
LEMMA EventPeer == Unwritten /\ PeerCloses => EventInv'
<1> SUFFICES ASSUME Unwritten, PeerCloses PROVE EventInv'
  OBVIOUS
<1> USE DEF Unwritten
<1>1. PICK l \in up : up' = up \ {l} /\ Adds1("CLOSED", l, 0)
  BY PeerAdds
<1>2. Longer1("CLOSED", l, 0)
  BY <1>1, AddsLonger1, LinkParts
<1>3. UNCHANGED <<cmds, mode, state, client, ticket, history>> /\ Queue' = Queue
  BY DEF PeerCloses, Queue
<1>4. /\ \A j \in At : j \in At' /\ Stream'[j] = Stream[j]
      /\ \A j \in At' : j \in At \/ ~Answer(Stream'[j])
  BY <1>2, PeerHalves
<1>5. \A t : InStream(t)' => InStream(t)
  BY <1>4 DEF InStream, Answer
<1>6. ASSUME NEW m \in Links PROVE Follow(m)'
  <2>1. Between(m) => Between(m)'
    BY <1>3 DEF Between
  <2>2. Follow(m)
    BY DEF EventInv
  <2>3. IF m = l THEN m \notin up' ELSE m \in up' <=> m \in up
    BY <1>1
  <2> QED
    BY <2>1, <2>2, <2>3, <1>2, <1>3, LineFollows
<1>7. ConnectSaid => ConnectSaid'
  BY <1>4 DEF ConnectSaid
<1>8. ConnectQueued' = ConnectQueued
  BY <1>3, QueuedSame
<1>9. OnTheWay'
  <2>1. OnTheWay
    BY DEF EventInv
  <2> QED
    BY <2>1, <1>1, <1>3, <1>5, <1>7, <1>8 DEF OnTheWay
<1> QED
  BY <1>6, <1>9 DEF EventInv

(* It survives the execution of a command: CONNECT and CLOSED are said for *)
(* what is done.                                                           *)
LEMMA EventExecute == Unwritten /\ Execute => EventInv'
<1> SUFFICES ASSUME Unwritten, Execute PROVE EventInv'
  OBVIOUS
<1> USE DEF Unwritten
<1>0. LineTypes
  BY LinkParts
<1>1. Answered /\ client.pc \in {"openwait", "closewait"} /\ mode = "command"
  BY TheCommand, UnwrittenModes DEF AnswerInv
<1>2. PICK c : Done(c) /\ c.op = Op(client.pc) /\ c.link = client.slot /\ c.cmd = ticket
  BY TheCommand DEF AnswerInv
<1>3. /\ UNCHANGED <<state, client, ticket, history>> /\ cmds # <<>> /\ cmds' = <<>> /\ Queue' = Queue
      /\ NoAnswers
  BY <1>1 DEF Answered
<1>4. \A m : Between(m) => Between(m)'
  BY <1>3 DEF Between
<1>5. \A m \in Links : Follow(m)
  BY DEF EventInv
<1>6. StartDone(c) \/ StopDone(c)
  BY <1>1, <1>2 DEF Done, PromptDone, DataDone, RejectDone, Op
<1>7. ASSUME NEW t, Longer1(t, client.slot, ticket) PROVE \A s : InStream(s)' => s = t
  <2>1. \A j \in At' : Answer(Stream'[j]) => j \in {Len(Stream) + 1, Len(Stream) + 2}
    BY <1>3, <1>7, OneAnswer
  <2>2. ArePair(Stream'[Len(Stream) + 1], Stream'[Len(Stream) + 2], t, client.slot, ticket)
    BY <1>7 DEF Longer1
  <2> QED
    BY <2>1, <2>2 DEF ArePair, InStream, Answer
<1>8. ASSUME NEW t, NEW u, Longer2(t, u, client.slot, ticket)
      PROVE  /\ \A s : InStream(s)' => s \in {t, u}
             /\ t = "CONNECT" => ConnectSaid'
  <2>1. /\ \A j \in At' : Answer(Stream'[j]) =>
              j \in {Len(Stream) + 1, Len(Stream) + 2, Len(Stream) + 3, Len(Stream) + 4}
        /\ Len(Stream) + 2 \in At'
    BY <1>3, <1>8, TwoAnswers
  <2>2. /\ ArePair(Stream'[Len(Stream) + 1], Stream'[Len(Stream) + 2], t, client.slot, ticket)
        /\ ArePair(Stream'[Len(Stream) + 3], Stream'[Len(Stream) + 4], u, client.slot, ticket)
    BY <1>8 DEF Longer2
  <2>3. \A s : InStream(s)' => s \in {t, u}
    BY <2>1, <2>2 DEF ArePair, InStream, Answer
  <2>4. t = "CONNECT" => ConnectSaid'
    BY <2>1, <2>2 DEF ArePair, ConnectSaid
  <2> QED
    BY <2>3, <2>4
<1>9. CASE StartDone(c)
  <2>1. client.pc = "openwait" /\ client.slot \notin up
    BY <1>1, <1>2, <1>3, <1>9 DEF StartDone, Op, EventInv, OnTheWay
  <2>2. \/ up' = up \union {client.slot} /\ Adds2("CONNECT", "OK", client.slot, ticket)
        \/ up' = up /\ Adds1("ERROR", client.slot, ticket)
    BY <2>1, <1>2, <1>9, Zenon DEF StartDone
  <2>3. CASE up' = up \union {client.slot} /\ Adds2("CONNECT", "OK", client.slot, ticket)
    <3>1. Longer2("CONNECT", "OK", client.slot, ticket)
      BY <2>3, <1>0, AddsLonger2
    <3>2. ASSUME NEW m \in Links PROVE Follow(m)'
      <4>1. m \in up' <=> IF m = client.slot THEN "CONNECT" = "CONNECT" ELSE m \in up
        BY <2>3
      <4> QED
        BY <4>1, <3>1, <1>3, <1>4, <1>5, LinesFollow
    <3>5. (\A s : InStream(s)' => s = "CONNECT" \/ s = "OK") /\ ConnectSaid'
      BY <3>1, <1>8
    <3>6. ~InStream("ERROR")'
      BY <3>5
    <3>7. ~InStream("ALREADY CONNECTED")'
      BY <3>5
    <3>4. OnTheWay'
      BY <3>6, <3>7, <3>5, <2>1, <1>3 DEF OnTheWay
    <3> QED
      BY <3>2, <3>4 DEF EventInv
  <2>4. CASE up' = up /\ Adds1("ERROR", client.slot, ticket)
    <3>1. Longer1("ERROR", client.slot, ticket)
      BY <2>4, <1>0, AddsLonger1
    <3>2. ASSUME NEW m \in Links PROVE Follow(m)'
      BY <3>1, <2>4, <1>3, <1>4, <1>5, LineFollows
    <3>5. \A s : InStream(s)' => s = "ERROR"
      BY <3>1, <1>7
    <3>6. ~InStream("OK")'
      BY <3>5
    <3>7. ~InStream("ALREADY CONNECTED")'
      BY <3>5
    <3>4. OnTheWay'
      BY <3>6, <3>7, <2>1, <2>4, <1>3 DEF OnTheWay
    <3> QED
      BY <3>2, <3>4 DEF EventInv
  <2> QED
    BY <2>2, <2>3, <2>4
<1>10. CASE StopDone(c)
  <2>1. client.pc = "closewait" /\ up' = up \ {client.slot}
    BY <1>1, <1>2, <1>10 DEF StopDone, Op
  <2>2. \/ Adds2("CLOSED", "OK", client.slot, ticket)
        \/ client.slot \notin up /\ Adds1("ERROR", client.slot, ticket)
    BY <1>2, <1>10, Zenon DEF StopDone
  <2>3. CASE Adds2("CLOSED", "OK", client.slot, ticket)
    <3>1. Longer2("CLOSED", "OK", client.slot, ticket)
      BY <2>3, <1>0, AddsLonger2
    <3>2. ASSUME NEW m \in Links PROVE Follow(m)'
      <4>1. m \in up' <=> IF m = client.slot THEN "CLOSED" = "CONNECT" ELSE m \in up
        BY <2>1
      <4> QED
        BY <4>1, <3>1, <1>3, <1>4, <1>5, LinesFollow
    <3>5. \A s : InStream(s)' => s = "CLOSED" \/ s = "OK"
      BY <3>1, <1>8
    <3>6. ~InStream("ERROR")'
      BY <3>5
    <3>7. ~InStream("ALREADY CONNECTED")'
      BY <3>5
    <3>4. OnTheWay'
      BY <3>6, <3>7, <2>1, <1>3 DEF OnTheWay
    <3> QED
      BY <3>2, <3>4 DEF EventInv
  <2>4. CASE client.slot \notin up /\ Adds1("ERROR", client.slot, ticket)
    <3>1. Longer1("ERROR", client.slot, ticket)
      BY <2>4, <1>0, AddsLonger1
    <3>2. ASSUME NEW m \in Links PROVE Follow(m)'
      <4>1. m \in up' <=> m \in up
        BY <2>1, <2>4
      <4> QED
        BY <4>1, <3>1, <1>3, <1>4, <1>5, LineFollows
    <3>5. \A s : InStream(s)' => s = "ERROR"
      BY <3>1, <1>7
    <3>6. ~InStream("OK")'
      BY <3>5
    <3>7. ~InStream("ALREADY CONNECTED")'
      BY <3>5
    <3>4. OnTheWay'
      BY <3>6, <3>7, <2>1, <2>4, <1>3 DEF OnTheWay
    <3> QED
      BY <3>2, <3>4 DEF EventInv
  <2> QED
    BY <2>2, <2>3, <2>4
<1> QED
  BY <1>6, <1>9, <1>10

-----------------------------------------------------------------------------
(* A change whose line was read whole is recognised.                       *)
LEMMA WholeEvent ==
    ASSUME NEW part, NEW h, ~HalfMissing(part, h)
    PROVE  /\ IsEvent(h) => Response(part, h) = h.line.text
           /\ ~IsEvent(h) => Response(part, h) \notin {"CONNECT", "CLOSED"}
<1>1. IsEvent(h) => Response(part, h) = h.line.text
  BY DEF HalfMissing, IsEvent, Response
<1>2. ~IsEvent(h) => Response(part, h) \notin {"CONNECT", "CLOSED"}
  BY ResponseEvent
<1> QED
  BY <1>1, <1>2

(* It survives a read of the WiFi task that does not miss half a line.     *)
LEMMA EventWifiRead == Unwritten /\ WifiRead /\ ~history'.missed => EventInv'
<1> SUFFICES ASSUME Unwritten, WifiRead, ~history'.missed PROVE EventInv'
  OBVIOUS
<1> USE DEF Unwritten
<1>1. PICK h : h = Head(uart)
  OBVIOUS
<1>2. PICK r : r = Response(wifi.part, h)
  OBVIOUS
<1>3. /\ Shorter /\ Stream[1] = h /\ wifi.pc = "listen"
      /\ HistoryTo(HalfMissing(wifi.part, h), FALSE, FALSE)
      /\ r \in {"CONNECT", "CLOSED"} => QGrown(r, h.line.link)
      /\ r \notin {"CONNECT", "CLOSED"} => Queue' = Queue
      /\ UNCHANGED <<impatient, cmds, mode, up, state, client, ticket>>
  BY <1>1, <1>2, WifiReads, Zenon
<1>4. ~HalfMissing(wifi.part, h)
  BY <1>3, Zenon DEF HistoryTo
<1>5. (IsEvent(h) => r = h.line.text) /\ (~IsEvent(h) => r \notin {"CONNECT", "CLOSED"})
  BY <1>2, <1>4, WholeEvent
<1>6. IsEvent(h) => h.line.text \in {"CONNECT", "CLOSED"}
  BY DEF IsEvent
<1>7. (IsEvent(h) => QGrown(h.line.text, h.line.link)) /\ (~IsEvent(h) => Queue' = Queue)
  BY <1>3, <1>5, <1>6
<1>8. ASSUME NEW l \in Links PROVE Follow(l)'
  <2>1. Between(l) => Between(l)'
    BY <1>3 DEF Between
  <2>2. Follow(l)
    BY DEF EventInv
  <2> QED
    BY <2>1, <2>2, <1>3, <1>7, ReadFollows
<1>9. OnTheWay'
  <2>1. client.pc \notin {"openwait", "closewait"}
    BY <1>3 DEF LockHeld, UnderLock
  <2>2. ~InStream("ALREADY CONNECTED")'
    BY <1>3, ShorterIn, UnwrittenModes
  <2> QED
    BY <2>1, <2>2, <1>3 DEF EventInv, OnTheWay
<1> QED
  BY <1>8, <1>9 DEF EventInv

(* It survives the carrying out of a change.                               *)
LEMMA EventHandle == Unwritten /\ WifiHandle => EventInv'
<1> SUFFICES ASSUME Unwritten, WifiHandle PROVE EventInv'
  OBVIOUS
<1> USE DEF Unwritten
<1>1. /\ QShrunk /\ Queue[1] \in Events
      /\ state' = [state EXCEPT ![Queue[1].link] = IF Queue[1].code = "CONNECT"
                                                   THEN "connected" ELSE "disconnected"]
      /\ wifi.pc # "sleep"
      /\ UNCHANGED <<impatient, cmds, mode, up, line, uart, lock, client, ticket, history>>
  BY HandleQueue
<1>2. Stream' = Stream
  BY <1>1 DEF Stream
<1>3. ASSUME NEW l \in Links PROVE Follow(l)'
  <2>1. Between(l) => Between(l)'
    BY <1>1 DEF Between
  <2>2. Follow(l)
    BY DEF EventInv
  <2> QED
    BY <2>1, <2>2, <1>1, <1>2, HandleFollows
<1>4. OnTheWay'
  <2>1. client.pc \notin {"openwait", "closewait"}
    BY <1>1 DEF LockHeld, UnderLock
  <2>2. ~InStream("ALREADY CONNECTED")'
    BY <1>2, UnwrittenModes DEF InStream, At, Answer
  <2> QED
    BY <2>1, <2>2, <1>1 DEF EventInv, OnTheWay
<1> QED
  BY <1>3, <1>4 DEF EventInv

(* A step that reads nothing and says nothing leaves every link as it was, *)
(* except the one whose state it sets.                                     *)
LEMMA StillFollows ==
    ASSUME NEW l, Follow(l), Stream' = Stream, Queue' = Queue, up' = up,
           \/ state'[l] = state[l] /\ (Between(l) => Between(l)')
           \/ state'[l] = "disconnected" /\ l \notin up
           \/ Between(l)'
    PROVE  Follow(l)'
<1>1. SaidTrue(l)' /\ (NoneSaid(l)' <=> NoneSaid(l))
  BY DEF Follow, SaidTrue, LastSaid, NoneSaid, At, EventOf, IsEvent
<1>2. QueuedTrue(l)' /\ (NoneQueued(l)' <=> NoneQueued(l))
  BY <1>1 DEF Follow, QueuedTrue, LastQueued, QAt, NoneQueued
<1>3. StateTrue(l)'
  BY <1>1, <1>2 DEF Follow, StateTrue
<1> QED
  BY <1>1, <1>2, <1>3 DEF Follow

(* It survives the moves of the client, OpenFailed and CloseDone among     *)
(* them.                                                                   *)
LEMMA EventMoves ==
    ASSUME Unwritten, NEW from, NEW to \in {"idle", "closelock", "using"}, Moves(from, to),
           \/ state' = state /\ from \in {"poll", "using"}
           \/ from \in {"openfailed", "closed"} /\ state' = [state EXCEPT ![client.slot] = "disconnected"]
    PROVE  EventInv'
<1> USE DEF Unwritten
<1>1. client.pc = from /\ client'.pc = to /\ client'.slot = client.slot /\ ClientKept
      /\ UNCHANGED <<cmds, uart, lock, events, ticket, history>>
  BY DEF Moves, ClientTo
<1>2. Stream' = Stream /\ Queue' = Queue /\ up' = up
  BY <1>1, KeptStreams DEF ClientKept
<1>3. state \in [Links -> {"disconnected", "connecting", "connected"}]
  BY LinkParts DEF HostTypes
<1>4. ASSUME NEW l \in Links PROVE Follow(l)'
  <2>1. Follow(l)
    BY DEF EventInv
  <2>2. CASE state' = state /\ from \in {"poll", "using"}
    <3>1. state'[l] = state[l] /\ ~Between(l)
      BY <2>2, <1>1 DEF Between
    <3> QED
      BY <3>1, <2>1, <1>2, StillFollows
  <2>3. CASE from \in {"openfailed", "closed"} /\ state' = [state EXCEPT ![client.slot] = "disconnected"]
    <3>1. client.slot \notin up
      BY <2>3, <1>1 DEF EventInv, OnTheWay
    <3>2. CASE l = client.slot
      <4>1. state'[l] = "disconnected" /\ l \notin up
        BY <3>1, <3>2, <2>3, <1>3
      <4> QED
        BY <4>1, <2>1, <1>2, StillFollows
    <3>3. CASE l # client.slot
      <4>1. state'[l] = state[l] /\ ~Between(l)
        BY <3>3, <2>3, <1>3 DEF Between
      <4> QED
        BY <4>1, <2>1, <1>2, StillFollows
    <3> QED
      BY <3>2, <3>3
  <2> QED
    BY <2>2, <2>3
<1>5. ~InStream("ALREADY CONNECTED")'
  BY <1>2, UnwrittenModes DEF InStream, At, Answer
<1>6. OnTheWay'
  BY <1>1, <1>5 DEF OnTheWay
<1> QED
  BY <1>4, <1>6 DEF EventInv

(* A command is given under the lock.                                      *)
LEMMA EventCommand ==
    ASSUME Unwritten, ClientKept, UNCHANGED <<uart, events, state>>,
           NEW from \in {"openlock", "closelock"}, client.pc = from,
           NEW to \in {"openwait", "closewait"}, ClientTo(to, client.slot, client.part),
           to = "openwait" <=> from = "openlock"
    PROVE  EventInv'
<1> USE DEF Unwritten
<1>1. client'.pc = to /\ client'.slot = client.slot
  BY DEF ClientTo
<1>2. Stream' = Stream /\ Queue' = Queue /\ up' = up
  BY KeptStreams DEF ClientKept
<1>3. NoAnswers
  BY EaseQuiet DEF AtEase
<1>4. ASSUME NEW l \in Links PROVE Follow(l)'
  <2>1. Follow(l)
    BY DEF EventInv
  <2>2. state'[l] = state[l] /\ (Between(l) => Between(l)')
    BY <1>1 DEF Between
  <2> QED
    BY <2>1, <2>2, <1>2, StillFollows
<1>5. \A t : ~InStream(t)'
  BY <1>2, <1>3 DEF InStream, NoAnswers, At, Answer
<1>6. to = "openwait" => client.slot \notin up
  BY DEF EventInv, OnTheWay
<1>7. OnTheWay'
  BY <1>1, <1>2, <1>5, <1>6 DEF OnTheWay
<1> QED
  BY <1>4, <1>7 DEF EventInv

(* A socket that is disconnected, while nothing is on its way that opens   *)
(* it, has no connection at the module.                                    *)
LEMMA DisconnectedDown ==
    ASSUME LinkTypes, NEW l \in Links, Follow(l), NoAnswers, ~ConnectQueued, ~Between(l), state[l] = "disconnected"
    PROVE  l \notin up
<1>1. Len(Stream) \in Nat /\ Len(Queue) \in Nat
  BY StreamTypes, QueueTypes, LinkParts
<1>2. CASE ~NoneSaid(l)
  <2> DEFINE S == {j \in At : EventOf(Stream[j], l)}
  <2>1. S # {} /\ S \in SUBSET (1..Len(Stream))
    BY <1>2 DEF NoneSaid, At
  <2>2. PICK j \in S : \A k \in S : k =< j
    BY <1>1, <2>1, GreatestOf
  <2>3. ASSUME NEW k \in At, k > j PROVE ~EventOf(Stream[k], l)
    <3>1. k \in Int /\ j \in Int /\ (k \in S => k =< j)
      BY <2>2 DEF At
    <3>2. k \notin S
      BY <3>1, <2>3
    <3> QED
      BY <3>2
  <2>4. LastSaid(j, l) /\ j \in At
    BY <2>2, <2>3 DEF LastSaid
  <2>5. Stream[j].line.text # "CONNECT"
    BY <2>4 DEF NoAnswers, Answer
  <2> QED
    BY <2>4, <2>5 DEF Follow, SaidTrue
<1>3. CASE NoneSaid(l) /\ ~NoneQueued(l)
  <2> DEFINE S == {i \in QAt : Queue[i].link = l}
  <2>1. S # {} /\ S \in SUBSET (1..Len(Queue))
    BY <1>3 DEF NoneQueued, QAt
  <2>2. PICK i \in S : \A k \in S : k =< i
    BY <1>1, <2>1, GreatestOf
  <2>3. ASSUME NEW k \in QAt, k > i PROVE Queue[k].link # l
    <3>1. k \in Int /\ i \in Int /\ (k \in S => k =< i)
      BY <2>2 DEF QAt
    <3>2. k \notin S
      BY <3>1, <2>3
    <3> QED
      BY <3>2
  <2>4. LastQueued(i, l) /\ i \in QAt
    BY <2>2, <2>3 DEF LastQueued
  <2>5. Queue[i].code # "CONNECT"
    BY <2>4 DEF ConnectQueued
  <2> QED
    BY <2>4, <2>5, <1>3 DEF Follow, QueuedTrue
<1>4. CASE NoneSaid(l) /\ NoneQueued(l)
  BY <1>4 DEF Follow, StateTrue
<1> QED
  BY <1>2, <1>3, <1>4

(* It survives the claiming of a socket.                                   *)
LEMMA EventOpen == Unwritten /\ Open => EventInv'
<1> SUFFICES ASSUME Unwritten, Open PROVE EventInv'
  OBVIOUS
<1> USE DEF Unwritten
<1>1. /\ client.pc = "idle" /\ ClientKept
      /\ Min(Closed) \in Links /\ state[Min(Closed)] = "disconnected"
      /\ ClientTo("openlock", Min(Closed), client.part)
      /\ state' = [state EXCEPT ![Min(Closed)] = "connecting"]
      /\ UNCHANGED <<cmds, uart, lock, events, ticket, history>>
  BY OpenDoes
<1>2. PICK m \in Links : m = Min(Closed)
  BY <1>1
<1>3. client'.pc = "openlock" /\ client'.slot = m
  BY <1>1, <1>2 DEF ClientTo
<1>4. Stream' = Stream /\ Queue' = Queue /\ up' = up
  BY <1>1, KeptStreams DEF ClientKept
<1>5. NoAnswers /\ ~ConnectQueued
  BY <1>1, EaseQuiet DEF AtEase
<1>6. \A l \in Links : Follow(l) /\ ~Between(l)
  BY <1>1 DEF EventInv, Between
<1>7. m \notin up
  BY <1>1, <1>2, <1>5, <1>6, DisconnectedDown
<1>8. state \in [Links -> {"disconnected", "connecting", "connected"}]
  BY LinkParts DEF HostTypes
<1>9. ASSUME NEW l \in Links PROVE Follow(l)'
  <2>1. CASE l = m
    <3>1. Between(l)'
      BY <2>1, <1>3 DEF Between
    <3> QED
      BY <3>1, <1>4, <1>6, StillFollows
  <2>2. CASE l # m
    <3>1. state'[l] = state[l]
      BY <2>2, <1>1, <1>2, <1>8
    <3> QED
      BY <3>1, <1>4, <1>6, StillFollows
  <2> QED
    BY <2>1, <2>2
<1>10. ~InStream("ALREADY CONNECTED")'
  BY <1>4, UnwrittenModes DEF InStream, At, Answer
<1>11. OnTheWay'
  BY <1>3, <1>4, <1>7, <1>10 DEF OnTheWay
<1> QED
  BY <1>9, <1>11 DEF EventInv

(* It survives a read of the client: under the lock nothing is lost from   *)
(* the queue.                                                              *)
LEMMA EventClientQueues == Unwritten /\ ClientQueues /\ ~history'.missed => EventInv'
<1> SUFFICES ASSUME Unwritten, ClientQueues, ~history'.missed PROVE EventInv'
  OBVIOUS
<1> USE DEF Unwritten
<1>1. PICK h : h = Head(uart)
  OBVIOUS
<1>2. PICK r : r = Response(client.part, h)
  OBVIOUS
<1>3. /\ Waiting /\ uart # <<>> /\ uart' = Tail(uart) /\ ClientKept
      /\ r \notin Expected(client.pc)
      /\ ClientTo(client.pc, client.slot, Remember(h))
      /\ events' = events \o Queued(r, h)
      /\ HistoryTo(HalfMissing(client.part, h), FALSE, FALSE)
      /\ UNCHANGED <<cmds, lock, state, ticket>>
  BY <1>1, <1>2, QueuesDoes, Zenon
<1>4. /\ Shorter /\ Stream[1] = h /\ 1 \in At /\ h.line.link \in Links /\ client.pc \in Waits
      /\ UNCHANGED <<up, wifi>>
  BY <1>1, <1>3, ClientReads
<1>5. client'.pc = client.pc /\ client'.slot = client.slot
  BY <1>3 DEF ClientTo
<1>6. UnderLock /\ wifi.pc = "sleep"
  BY <1>4, UnwrittenModes DEF Waits, UnderLock, LockHeld
<1>7. /\ r \in {"CONNECT", "CLOSED"} => QGrown(r, h.line.link)
      /\ r \notin {"CONNECT", "CLOSED"} => Queue' = Queue
  BY <1>3, <1>4, <1>6, QueueReads
<1>8. ~HalfMissing(client.part, h)
  BY <1>3, Zenon DEF HistoryTo
<1>9. (IsEvent(h) => r = h.line.text) /\ (~IsEvent(h) => r \notin {"CONNECT", "CLOSED"})
  BY <1>2, <1>8, WholeEvent
<1>10. IsEvent(h) => h.line.text \in {"CONNECT", "CLOSED"}
  BY DEF IsEvent
<1>11. (IsEvent(h) => QGrown(h.line.text, h.line.link)) /\ (~IsEvent(h) => Queue' = Queue)
  BY <1>7, <1>9, <1>10
<1>12. ASSUME NEW l \in Links PROVE Follow(l)'
  <2>1. Between(l) => Between(l)'
    BY <1>5 DEF Between
  <2>2. Follow(l)
    BY DEF EventInv
  <2> QED
    BY <2>1, <2>2, <1>3, <1>4, <1>11, ReadFollows
<1>13. \A t : InStream(t)' => InStream(t)
  BY <1>4, ShorterIn
<1>14. ConnectQueued => ConnectQueued'
  <2>1. \A i \in QAt : i \in QAt' /\ Queue'[i] = Queue[i]
    <3>1. CASE IsEvent(h)
      <4>1. QGrown(h.line.text, h.line.link)
        BY <3>1, <1>11
      <4> QED
        BY <4>1 DEF QGrown, QAt
    <3>2. CASE ~IsEvent(h)
      BY <3>2, <1>11, QueuedSame
    <3> QED
      BY <3>1, <3>2
  <2> QED
    BY <2>1 DEF ConnectQueued
<1>15. ConnectSaid => ConnectQueued' \/ ConnectSaid'
  <2> SUFFICES ASSUME ConnectSaid PROVE ConnectQueued' \/ ConnectSaid'
    OBVIOUS
  <2>1. PICK j \in At : Stream[j].last /\ Stream[j].line.text = "CONNECT"
    BY DEF ConnectSaid
  <2>2. CASE j = 1
    <3>1. IsEvent(h) /\ h.line.text = "CONNECT"
      BY <2>1, <2>2, <1>4 DEF IsEvent
    <3>2. QGrown("CONNECT", h.line.link)
      BY <3>1, <1>11
    <3> QED
      BY <3>2 DEF QGrown, QAt, ConnectQueued
  <2>3. CASE j # 1
    <3>1. j - 1 \in At' /\ Stream'[j - 1] = Stream[j]
      BY <2>3, <1>4, ShorterHalves
    <3> QED
      BY <2>1, <3>1 DEF ConnectSaid
  <2> QED
    BY <2>2, <2>3
<1>16. OnTheWay'
  <2>1. OnTheWay
    BY DEF EventInv
  <2> QED
    BY <2>1, <1>3, <1>4, <1>5, <1>13, <1>14, <1>15 DEF OnTheWay
<1> QED
  BY <1>12, <1>16 DEF EventInv

(* Without data every answer is believed for what it says.                 *)
Believed(pc, h, to) ==
    /\ ~IsEvent(h) /\ h.last
    /\ pc = "openwait" => \/ to = "poll" /\ h.line.text = "OK"
                          \/ to = "openfailed" /\ h.line.text = "ERROR"
    /\ pc = "closewait" => \/ to = "closed" /\ h.line.text = "OK"
                           \/ to = "idle" /\ h.line.text = "ERROR"

(* Such an answer is OK or ERROR, and taken for what it is.                *)
LEMMA AnswerTexts ==
    ASSUME NEW pc \in {"openwait", "closewait"}, NEW part, NEW h, h.line.text \in Texts,
           NEW r, r = Response(part, h), r \in Expected(pc), h.line.text \in Answers(pc),
           h.line.text \notin Sent, h.line.text # "ALREADY CONNECTED"
    PROVE  Believed(pc, h, After(pc, r))
<1>1. Ends(pc, h, After(pc, r))
  BY EndOfWait DEF Waits
<1>2. h.last /\ h.line.text \in {"OK", "ERROR"}
  BY <1>1 DEF Ends, Answers, Final, Sent
<1>3. ~IsEvent(h)
  BY <1>2 DEF IsEvent
<1>4. r = h.line.text
  BY <1>2 DEF Response, Whole, Expected
<1>5. /\ pc = "openwait" => After(pc, r) = IF h.line.text = "OK" THEN "poll" ELSE "openfailed"
      /\ pc = "closewait" => After(pc, r) = IF h.line.text = "OK" THEN "closed" ELSE "idle"
  BY <1>2, <1>4 DEF After
<1> QED
  BY <1>2, <1>3, <1>5 DEF Believed

(* It survives the answer: OK to open() is said after CONNECT, which is in *)
(* the queue by then.                                                      *)
LEMMA EventClientAnswered == Unwritten /\ ClientAnswered => EventInv'
<1> SUFFICES ASSUME Unwritten, ClientAnswered PROVE EventInv'
  OBVIOUS
<1> USE DEF Unwritten
<1>1. PICK h : h = Head(uart)
  OBVIOUS
<1>2. PICK r : r = Response(client.part, h)
  OBVIOUS
<1>3. PICK to : to = After(client.pc, r)
  OBVIOUS
<1>4. /\ Waiting /\ uart # <<>> /\ uart' = Tail(uart) /\ ClientKept
      /\ r \in Expected(client.pc) /\ ClientTo(to, client.slot, <<>>)
      /\ UNCHANGED <<state, events, ticket>>
  BY <1>1, <1>2, <1>3, AnsweredDoes, Zenon
<1>5. /\ Shorter /\ Stream[1] = h /\ 1 \in At /\ client.pc \in Waits /\ h.line.text \in Texts
      /\ UNCHANGED <<up, wifi>>
  BY <1>1, <1>4, ClientReads
<1>6. client'.pc = to /\ client'.slot = client.slot
  BY <1>4 DEF ClientTo
<1>7. Queue' = Queue
  BY <1>4, <1>5 DEF Queue
<1>8. client.pc \in {"openwait", "closewait"}
  BY <1>5, UnwrittenModes DEF Waits
<1>9. Answer(h)
  <2>1. Ends(client.pc, h, to)
    BY <1>2, <1>3, <1>4, <1>5, EndOfWait
  <2> QED
    BY <2>1 DEF Answer, Final, Sent, Ends
<1>10. h.line.text \in Answers(client.pc) /\ InStream(h.line.text)
  BY <1>5, <1>9 DEF AnswerInv, OnlyAnswers, InStream
<1>11. h.line.text \notin Sent /\ h.line.text # "ALREADY CONNECTED"
  BY <1>10, UnwrittenModes
<1>16. Believed(client.pc, h, to)
  BY <1>2, <1>3, <1>4, <1>5, <1>8, <1>10, <1>11, AnswerTexts
<1>12. /\ ~IsEvent(h) /\ h.last
       /\ client.pc = "openwait" => \/ to = "poll" /\ h.line.text = "OK"
                                    \/ to = "openfailed" /\ h.line.text = "ERROR"
       /\ client.pc = "closewait" => \/ to = "closed" /\ h.line.text = "OK"
                                     \/ to = "idle" /\ h.line.text = "ERROR"
  BY <1>16 DEF Believed
<1>13. client.pc = "openwait" /\ to = "poll" => ~NoneQueued(client.slot)
  <2> SUFFICES ASSUME client.pc = "openwait", to = "poll" PROVE ~NoneQueued(client.slot)
    OBVIOUS
  <2>1. h.line.text = "OK"
    BY <1>12
  <2>2. ConnectQueued \/ ConnectSaid
    BY <2>1, <1>10 DEF EventInv, OnTheWay
  <2>3. ~ConnectSaid
    <3> SUFFICES ASSUME NEW j \in At, Stream[j].line.text = "CONNECT" PROVE FALSE
      BY DEF ConnectSaid
    <3>1. j # 1
      BY <2>1, <1>5
    <3>2. 1 < j
      BY <3>1 DEF At
    <3>3. Answer(Stream[j])
      BY DEF Answer
    <3>4. Follows(Stream[1], Stream[j])
      BY <3>2, <3>3, <1>5, <1>9 DEF AnswerInv, InOrder
    <3>5. <<"OK", "CONNECT">> \in Order
      BY <3>4, <2>1, <1>5, <1>12 DEF Follows
    <3> QED
      BY <3>5 DEF Order
  <2>4. PICK i \in QAt : Queue[i].code = "CONNECT"
    BY <2>2, <2>3 DEF ConnectQueued
  <2>5. Queue[i].link = client.slot
    BY <2>4 DEF AnswerInv, Connects
  <2> QED
    BY <2>5 DEF NoneQueued
<1>14. ASSUME NEW l \in Links PROVE Follow(l)'
  <2>1. Follow(l)
    BY DEF EventInv
  <2>2. ~EventOf(h, l)
    BY <1>12 DEF EventOf
  <2>3. SaidTrue(l)' /\ (NoneSaid(l)' <=> NoneSaid(l))
    BY <2>1, <2>2, <1>5, OtherRead DEF Follow
  <2>4. QueuedTrue(l)' /\ (NoneQueued(l)' <=> NoneQueued(l))
    BY <2>1, <2>3, <1>5, <1>7 DEF Follow, QueuedTrue, LastQueued, QAt, NoneQueued
  <2>5. CASE l = client.slot /\ client.pc = "openwait" /\ to = "poll"
    <3>1. ~NoneQueued(l)'
      BY <2>4, <2>5, <1>13
    <3> QED
      BY <2>3, <2>4, <3>1 DEF Follow, StateTrue
  <2>6. CASE ~(l = client.slot /\ client.pc = "openwait" /\ to = "poll")
    <3>1. Between(l) => Between(l)'
      BY <2>6, <1>6, <1>8, <1>12 DEF Between
    <3>2. StateTrue(l)'
      BY <2>1, <2>3, <2>4, <3>1, <1>4, <1>5 DEF Follow, StateTrue
    <3> QED
      BY <2>3, <2>4, <3>2 DEF Follow
  <2> QED
    BY <2>5, <2>6
<1>15. OnTheWay'
  <2>1. to \in {"poll", "openfailed", "closed", "idle"}
    BY <1>8, <1>12
  <2>2. to \in {"openfailed", "closed"} => client.slot \notin up
    BY <1>8, <1>10, <1>12 DEF EventInv, OnTheWay
  <2>3. ~InStream("ALREADY CONNECTED")'
    BY <1>5, ShorterIn, UnwrittenModes
  <2> QED
    BY <2>1, <2>2, <2>3, <1>5, <1>6 DEF OnTheWay
<1> QED
  BY <1>14, <1>15 DEF EventInv

-----------------------------------------------------------------------------
Undisturbed == ~impatient /\ ~history.wrote /\ ~history.missed

(* What was written, or missed, stays so.                                  *)
LEMMA DisturbedStays == LinkTypes /\ [Next]_vars /\ Undisturbed' => Undisturbed
<1> SUFFICES ASSUME LinkTypes, [Next]_vars, Undisturbed' PROVE Undisturbed
  OBVIOUS
<1>0. HistoryTypes
  BY LinkParts
<1>1. impatient' = impatient
  BY SameCase
<1>2. CASE history' = history
  BY <1>1, <1>2 DEF Undisturbed
<1>3. CASE WifiRead
  <2>1. history' = [history EXCEPT !.missed = @ \/ HalfMissing(wifi.part, Head(uart))]
    BY <1>3, Zenon DEF WifiRead
  <2>2. HistoryTo(HalfMissing(wifi.part, Head(uart)), FALSE, FALSE)
    BY <1>0, <2>1, HistoryMissed
  <2> QED
    BY <1>1, <2>2, Zenon DEF HistoryTo, Undisturbed
<1>4. CASE Send
  BY <1>4, SendDoes DEF Undisturbed
<1>5. CASE ClientAnswered
  <2>1. PICK h, r : h = Head(uart) /\ r = Response(client.part, h)
    OBVIOUS
  <2>2. HistoryTo(HalfMissing(client.part, h), UnderLock /\ h.line.cmd # ticket,
                  Reported(client.pc, r) /\ h.line.cmd # ticket)
    BY <1>5, <2>1, AnsweredDoes, Zenon
  <2> QED
    BY <1>1, <2>2, Zenon DEF HistoryTo, Undisturbed
<1>6. CASE ClientQueues
  <2>1. PICK h : h = Head(uart)
    OBVIOUS
  <2>2. HistoryTo(HalfMissing(client.part, h), FALSE, FALSE)
    BY <1>6, <2>1, QueuesDoes, Zenon
  <2> QED
    BY <1>1, <2>2, Zenon DEF HistoryTo, Undisturbed
<1>7. CASE ClientTimeout
  <2>1. HistoryTo(FALSE, UnderLock, FALSE)
    BY <1>7, TimeoutDoes
  <2> QED
    BY <1>1, <2>1, Zenon DEF HistoryTo, Undisturbed
<1> QED
  BY <1>2, <1>3, <1>4, <1>5, <1>6, <1>7
     DEF Next, vars, Execute, PeerCloses, Transmit, WifiRun, WifiLock, WifiCopy, WifiClear, WifiHandle,
         WifiListen, WifiQuiet, WifiUnlock, WifiOnly, ClientRun, ClientTakesLock, Open, Leave,
         StartClose, OpenCommand, CloseCommand, OpenFailed, CloseDone, PollConnected, PollTimeout

(* It survives every step that writes and misses nothing.                  *)
LEMMA EventStep ==
    ASSUME LinkTypes, LockHeld, AnswerInv, EventInv, Undisturbed, Undisturbed', [Next]_vars PROVE EventInv'
<1>0. Unwritten /\ ~history'.missed /\ ~history'.wrote
  BY DEF Unwritten, Undisturbed
<1>1. CASE UNCHANGED vars \/ Transmit \/ WifiLock \/ WifiCopy \/ WifiClear \/ WifiListen \/ WifiQuiet
           \/ WifiUnlock
  BY <1>1, QuietSteps, EventQuiet
<1>2. CASE Execute
  BY <1>0, <1>2, EventExecute
<1>3. CASE PeerCloses
  BY <1>0, <1>3, EventPeer
<1>4. CASE WifiHandle
  BY <1>0, <1>4, EventHandle
<1>5. CASE WifiRead
  BY <1>0, <1>5, EventWifiRead
<1>6. CASE Open
  BY <1>0, <1>6, EventOpen
<1>7. CASE Leave
  <2>1. Moves("using", "idle") /\ state' = state
    BY <1>7, LeaveDoes
  <2> QED
    BY <1>0, <2>1, EventMoves
<1>8. CASE StartClose
  <2>1. Moves("using", "closelock") /\ state' = state
    BY <1>8, StartCloseDoes
  <2> QED
    BY <1>0, <2>1, EventMoves
<1>9. CASE OpenFailed
  <2>1. Moves("openfailed", "idle") /\ state' = [state EXCEPT ![client.slot] = "disconnected"]
    BY <1>9, OpenFailedDoes
  <2> QED
    BY <1>0, <2>1, EventMoves
<1>10. CASE CloseDone
  <2>1. Moves("closed", "idle") /\ state' = [state EXCEPT ![client.slot] = "disconnected"]
    BY <1>10, CloseDoneDoes
  <2> QED
    BY <1>0, <2>1, EventMoves
<1>11. CASE Send
  BY <1>0, <1>11, SendDoes
<1>12. CASE OpenCommand
  <2>1. /\ client.pc = "openlock" /\ ClientKept /\ UNCHANGED <<uart, state, events>>
        /\ ClientTo("openwait", client.slot, client.part)
    BY <1>12, OpenCommandDoes
  <2> QED
    BY <1>0, <2>1, EventCommand
<1>13. CASE CloseCommand
  <2>1. /\ client.pc = "closelock" /\ ClientKept /\ UNCHANGED <<uart, state, events>>
        /\ ClientTo("closewait", client.slot, client.part)
    BY <1>13, CloseCommandDoes
  <2> QED
    BY <1>0, <2>1, EventCommand
<1>14. CASE PollConnected
  <2>1. Moves("poll", "using") /\ state' = state
    BY <1>14, PollConnectedDoes
  <2> QED
    BY <1>0, <2>1, EventMoves
<1>15. CASE PollTimeout
  <2>1. Moves("poll", "idle") /\ state' = state
    BY <1>15, PollTimeoutDoes
  <2> QED
    BY <1>0, <2>1, EventMoves
<1>16. CASE ClientAnswered
  BY <1>0, <1>16, EventClientAnswered
<1>17. CASE ClientQueues
  BY <1>0, <1>17, EventClientQueues
<1>18. CASE ClientTimeout
  BY <1>18, TimeoutAnswers DEF Undisturbed
<1> QED
  BY <1>1, <1>2, <1>3, <1>4, <1>5, <1>6, <1>7, <1>8, <1>9, <1>10, <1>11, <1>12, <1>13, <1>14, <1>15, <1>16,
     <1>17, <1>18 DEF Next, WifiRun, ClientRun, ClientTakesLock

(* So it holds as long as nothing was written or missed.                   *)
LEMMA EventInvHolds == Spec => [](Undisturbed => EventInv)
<1>1. Init => (Undisturbed => EventInv)
  BY EventInit
<1>2. LinkInv /\ (Undisturbed => EventInv) /\ [Next]_vars => (Undisturbed => EventInv)'
  <2> SUFFICES ASSUME LinkInv, Undisturbed => EventInv, [Next]_vars, Undisturbed' PROVE EventInv'
    BY DEF Undisturbed
  <2>1. LinkTypes /\ LockHeld /\ (~impatient => AnswerInv)
    BY DEF LinkInv
  <2>2. Undisturbed
    BY <2>1, DisturbedStays
  <2>3. AnswerInv /\ EventInv
    BY <2>1, <2>2 DEF Undisturbed
  <2> QED
    BY <2>1, <2>2, <2>3, EventStep
<1> QED
  BY <1>1, <1>2, LinkInvHolds, PTL DEF Spec

(* With patient timeouts, while no event was missed and nothing written     *)
(* without the lock: when no line is on its way and no call open, a socket *)
(* is connected exactly if the module holds a connection, for any links,   *)
(* numbers of calls and texts of the answers.                              *)
THEOREM SocketFollowsModemHolds == Spec => []SocketFollowsModem
<1>1. LinkInv /\ (Undisturbed => EventInv) => SocketFollowsModem
  <2> SUFFICES ASSUME LinkInv, EventInv, AtRest, NEW l \in Links
               PROVE  state[l] = IF l \in up THEN "connected" ELSE "disconnected"
    BY DEF SocketFollowsModem, Undisturbed
  <2>1. wifi.copy = <<>>
    BY LinkParts DEF LinkInv, WifiTypes, AtRest
  <2>2. At = {}
    BY EmptyStream DEF AtRest
  <2>3. Queue = <<>>
    BY <2>1 DEF Queue, AtRest
  <2>4. NoneSaid(l) /\ NoneQueued(l) /\ ~Between(l)
    BY <2>2, <2>3 DEF NoneSaid, NoneQueued, QAt, Between, AtRest
  <2> QED
    BY <2>4 DEF EventInv, Follow, StateTrue
<1> QED
  BY <1>1, LinkInvHolds, EventInvHolds, PTL
=============================================================================

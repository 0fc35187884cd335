--------------------------- MODULE Library_proofs ---------------------------
(***************************************************************************)
(* Proofs about what takes the lines of the WiFi module apart, for every   *)
(* set of lines of the four kinds, any number of them and every ring       *)
(* buffer of five tokens or more, and about the composition.               *)
(*                                                                         *)
(* LinesReadAsSaid is not inductive.  AtInv says where in a line the task  *)
(* stands (AtPhase): at its beginning no event has begun at the end of the *)
(* ring (Quiet); within it the ring ends with the tokens of the event that *)
(* may still come (Holds), or the parser that took over has the fields of  *)
(* the line so far (InPacket, Listed).  And it balances the events: the    *)
(* queue, with what the lines under way still owe, is what was announced   *)
(* (Balanced).  All of it until a timeout cuts a line.                     *)
(***************************************************************************)
EXTENDS Library, HeapFreelist_proofs

(* The remainder of a number below twice the size of the ring. *)
LEMMA Around ==
    ASSUME NEW x \in 0..(2 * RingSize - 1)
    PROVE  x % RingSize = IF x < RingSize THEN x ELSE x - RingSize
<1>1. RingSize \in Nat /\ RingSize > 0
  BY AtAssumption
<1> QED
  BY <1>1

IsRing(r) ==
    /\ r = [data |-> r.data, size |-> r.size, front |-> r.front]
    /\ r.data = [i \in 0..(RingSize - 1) |-> r.data[i]]
    /\ r.size \in 0..RingSize /\ r.front \in 0..(RingSize - 1)

(* What push_back() does to the end of the ring: t is the last, and what   *)
(* was there comes before it; only a full ring loses its first.            *)
Pushed(q, r, t) ==
    /\ IsRing(q) /\ q.size = (IF r.size < RingSize THEN r.size + 1 ELSE RingSize)
    /\ FromBack(q, 1) = t
    /\ \A j \in 1..(q.size - 1) : FromBack(q, j + 1) = FromBack(r, j)

(* The ring buffer keeps the last tokens in their order, also when full.   *)
LEMMA PushKeeps ==
    ASSUME NEW r, IsRing(r), NEW t
    PROVE  Pushed(PushBack(r, t), r, t)
<1>0. RingSize \in Nat /\ RingSize >= 5 /\ r.size \in 0..RingSize /\ r.front \in 0..(RingSize - 1)
  BY AtAssumption DEF IsRing
<1>1. PICK b : b = BackIndex(r)
  OBVIOUS
<1>2. b = (IF r.front + r.size < RingSize THEN r.front + r.size ELSE r.front + r.size - RingSize)
  BY <1>0, <1>1, Around DEF BackIndex
<1>3. PICK d : d = [r.data EXCEPT ![b] = t]
  OBVIOUS
<1>4. /\ d = [i \in 0..(RingSize - 1) |-> d[i]] /\ d[b] = t
      /\ \A i \in 0..(RingSize - 1) : i # b => d[i] = r.data[i]
  <2>1. b \in 0..(RingSize - 1)
    BY <1>0, <1>2
  <2>2. r.data = [i \in 0..(RingSize - 1) |-> r.data[i]]
    BY DEF IsRing
  <2> QED
    BY <1>3, <2>1, <2>2
<1>5. PICK m : m = [r EXCEPT !.data[BackIndex(r)] = t]
  OBVIOUS
<1>6. m = [data |-> d, size |-> r.size, front |-> r.front]
  BY <1>1, <1>3, <1>5 DEF IsRing
<1>7. PICK q : q = PushBack(r, t)
  OBVIOUS
<1>8. q = IncreaseSize(m)
  BY <1>5, <1>7 DEF PushBack
<1>9. CASE r.size < RingSize
  <2>1. q = [data |-> d, size |-> r.size + 1, front |-> r.front]
    BY <1>6, <1>8, <1>9 DEF IncreaseSize
  <2>2. q.data = d /\ q.size = r.size + 1 /\ q.front = r.front
    BY <2>1
  <2>3. IsRing(q)
    BY <1>0, <1>4, <1>9, <2>1, <2>2 DEF IsRing
  <2>4. FromBack(q, 1) = t
    BY <1>0, <1>1, <1>4, <2>2 DEF FromBack, BackIndex
  <2>5. ASSUME NEW j \in 1..(q.size - 1) PROVE FromBack(q, j + 1) = FromBack(r, j)
    <3>1. PICK i : i = r.front + r.size - j
      OBVIOUS
    <3>2. i \in 0..(2 * RingSize - 1) /\ q.front + q.size - (j + 1) = i
      BY <1>0, <1>9, <2>2, <2>5, <3>1
    <3>3. i % RingSize = (IF i < RingSize THEN i ELSE i - RingSize)
      BY <3>2, Around
    <3>4. i % RingSize # b /\ i % RingSize \in 0..(RingSize - 1)
      BY <1>0, <1>2, <1>9, <2>2, <2>5, <3>1, <3>2, <3>3
    <3> QED
      BY <1>4, <2>2, <3>1, <3>2, <3>4 DEF FromBack
  <2> QED
    BY <1>7, <1>9, <2>2, <2>3, <2>4, <2>5, Zenon DEF Pushed
<1>10. CASE ~(r.size < RingSize)
  <2>0. r.size = RingSize /\ b = r.front
    <3>1. r.size = RingSize
      BY <1>0, <1>10
    <3>2. ~(r.front + r.size < RingSize) /\ r.front + r.size - RingSize = r.front
      BY <1>0, <3>1
    <3> QED
      BY <1>2, <3>1, <3>2
  <2>1. PICK f : f = (r.front + 1) % RingSize
    OBVIOUS
  <2>2. f = (IF r.front + 1 < RingSize THEN r.front + 1 ELSE 0)
    BY <1>0, <2>1, Around
  <2>3. q = [data |-> d, size |-> RingSize, front |-> f]
    BY <1>6, <1>8, <1>10, <2>0, <2>1 DEF IncreaseSize
  <2>4. q.data = d /\ q.size = RingSize /\ q.front = f
    BY <2>3
  <2>5. IsRing(q)
    BY <1>0, <1>4, <2>2, <2>3, <2>4 DEF IsRing
  <2>6. FromBack(q, 1) = t
    <3>1. f + RingSize - 1 \in 0..(2 * RingSize - 1)
      BY <1>0, <2>2
    <3>2. (f + RingSize - 1) % RingSize = b
      BY <1>0, <2>0, <2>2, <3>1, Around
    <3> QED
      BY <1>4, <2>4, <3>2 DEF FromBack
  <2>7. ASSUME NEW j \in 1..(q.size - 1) PROVE FromBack(q, j + 1) = FromBack(r, j)
    <3>1. PICK i, e : i = f + RingSize - (j + 1) /\ e = r.front + RingSize - j
      OBVIOUS
    <3>2. i \in 0..(2 * RingSize - 1) /\ e \in 0..(2 * RingSize - 1)
      BY <1>0, <2>2, <2>4, <2>7, <3>1
    <3>3. PICK u, v : u = i % RingSize /\ v = e % RingSize
      OBVIOUS
    <3>4. /\ u = (IF i < RingSize THEN i ELSE i - RingSize)
          /\ v = (IF e < RingSize THEN e ELSE e - RingSize)
      BY <3>2, <3>3, Around
    <3>5. j \in Nat /\ 1 <= j /\ j < RingSize /\ (f = r.front + 1 \/ (f = 0 /\ r.front = RingSize - 1))
      BY <1>0, <2>2, <2>4, <2>7
    <3>6. i = e \/ e = i + RingSize
      BY <1>0, <3>1, <3>5
    <3>7. u = v /\ v # b /\ v \in 0..(RingSize - 1)
      BY <1>0, <2>0, <3>1, <3>2, <3>4, <3>5, <3>6
    <3> QED
      BY <1>4, <2>0, <2>4, <3>1, <3>3, <3>7 DEF FromBack
  <2> QED
    BY <1>7, <1>10, <2>4, <2>5, <2>6, <2>7, Zenon DEF Pushed
<1> QED
  BY <1>9, <1>10

(* An empty ring is one. *)
LEMMA EmptyIsRing == IsRing(EmptyRing) /\ EmptyRing.size = 0
BY AtAssumption DEF IsRing, EmptyRing

-----------------------------------------------------------------------------
(* The row that decides: the first with whose tokens the ring ends.        *)
Decides(r, row) ==
    /\ row \in 0..12
    /\ row # 0 => EndsWith(r, Table[row].text)
    /\ \A i \in 1..12 : EndsWith(r, Table[i].text) => row # 0 /\ row <= i

LEMMA RowDecides ==
    ASSUME NEW q, NEW row, row = SelectInSeq(Table, LAMBDA r : EndsWith(q, r.text))
    PROVE  Decides(q, row)
<1>1. PICK I : I = {i \in 1..12 : EndsWith(q, Table[i].text)}
  OBVIOUS
<1>2. row = IF I # {} THEN Min(I) ELSE 0
  <2>1. 1..Len(Table) = 1..12
    BY DEF Table
  <2>2. row = IF {i \in 1..Len(Table) : EndsWith(q, Table[i].text)} # {}
              THEN Min({i \in 1..Len(Table) : EndsWith(q, Table[i].text)}) ELSE 0
    BY Zenon DEF SelectInSeq
  <2> QED
    BY <1>1, <2>1, <2>2, Zenon
<1>3. I \in SUBSET Nat
  BY <1>1
<1>4. I # {} => row \in I /\ \A g \in I : row <= g
  BY <1>2, <1>3, MinNumber
<1>5. \A i \in I : i \in 1..12 /\ EndsWith(q, Table[i].text)
  BY <1>1, Zenon
<1>6. \A i \in 1..12 : EndsWith(q, Table[i].text) => i \in I
  BY <1>1, Zenon
<1>7. row \in 0..12
  <2>1. CASE I = {}
    BY <1>2, <2>1
  <2>2. CASE I # {}
    <3>1. row \in 1..12
      BY <1>4, <1>5, <2>2, Zenon
    <3> QED
      BY <3>1
  <2> QED
    BY <2>1, <2>2
<1>8. row # 0 => I # {}
  BY <1>2
<1>9. row \in I => row # 0
  BY <1>5
<1> QED
  BY <1>4, <1>5, <1>6, <1>7, <1>8, <1>9 DEF Decides

(* A line of one, two or three tokens, with its end. *)
LEMMA LineOfOne ==
    ASSUME NEW x
    PROVE  <<x>> \o <<"CR", "LF">> = <<x, "CR", "LF">>
<1> PICK S : S = {x, "CR", "LF"}
  OBVIOUS
<1>0. <<x>> \in Seq(S) /\ <<"CR", "LF">> \in Seq(S)
  OBVIOUS
<1> DEFINE t == <<x>> \o <<"CR", "LF">>
<1>1. t \in Seq(S) /\ Len(t) = 3
  BY <1>0, ConcatProperties
<1>2. t[1] = x /\ t[2] = "CR" /\ t[3] = "LF"
  OBVIOUS
<1>3. t = <<t[1], t[2], t[3]>>
  <2> HIDE DEF t
  <2> QED
    BY <1>1
<1> QED
  BY <1>2, <1>3

LEMMA LineOfTwo ==
    ASSUME NEW x, NEW y
    PROVE  <<x, y>> \o <<"CR", "LF">> = <<x, y, "CR", "LF">>
<1> PICK S : S = {x, y, "CR", "LF"}
  OBVIOUS
<1>0. <<x, y>> \in Seq(S) /\ <<"CR", "LF">> \in Seq(S)
  OBVIOUS
<1> DEFINE t == <<x, y>> \o <<"CR", "LF">>
<1>1. t \in Seq(S) /\ Len(t) = 4
  BY <1>0, ConcatProperties
<1>2. t[1] = x /\ t[2] = y /\ t[3] = "CR" /\ t[4] = "LF"
  OBVIOUS
<1>3. t = <<t[1], t[2], t[3], t[4]>>
  <2> HIDE DEF t
  <2> QED
    BY <1>1
<1> QED
  BY <1>2, <1>3

LEMMA LineOfThree ==
    ASSUME NEW x, NEW y, NEW z
    PROVE  <<x, y, z>> \o <<"CR", "LF">> = <<x, y, z, "CR", "LF">>
<1> PICK S : S = {x, y, z, "CR", "LF"}
  OBVIOUS
<1>0. <<x, y, z>> \in Seq(S) /\ <<"CR", "LF">> \in Seq(S)
  OBVIOUS
<1> DEFINE t == <<x, y, z>> \o <<"CR", "LF">>
<1>1. t \in Seq(S) /\ Len(t) = 5
  BY <1>0, ConcatProperties
<1>2. t[1] = x /\ t[2] = y /\ t[3] = z /\ t[4] = "CR" /\ t[5] = "LF"
  OBVIOUS
<1>3. t = <<t[1], t[2], t[3], t[4], t[5]>>
  <2> HIDE DEF t
  <2> QED
    BY <1>1
<1> QED
  BY <1>2, <1>3

(* The rows, one by one. *)
LEMMA Rows ==
    /\ Table[1].code = "send_ok" /\ Table[1].text = <<"SEND", "OK", "CR", "LF">>
    /\ Table[2].code = "ok" /\ Table[2].text = <<"OK", "CR", "LF">>
    /\ Table[3].code = "ready_to_write" /\ Table[3].text = <<">">>
    /\ Table[4].code = "fail" /\ Table[4].text = <<"FAIL", "CR", "LF">>
    /\ Table[5].code = "error" /\ Table[5].text = <<"ERROR", "CR", "LF">>
    /\ Table[6].code = "send_fail" /\ Table[6].text = <<"SEND", "FAIL", "CR", "LF">>
    /\ Table[7].code = "network_connected" /\ Table[7].text = <<"1", "comma", "CONNECT", "CR", "LF">>
    /\ Table[8].code = "network_connected" /\ Table[8].text = <<"0", "comma", "CONNECT", "CR", "LF">>
    /\ Table[9].code = "network_disconnected" /\ Table[9].text = <<"0", "comma", "CLOSED", "CR", "LF">>
    /\ Table[10].code = "network_disconnected" /\ Table[10].text = <<"1", "comma", "CLOSED", "CR", "LF">>
    /\ Table[11].code = "incoming_packet_data" /\ Table[11].text = <<"+IPD", "comma">>
    /\ Table[12].code = "query_access_point" /\ Table[12].text = <<"+CWLAP", ":">>
<1>1. \A x : <<x>> \o <<"CR", "LF">> = <<x, "CR", "LF">>
  BY LineOfOne
<1>2. \A x, y : <<x, y>> \o <<"CR", "LF">> = <<x, y, "CR", "LF">>
  BY LineOfTwo
<1>3. \A x, y, z : <<x, y, z>> \o <<"CR", "LF">> = <<x, y, z, "CR", "LF">>
  BY LineOfThree
<1>4. \A code, text : Row(code, text).code = code /\ Row(code, text).text = text
  BY DEF Row
<1>5. Table[1].code = "send_ok" /\ Table[1].text = <<"SEND", "OK", "CR", "LF">>
  <2>1. Table[1] = LineRow("send_ok", <<"SEND", "OK">>)
    BY DEF Table
  <2>2. Table[1] = Row("send_ok", <<"SEND", "OK", "CR", "LF">>)
    BY <2>1, <1>2, Zenon DEF LineRow
  <2> QED
    BY <2>2, <1>4
<1>6. Table[2].code = "ok" /\ Table[2].text = <<"OK", "CR", "LF">>
  <2>1. Table[2] = LineRow("ok", <<"OK">>)
    BY DEF Table
  <2>2. Table[2] = Row("ok", <<"OK", "CR", "LF">>)
    BY <2>1, <1>1, Zenon DEF LineRow
  <2> QED
    BY <2>2, <1>4
<1>7. Table[3].code = "ready_to_write" /\ Table[3].text = <<">">>
  <2>1. Table[3] = Row("ready_to_write", <<">">>)
    BY DEF Table
  <2> QED
    BY <2>1, <1>4
<1>8. Table[4].code = "fail" /\ Table[4].text = <<"FAIL", "CR", "LF">>
  <2>1. Table[4] = LineRow("fail", <<"FAIL">>)
    BY DEF Table
  <2>2. Table[4] = Row("fail", <<"FAIL", "CR", "LF">>)
    BY <2>1, <1>1, Zenon DEF LineRow
  <2> QED
    BY <2>2, <1>4
<1>9. Table[5].code = "error" /\ Table[5].text = <<"ERROR", "CR", "LF">>
  <2>1. Table[5] = LineRow("error", <<"ERROR">>)
    BY DEF Table
  <2>2. Table[5] = Row("error", <<"ERROR", "CR", "LF">>)
    BY <2>1, <1>1, Zenon DEF LineRow
  <2> QED
    BY <2>2, <1>4
<1>10. Table[6].code = "send_fail" /\ Table[6].text = <<"SEND", "FAIL", "CR", "LF">>
  <2>1. Table[6] = LineRow("send_fail", <<"SEND", "FAIL">>)
    BY DEF Table
  <2>2. Table[6] = Row("send_fail", <<"SEND", "FAIL", "CR", "LF">>)
    BY <2>1, <1>2, Zenon DEF LineRow
  <2> QED
    BY <2>2, <1>4
<1>11. Table[7].code = "network_connected" /\ Table[7].text = <<"1", "comma", "CONNECT", "CR", "LF">>
  <2>1. Table[7] = LineRow("network_connected", <<"1", "comma", "CONNECT">>)
    BY DEF Table
  <2>2. Table[7] = Row("network_connected", <<"1", "comma", "CONNECT", "CR", "LF">>)
    BY <2>1, <1>3, Zenon DEF LineRow
  <2> QED
    BY <2>2, <1>4
<1>12. Table[8].code = "network_connected" /\ Table[8].text = <<"0", "comma", "CONNECT", "CR", "LF">>
  <2>1. Table[8] = LineRow("network_connected", <<"0", "comma", "CONNECT">>)
    BY DEF Table
  <2>2. Table[8] = Row("network_connected", <<"0", "comma", "CONNECT", "CR", "LF">>)
    BY <2>1, <1>3, Zenon DEF LineRow
  <2> QED
    BY <2>2, <1>4
<1>13. Table[9].code = "network_disconnected" /\ Table[9].text = <<"0", "comma", "CLOSED", "CR", "LF">>
  <2>1. Table[9] = LineRow("network_disconnected", <<"0", "comma", "CLOSED">>)
    BY DEF Table
  <2>2. Table[9] = Row("network_disconnected", <<"0", "comma", "CLOSED", "CR", "LF">>)
    BY <2>1, <1>3, Zenon DEF LineRow
  <2> QED
    BY <2>2, <1>4
<1>14. Table[10].code = "network_disconnected" /\ Table[10].text = <<"1", "comma", "CLOSED", "CR", "LF">>
  <2>1. Table[10] = LineRow("network_disconnected", <<"1", "comma", "CLOSED">>)
    BY DEF Table
  <2>2. Table[10] = Row("network_disconnected", <<"1", "comma", "CLOSED", "CR", "LF">>)
    BY <2>1, <1>3, Zenon DEF LineRow
  <2> QED
    BY <2>2, <1>4
<1>15. Table[11].code = "incoming_packet_data" /\ Table[11].text = <<"+IPD", "comma">>
  <2>1. Table[11] = Row("incoming_packet_data", <<"+IPD", "comma">>)
    BY DEF Table
  <2> QED
    BY <2>1, <1>4
<1>16. Table[12].code = "query_access_point" /\ Table[12].text = <<"+CWLAP", ":">>
  <2>1. Table[12] = Row("query_access_point", <<"+CWLAP", ":">>)
    BY DEF Table
  <2> QED
    BY <2>1, <1>4
<1> QED
  BY <1>5, <1>6, <1>7, <1>8, <1>9, <1>10, <1>11, <1>12, <1>13, <1>14, <1>15, <1>16, Zenon

-----------------------------------------------------------------------------
(* What equals() compares, for the lengths that the rows have.             *)
LEMMA EndsWith1 ==
    ASSUME NEW q, NEW n, q.size = n, n \in Nat, NEW a
    PROVE  EndsWith(q, <<a>>) <=> n >= 1 /\ FromBack(q, 1) = a
BY DEF EndsWith

LEMMA EndsWith2 ==
    ASSUME NEW q, NEW n, q.size = n, n \in Nat, NEW a, NEW b
    PROVE  EndsWith(q, <<a, b>>) <=> n >= 2 /\ FromBack(q, 1) = b /\ FromBack(q, 2) = a
BY DEF EndsWith

LEMMA EndsWith3 ==
    ASSUME NEW q, NEW n, q.size = n, n \in Nat, NEW a, NEW b, NEW c
    PROVE  EndsWith(q, <<a, b, c>>) <=> n >= 3 /\ FromBack(q, 1) = c /\ FromBack(q, 2) = b /\ FromBack(q, 3) = a
BY DEF EndsWith

LEMMA EndsWith4 ==
    ASSUME NEW q, NEW n, q.size = n, n \in Nat, NEW a, NEW b, NEW c, NEW d
    PROVE  EndsWith(q, <<a, b, c, d>>) <=> n >= 4 /\ FromBack(q, 1) = d /\ FromBack(q, 2) = c /\ FromBack(q, 3) = b /\ FromBack(q, 4) = a
BY DEF EndsWith

LEMMA EndsWith5 ==
    ASSUME NEW q, NEW n, q.size = n, n \in Nat, NEW a, NEW b, NEW c, NEW d, NEW e
    PROVE  EndsWith(q, <<a, b, c, d, e>>) <=> n >= 5 /\ FromBack(q, 1) = e /\ FromBack(q, 2) = d /\ FromBack(q, 3) = c /\ FromBack(q, 4) = b /\ FromBack(q, 5) = a
BY DEF EndsWith

(* The rows that are looked for, and those that are queued.                *)
Sought       == Answers \cup {"send_ok", "send_fail"}
Connections == {"network_connected", "network_disconnected"}
CodeOf(row)  == IF row = 0 THEN "none" ELSE Table[row].code
CodeFor(word) == IF word = "CONNECT" THEN "network_connected" ELSE "network_disconnected"

(* The end of the ring is that of a connection. *)
Connecting(q, link, word) ==
    /\ q.size >= 5 /\ FromBack(q, 1) = "LF" /\ FromBack(q, 2) = "CR"
    /\ FromBack(q, 3) = word /\ FromBack(q, 4) = "comma" /\ FromBack(q, 5) = link

(* When a row decides, by the last tokens. *)
Effects(q, row) ==
    /\ CodeOf(row) = "incoming_packet_data"
          <=> q.size >= 2 /\ FromBack(q, 1) = "comma" /\ FromBack(q, 2) = "+IPD"
    /\ CodeOf(row) = "query_access_point"
          <=> q.size >= 2 /\ FromBack(q, 1) = ":" /\ FromBack(q, 2) = "+CWLAP"
    /\ CodeOf(row) \in Connections => q.size >= 5 /\ FromBack(q, 1) = "LF" /\ FromBack(q, 3) \in {"CONNECT", "CLOSED"}
    /\ CodeOf(row) \in Sought => FromBack(q, 1) = "LF"
    /\ \A link \in {"0", "1"}, word \in {"CONNECT", "CLOSED"} :
          Connecting(q, link, word) => CodeOf(row) = CodeFor(word) /\ Head(Table[row].text) = link

LEMMA RowEffects ==
    ASSUME NEW q, IsRing(q), NEW row, Decides(q, row) PROVE Effects(q, row)
<1>1. PICK n : n = q.size
  OBVIOUS
<1>2. n \in Nat
  BY <1>1, AtAssumption DEF IsRing
<1>3. /\ EndsWith(q, Table[1].text) <=> n >= 4 /\ FromBack(q, 1) = "LF" /\ FromBack(q, 2) = "CR" /\ FromBack(q, 3) = "OK" /\ FromBack(q, 4) = "SEND"
      /\ EndsWith(q, Table[2].text) <=> n >= 3 /\ FromBack(q, 1) = "LF" /\ FromBack(q, 2) = "CR" /\ FromBack(q, 3) = "OK"
      /\ EndsWith(q, Table[3].text) <=> n >= 1 /\ FromBack(q, 1) = ">"
      /\ EndsWith(q, Table[4].text) <=> n >= 3 /\ FromBack(q, 1) = "LF" /\ FromBack(q, 2) = "CR" /\ FromBack(q, 3) = "FAIL"
      /\ EndsWith(q, Table[5].text) <=> n >= 3 /\ FromBack(q, 1) = "LF" /\ FromBack(q, 2) = "CR" /\ FromBack(q, 3) = "ERROR"
      /\ EndsWith(q, Table[6].text) <=> n >= 4 /\ FromBack(q, 1) = "LF" /\ FromBack(q, 2) = "CR" /\ FromBack(q, 3) = "FAIL" /\ FromBack(q, 4) = "SEND"
      /\ EndsWith(q, Table[7].text) <=> n >= 5 /\ FromBack(q, 1) = "LF" /\ FromBack(q, 2) = "CR" /\ FromBack(q, 3) = "CONNECT" /\ FromBack(q, 4) = "comma" /\ FromBack(q, 5) = "1"
      /\ EndsWith(q, Table[8].text) <=> n >= 5 /\ FromBack(q, 1) = "LF" /\ FromBack(q, 2) = "CR" /\ FromBack(q, 3) = "CONNECT" /\ FromBack(q, 4) = "comma" /\ FromBack(q, 5) = "0"
      /\ EndsWith(q, Table[9].text) <=> n >= 5 /\ FromBack(q, 1) = "LF" /\ FromBack(q, 2) = "CR" /\ FromBack(q, 3) = "CLOSED" /\ FromBack(q, 4) = "comma" /\ FromBack(q, 5) = "0"
      /\ EndsWith(q, Table[10].text) <=> n >= 5 /\ FromBack(q, 1) = "LF" /\ FromBack(q, 2) = "CR" /\ FromBack(q, 3) = "CLOSED" /\ FromBack(q, 4) = "comma" /\ FromBack(q, 5) = "1"
      /\ EndsWith(q, Table[11].text) <=> n >= 2 /\ FromBack(q, 1) = "comma" /\ FromBack(q, 2) = "+IPD"
      /\ EndsWith(q, Table[12].text) <=> n >= 2 /\ FromBack(q, 1) = ":" /\ FromBack(q, 2) = "+CWLAP"
  <2>1. EndsWith(q, Table[1].text) <=> n >= 4 /\ FromBack(q, 1) = "LF" /\ FromBack(q, 2) = "CR" /\ FromBack(q, 3) = "OK" /\ FromBack(q, 4) = "SEND"
    <3>1. Table[1].text = <<"SEND", "OK", "CR", "LF">>
      BY Rows, Zenon
    <3> QED
      BY <1>1, <1>2, <3>1, EndsWith4
  <2>2. EndsWith(q, Table[2].text) <=> n >= 3 /\ FromBack(q, 1) = "LF" /\ FromBack(q, 2) = "CR" /\ FromBack(q, 3) = "OK"
    <3>1. Table[2].text = <<"OK", "CR", "LF">>
      BY Rows, Zenon
    <3> QED
      BY <1>1, <1>2, <3>1, EndsWith3
  <2>3. EndsWith(q, Table[3].text) <=> n >= 1 /\ FromBack(q, 1) = ">"
    <3>1. Table[3].text = <<">">>
      BY Rows, Zenon
    <3> QED
      BY <1>1, <1>2, <3>1, EndsWith1
  <2>4. EndsWith(q, Table[4].text) <=> n >= 3 /\ FromBack(q, 1) = "LF" /\ FromBack(q, 2) = "CR" /\ FromBack(q, 3) = "FAIL"
    <3>1. Table[4].text = <<"FAIL", "CR", "LF">>
      BY Rows, Zenon
    <3> QED
      BY <1>1, <1>2, <3>1, EndsWith3
  <2>5. EndsWith(q, Table[5].text) <=> n >= 3 /\ FromBack(q, 1) = "LF" /\ FromBack(q, 2) = "CR" /\ FromBack(q, 3) = "ERROR"
    <3>1. Table[5].text = <<"ERROR", "CR", "LF">>
      BY Rows, Zenon
    <3> QED
      BY <1>1, <1>2, <3>1, EndsWith3
  <2>6. EndsWith(q, Table[6].text) <=> n >= 4 /\ FromBack(q, 1) = "LF" /\ FromBack(q, 2) = "CR" /\ FromBack(q, 3) = "FAIL" /\ FromBack(q, 4) = "SEND"
    <3>1. Table[6].text = <<"SEND", "FAIL", "CR", "LF">>
      BY Rows, Zenon
    <3> QED
      BY <1>1, <1>2, <3>1, EndsWith4
  <2>7. EndsWith(q, Table[7].text) <=> n >= 5 /\ FromBack(q, 1) = "LF" /\ FromBack(q, 2) = "CR" /\ FromBack(q, 3) = "CONNECT" /\ FromBack(q, 4) = "comma" /\ FromBack(q, 5) = "1"
    <3>1. Table[7].text = <<"1", "comma", "CONNECT", "CR", "LF">>
      BY Rows, Zenon
    <3> QED
      BY <1>1, <1>2, <3>1, EndsWith5
  <2>8. EndsWith(q, Table[8].text) <=> n >= 5 /\ FromBack(q, 1) = "LF" /\ FromBack(q, 2) = "CR" /\ FromBack(q, 3) = "CONNECT" /\ FromBack(q, 4) = "comma" /\ FromBack(q, 5) = "0"
    <3>1. Table[8].text = <<"0", "comma", "CONNECT", "CR", "LF">>
      BY Rows, Zenon
    <3> QED
      BY <1>1, <1>2, <3>1, EndsWith5
  <2>9. EndsWith(q, Table[9].text) <=> n >= 5 /\ FromBack(q, 1) = "LF" /\ FromBack(q, 2) = "CR" /\ FromBack(q, 3) = "CLOSED" /\ FromBack(q, 4) = "comma" /\ FromBack(q, 5) = "0"
    <3>1. Table[9].text = <<"0", "comma", "CLOSED", "CR", "LF">>
      BY Rows, Zenon
    <3> QED
      BY <1>1, <1>2, <3>1, EndsWith5
  <2>10. EndsWith(q, Table[10].text) <=> n >= 5 /\ FromBack(q, 1) = "LF" /\ FromBack(q, 2) = "CR" /\ FromBack(q, 3) = "CLOSED" /\ FromBack(q, 4) = "comma" /\ FromBack(q, 5) = "1"
    <3>1. Table[10].text = <<"1", "comma", "CLOSED", "CR", "LF">>
      BY Rows, Zenon
    <3> QED
      BY <1>1, <1>2, <3>1, EndsWith5
  <2>11. EndsWith(q, Table[11].text) <=> n >= 2 /\ FromBack(q, 1) = "comma" /\ FromBack(q, 2) = "+IPD"
    <3>1. Table[11].text = <<"+IPD", "comma">>
      BY Rows, Zenon
    <3> QED
      BY <1>1, <1>2, <3>1, EndsWith2
  <2>12. EndsWith(q, Table[12].text) <=> n >= 2 /\ FromBack(q, 1) = ":" /\ FromBack(q, 2) = "+CWLAP"
    <3>1. Table[12].text = <<"+CWLAP", ":">>
      BY Rows, Zenon
    <3> QED
      BY <1>1, <1>2, <3>1, EndsWith2
  <2> QED
    BY <2>1, <2>2, <2>3, <2>4, <2>5, <2>6, <2>7, <2>8, <2>9, <2>10, <2>11, <2>12
<1>4. /\ row \in 0..12 /\ (row # 0 => EndsWith(q, Table[row].text))
      /\ \A i \in 1..12 : EndsWith(q, Table[i].text) => row # 0 /\ row <= i
  BY DEF Decides
<1>5. /\ Table[1].code = "send_ok" /\ Table[2].code = "ok" /\ Table[3].code = "ready_to_write"
      /\ Table[4].code = "fail" /\ Table[5].code = "error" /\ Table[6].code = "send_fail"
      /\ Table[7].code = "network_connected" /\ Table[8].code = "network_connected"
      /\ Table[9].code = "network_disconnected" /\ Table[10].code = "network_disconnected"
      /\ Table[11].code = "incoming_packet_data" /\ Table[12].code = "query_access_point"
  BY Rows, Zenon
<1>6. /\ Head(Table[7].text) = "1" /\ Head(Table[8].text) = "0"
      /\ Head(Table[9].text) = "0" /\ Head(Table[10].text) = "1"
  BY Rows
<1>7. /\ row \in {0, 3} => CodeOf(row) \in {"none", "ready_to_write"}
      /\ row \in {1, 2, 4, 5, 6} => CodeOf(row) \in Sought
      /\ row \in {7, 8} => CodeOf(row) = "network_connected"
      /\ row \in {9, 10} => CodeOf(row) = "network_disconnected"
      /\ row = 11 => CodeOf(row) = "incoming_packet_data"
      /\ row = 12 => CodeOf(row) = "query_access_point"
  BY <1>5 DEF CodeOf, Sought, Answers
<1>8. row \in {0, 3} \cup {1, 2, 4, 5, 6} \cup {7, 8} \cup {9, 10} \cup {11, 12}
  BY <1>4
<1>9. /\ row \in {1, 2, 4, 5, 6} => FromBack(q, 1) = "LF" /\ FromBack(q, 3) \notin {"CONNECT", "CLOSED"}
      /\ row = 3 => FromBack(q, 1) = ">"
      /\ row \in {7, 8} => n >= 5 /\ FromBack(q, 1) = "LF" /\ FromBack(q, 3) = "CONNECT"
      /\ row \in {9, 10} => n >= 5 /\ FromBack(q, 1) = "LF" /\ FromBack(q, 3) = "CLOSED"
      /\ row \in {7, 10} => FromBack(q, 5) = "1"
      /\ row \in {8, 9} => FromBack(q, 5) = "0"
      /\ row = 11 => n >= 2 /\ FromBack(q, 1) = "comma" /\ FromBack(q, 2) = "+IPD"
      /\ row = 12 => n >= 2 /\ FromBack(q, 1) = ":" /\ FromBack(q, 2) = "+CWLAP"
  BY <1>3, <1>4
<1>10. CodeOf(row) = "incoming_packet_data"
          <=> q.size >= 2 /\ FromBack(q, 1) = "comma" /\ FromBack(q, 2) = "+IPD"
  BY <1>1, <1>3, <1>4, <1>7, <1>8, <1>9 DEF Sought, Answers
<1>11. CodeOf(row) = "query_access_point"
          <=> q.size >= 2 /\ FromBack(q, 1) = ":" /\ FromBack(q, 2) = "+CWLAP"
  BY <1>1, <1>3, <1>4, <1>7, <1>8, <1>9 DEF Sought, Answers
<1>12. CodeOf(row) \in Connections => q.size >= 5 /\ FromBack(q, 1) = "LF" /\ FromBack(q, 3) \in {"CONNECT", "CLOSED"}
  BY <1>1, <1>7, <1>8, <1>9 DEF Sought, Answers, Connections
<1>13. CodeOf(row) \in Sought => FromBack(q, 1) = "LF"
  BY <1>7, <1>8, <1>9 DEF Sought, Answers
<1>14. ASSUME NEW link \in {"0", "1"}, NEW word \in {"CONNECT", "CLOSED"}, Connecting(q, link, word)
       PROVE  CodeOf(row) = CodeFor(word) /\ Head(Table[row].text) = link
  <2>1. row # 0 /\ row \in {7, 8, 9, 10}
    BY <1>1, <1>3, <1>4, <1>8, <1>9, <1>14 DEF Connecting
  <2>2. CASE word = "CONNECT"
    BY <1>6, <1>7, <1>9, <1>14, <2>1, <2>2 DEF Connecting, CodeFor
  <2>3. CASE word = "CLOSED"
    BY <1>6, <1>7, <1>9, <1>14, <2>1, <2>3 DEF Connecting, CodeFor
  <2> QED
    BY <2>2, <2>3
<1> QED
  BY <1>10, <1>11, <1>12, <1>13, <1>14, Zenon DEF Effects

-----------------------------------------------------------------------------
(* The lines under way: what is left of the first to read is its end, the  *)
(* others are whole.                                                       *)
Entry     == [line : Lines, left : Seq(STRING)]
ReadOf(e) == Len(e.line) - Len(e.left)
Spoken(e) == /\ Len(e.left) \in 1..Len(e.line)
             /\ \A j \in 1..Len(e.left) : e.left[j] = e.line[ReadOf(e) + j]
IsSerial(s) == /\ s \in Seq(Entry)
               /\ \A i \in 1..Len(s) : Spoken(s[i]) /\ (i > 1 => s[i].left = s[i].line)

(* A line is a sequence, and one of the four kinds. *)
LEMMA LineKinds ==
    ASSUME NEW l \in Lines
    PROVE  /\ l \in Seq(STRING) /\ Len(l) \in Nat /\ Len(l) >= 2
           /\ IsConnection(l) \/ IsPacket(l) \/ IsNetwork(l) \/ IsOther(l)
<1>1. l \in Seq(STRING) /\ (IsConnection(l) \/ IsPacket(l) \/ IsNetwork(l) \/ IsOther(l))
  BY LinesAssumption
<1>2. Len(l) \in Nat
  BY <1>1
<1>3. IsConnection(l) => Len(l) = 5
  BY DEF IsConnection
<1>4. IsPacket(l) => Len(l) >= 7
  BY DEF IsPacket
<1>5. IsNetwork(l) => Len(l) >= 6
  BY DEF IsNetwork
<1>6. IsOther(l) => Len(l) >= 2
  BY DEF IsOther
<1> QED
  BY <1>1, <1>2, <1>3, <1>4, <1>5, <1>6

(* What a step from serial to t does that reads a token of the line l.     *)
Advances(t, s, l, k) ==
    /\ IsSerial(t)
    /\ k + 1 = Len(l) => t = Tail(s)
    /\ k + 1 < Len(l) => /\ Len(t) = Len(s) /\ t[1].line = l /\ ReadOf(t[1]) = k + 1
                         /\ \A i \in 2..Len(s) : t[i] = s[i]

LEMMA ReadToken ==
    ASSUME IsSerial(serial), Read, NEW l, l = serial[1].line, NEW k, k = ReadOf(serial[1])
    PROVE  /\ Len(serial) >= 1 /\ l \in Lines /\ k \in 0..(Len(l) - 1) /\ Token = l[k + 1]
           /\ Advances(serial', serial, l, k)
<1>1. serial \in Seq(Entry) /\ serial # <<>> /\ serial' = LeftOver
  BY DEF IsSerial, Read
<1>2. Len(serial) \in Nat /\ Len(serial) >= 1 /\ Head(serial) = serial[1] /\ serial[1] \in Entry
  BY <1>1
<1>3. PICK e : e = serial[1]
  OBVIOUS
<1>4. /\ e = [line |-> l, left |-> e.left] /\ l = e.line /\ k = ReadOf(e) /\ l \in Lines
      /\ e.left \in Seq(STRING) /\ Head(serial) = e
  BY <1>2, <1>3 DEF Entry
<1>5. Spoken(e)
  BY <1>2, <1>3 DEF IsSerial
<1>6. PICK n : n = Len(e.left)
  OBVIOUS
<1>7. /\ l \in Seq(STRING) /\ Len(l) \in Nat /\ n \in 1..Len(l) /\ k = Len(l) - n
      /\ \A j \in 1..n : e.left[j] = l[k + j]
  BY <1>4, <1>5, <1>6, LineKinds DEF Spoken, ReadOf
<1>m. PICK m : m = Len(l)
  OBVIOUS
<1>n. m \in Nat /\ n \in 1..m /\ k = m - n
  BY <1>7, <1>m
<1>8. k \in 0..(Len(l) - 1) /\ e.left # <<>>
  <2>1. k \in 0..(m - 1)
    BY <1>n
  <2>2. Len(e.left) # 0
    BY <1>6, <1>n
  <2> QED
    BY <1>4, <1>m, <2>1, <2>2
<1>9. Token = l[k + 1]
  <2>1. Head(e.left) = e.left[1]
    BY <1>4, <1>8
  <2> QED
    BY <1>4, <1>7, <2>1 DEF Token
<1>10. CASE k + 1 = Len(l)
  <2>1. n = 1
    BY <1>m, <1>n, <1>10
  <2>2. serial' = Tail(serial)
    BY <1>1, <1>4, <1>6, <2>1 DEF LeftOver
  <2>3. /\ serial' \in Seq(Entry) /\ Len(serial') = Len(serial) - 1
        /\ \A i \in 1..Len(serial') : serial'[i] = serial[i + 1]
    BY <1>1, <2>2
  <2>4. \A i \in 1..Len(serial') : Spoken(serial'[i]) /\ serial'[i].left = serial'[i].line
    BY <1>2, <2>3 DEF IsSerial
  <2>5. IsSerial(serial')
    BY <2>3, <2>4 DEF IsSerial
  <2> QED
    BY <1>2, <1>4, <1>8, <1>9, <1>10, <2>2, <2>5 DEF Advances
<1>11. CASE k + 1 < Len(l)
  <2>0. n > 1 /\ n \in Nat
    BY <1>m, <1>n, <1>11
  <2>1. PICK t : t = Tail(e.left)
    OBVIOUS
  <2>2. PICK f : f = [line |-> l, left |-> t]
    OBVIOUS
  <2>3. t \in Seq(STRING) /\ Len(t) = n - 1 /\ \A j \in 1..(n - 1) : t[j] = e.left[j + 1]
    BY <1>4, <1>6, <1>8, <2>1
  <2>4. f \in Entry /\ f.line = l /\ f.left = t
    BY <1>4, <2>2, <2>3 DEF Entry
  <2>5. [Head(serial) EXCEPT !.left = Tail(@)] = f
    <3>1. [e EXCEPT !.left = t] = f
      BY <1>4, <2>2
    <3> QED
      BY <1>4, <2>1, <3>1
  <2>6. serial' = <<f>> \o Tail(serial)
    <3>1. Len(Head(serial).left) # 1
      <4>1. n # 1
        BY <2>0
      <4> QED
        BY <1>4, <1>6, <4>1, Zenon
    <3> QED
      BY <1>1, <2>5, <3>1, Zenon DEF LeftOver
  <2>7. /\ serial' \in Seq(Entry) /\ Len(serial') = Len(serial) /\ serial'[1] = f
        /\ \A i \in 2..Len(serial) : serial'[i] = serial[i]
    <3>1. PICK r : r = Tail(serial)
      OBVIOUS
    <3>2. r \in Seq(Entry) /\ Len(r) = Len(serial) - 1 /\ \A i \in 1..Len(r) : r[i] = serial[i + 1]
      BY <1>1, <3>1
    <3>3. <<f>> \in Seq(Entry) /\ Len(<<f>>) = 1 /\ <<f>>[1] = f
      BY <2>4
    <3>4. /\ serial' \in Seq(Entry) /\ Len(serial') = 1 + Len(r)
          /\ \A i \in 1..(1 + Len(r)) : serial'[i] = IF i <= 1 THEN <<f>>[i] ELSE r[i - 1]
      BY <2>6, <3>1, <3>2, <3>3, ConcatProperties
    <3>5. PICK z, u : z = Len(r) /\ u = serial'
      OBVIOUS
    <3>6. /\ z \in Nat /\ z = Len(serial) - 1
          /\ \A i \in 1..(1 + z) : u[i] = IF i <= 1 THEN <<f>>[i] ELSE r[i - 1]
      BY <3>2, <3>4, <3>5
    <3>7. u[1] = f
      BY <3>3, <3>6
    <3>8. ASSUME NEW i \in 2..(1 + z) PROVE u[i] = serial[i]
      <4>1. i - 1 \in 1..z /\ (i - 1) + 1 = i /\ i \in 1..(1 + z) /\ ~(i <= 1)
        BY <3>6
      <4>2. u[i] = r[i - 1]
        BY <3>6, <4>1, Zenon
      <4>3. r[i - 1] = serial[(i - 1) + 1]
        BY <3>2, <3>5, <4>1, Zenon
      <4> QED
        BY <4>1, <4>2, <4>3
    <3>9. Len(serial) = 1 + z /\ Len(serial') = Len(serial)
      BY <1>2, <3>4, <3>5, <3>6
    <3> QED
      BY <3>4, <3>5, <3>7, <3>8, <3>9
  <2>8. ReadOf(f) = k + 1 /\ Spoken(f)
    <3>1. ReadOf(f) = k + 1
      <4>1. ReadOf(f) = m - (n - 1)
        BY <1>m, <2>3, <2>4, Zenon DEF ReadOf
      <4> QED
        BY <1>n, <2>0, <4>1
    <3>2. \A j \in 1..Len(t) : t[j] = l[k + 1 + j]
      <4>1. ASSUME NEW j \in 1..(n - 1) PROVE t[j] = l[k + 1 + j]
        <5>1. j + 1 \in 1..n /\ k + (j + 1) = k + 1 + j
          BY <1>n, <2>0
        <5> QED
          BY <1>7, <2>3, <5>1
      <4> QED
        BY <2>3, <4>1
    <3>3. Len(t) \in 1..Len(l)
      BY <1>7, <2>0, <2>3
    <3> QED
      BY <2>4, <3>1, <3>2, <3>3 DEF Spoken
  <2>9. IsSerial(serial')
    BY <1>2, <2>7, <2>8 DEF IsSerial
  <2> QED
    BY <1>2, <1>4, <1>8, <1>9, <1>11, <2>4, <2>7, <2>8, <2>9 DEF Advances
<1> QED
  BY <1>7, <1>10, <1>11

-----------------------------------------------------------------------------
(* The kinds exclude each other, by their first token. *)
LEMMA KindsApart ==
    ASSUME NEW l \in Lines
    PROVE  /\ IsPacket(l) => l[1] = "+IPD"
           /\ IsNetwork(l) => l[1] = "+CWLAP"
           /\ IsConnection(l) => l[1] \in {"0", "1"} /\ Len(l) = 5
           /\ IsOther(l) => l[1] \notin {"+IPD", "+CWLAP"}
<1>1. IsOther(l) => l[1] \notin {"+IPD", "+CWLAP"}
  <2>1. SUFFICES ASSUME IsOther(l) PROVE l[1] \notin {"+IPD", "+CWLAP"}
    OBVIOUS
  <2>2. PICK n : n = Len(l)
    OBVIOUS
  <2>3. n \in Nat /\ n >= 2 /\ l[n - 1] = "CR" /\ \A k \in 1..(n - 2) : l[k] \notin Ends \cup Keywords
    BY <2>1, <2>2, LineKinds DEF IsOther, Without
  <2>4. CASE n = 2
    BY <2>3, <2>4
  <2>5. CASE n > 2
    <3>1. 1 \in 1..(n - 2)
      BY <2>3, <2>5
    <3> QED
      BY <2>3, <3>1 DEF Keywords
  <2> QED
    BY <2>3, <2>4, <2>5
<1>2. IsConnection(l) => l[1] \in {"0", "1"} /\ Len(l) = 5
  BY DEF IsConnection
<1>3. IsPacket(l) => l[1] = "+IPD"
  BY DEF IsPacket
<1>4. IsNetwork(l) => l[1] = "+CWLAP"
  BY DEF IsNetwork
<1> QED
  BY <1>1, <1>2, <1>3, <1>4

(* No connection is spoken of in a network or in any other line. *)
LEMMA NoConnection ==
    ASSUME NEW l \in Lines, IsNetwork(l) \/ IsOther(l)
    PROVE  \A k \in 1..Len(l) : l[k] \notin {"CONNECT", "CLOSED"}
<1>1. PICK n : n = Len(l)
  OBVIOUS
<1>2. n \in Nat /\ n >= 2
  BY <1>1, LineKinds
<1>3. CASE IsNetwork(l)
  <2>1. /\ n >= 6 /\ l[1] = "+CWLAP" /\ l[2] = ":" /\ l[3] = "("
        /\ l[n - 2] = ")" /\ l[n - 1] = "CR" /\ l[n] = "LF"
    BY <1>1, <1>3 DEF IsNetwork
  <2>2. \A k \in 4..(n - 3) : l[k] \notin Ends \cup Keywords \cup {":", "(", ")"}
    BY <1>1, <1>3 DEF IsNetwork, Without
  <2>3. ASSUME NEW k \in 1..n PROVE l[k] \notin {"CONNECT", "CLOSED"}
    <3>1. k \in {1, 2, 3, n - 2, n - 1, n} \/ k \in 4..(n - 3)
      BY <1>2, <2>1
    <3> QED
      BY <2>1, <2>2, <3>1 DEF Keywords
  <2> QED
    BY <1>1, <2>3
<1>4. CASE IsOther(l)
  <2>1. l[n - 1] = "CR" /\ l[n] = "LF" /\ \A k \in 1..(n - 2) : l[k] \notin Ends \cup Keywords
    BY <1>1, <1>4 DEF IsOther, Without
  <2>2. ASSUME NEW k \in 1..n PROVE l[k] \notin {"CONNECT", "CLOSED"}
    <3>1. k \in {n - 1, n} \/ k \in 1..(n - 2)
      BY <1>2
    <3> QED
      BY <2>1, <3>1 DEF Keywords
  <2> QED
    BY <1>1, <2>2
<1> QED
  BY <1>3, <1>4

Events == [code : {"incoming_packet_data"} \cup Connections, link : Digits, count : Digits]

(* What the kinds announce. *)
Announcing(l) ==
    /\ Announced(l) \in Seq(Events)
    /\ IsPacket(l) => Announced(l) = << Event("incoming_packet_data", l[3], l[5]) >>
    /\ \A link \in {"0", "1"}, word \in {"CONNECT", "CLOSED"} :
          l = <<link, "comma", word, "CR", "LF">> => Announced(l) = << Event(CodeFor(word), link, "0") >>
    /\ IsNetwork(l) \/ IsOther(l) => Announced(l) = <<>>

LEMMA Announcements == ASSUME NEW l \in Lines PROVE Announcing(l)
<1>1. l \in Seq(STRING) /\ Len(l) \in Nat /\ Len(l) >= 2 /\ Head(l) = l[1]
  BY LineKinds
<1>2. /\ \A a, b, c : Event(a, b, c) = [code |-> a, link |-> b, count |-> c]
      /\ \A a \in {"incoming_packet_data"} \cup Connections, b, c \in Digits : Event(a, b, c) \in Events
  BY DEF Event, Events
<1>3. CASE IsPacket(l)
  <2>1. Announced(l) = << Event("incoming_packet_data", l[3], l[5]) >>
    <3>1. PICK n : n = Len(l)
      OBVIOUS
    <3>2. /\ n >= 7 /\ n \in Nat /\ l[1] = "+IPD" /\ l[2] = "comma" /\ l[4] = "comma"
          /\ l[3] \in Digits /\ l[5] \in Digits /\ l[6] \in {"CR", "comma"} /\ l[n] \in {"LF", ":"}
      BY <1>1, <1>3, <3>1 DEF IsPacket
    <3>3. \A k \in 7..(n - 1) : l[k] \notin Keywords
      BY <1>3, <3>1, <3>2 DEF IsPacket, Without
    <3>4. ASSUME NEW k \in 1..n PROVE l[k] \notin {"CONNECT", "CLOSED"}
      <4>1. k \in {1, 2, 3, 4, 5, 6, n} \/ k \in 7..(n - 1)
        BY <3>2
      <4> QED
        BY <3>2, <3>3, <4>1 DEF Keywords, Digits
    <3>5. Head(l) = "+IPD" /\ ~Contains(l, "CONNECT") /\ ~Contains(l, "CLOSED")
      BY <1>1, <3>1, <3>2, <3>4 DEF Contains
    <3> QED
      BY <3>5 DEF Announced
  <2>2. l[3] \in Digits /\ l[5] \in Digits
    BY <1>3 DEF IsPacket
  <2>3. Announced(l) \in Seq(Events)
    BY <1>2, <2>1, <2>2
  <2> QED
    BY <1>3, <2>1, <2>3, KindsApart DEF Announcing
<1>4. ASSUME NEW link \in {"0", "1"}, NEW word \in {"CONNECT", "CLOSED"},
             l = <<link, "comma", word, "CR", "LF">>
      PROVE  Announced(l) = << Event(CodeFor(word), link, "0") >>
  <2>1. Len(l) = 5 /\ l[1] = link /\ l[2] = "comma" /\ l[3] = word /\ l[4] = "CR" /\ l[5] = "LF"
    BY <1>4
  <2>2. Head(l) # "+IPD" /\ Head(l) = link
    BY <1>1, <2>1
  <2>3. CASE word = "CONNECT"
    <3>1. Contains(l, "CONNECT")
      BY <2>1, <2>3 DEF Contains
    <3>2. ~Contains(l, "CLOSED")
      <4>1. \A i \in 1..5 : l[i] # "CLOSED"
        BY <2>1, <2>3
      <4> QED
        BY <2>1, <4>1 DEF Contains
    <3> QED
      BY <2>2, <2>3, <3>1, <3>2 DEF Announced, CodeFor
  <2>4. CASE word = "CLOSED"
    <3>1. Contains(l, "CLOSED")
      BY <2>1, <2>4 DEF Contains
    <3>2. ~Contains(l, "CONNECT")
      <4>1. \A i \in 1..5 : l[i] # "CONNECT"
        BY <2>1, <2>4
      <4> QED
        BY <2>1, <4>1 DEF Contains
    <3> QED
      BY <2>2, <2>4, <3>1, <3>2 DEF Announced, CodeFor
  <2> QED
    BY <2>3, <2>4
<1>5. CASE IsConnection(l)
  <2>1. PICK link \in {"0", "1"}, word \in {"CONNECT", "CLOSED"} : l = <<link, "comma", word, "CR", "LF">>
    BY <1>5 DEF IsConnection
  <2>2. Announced(l) \in Seq(Events)
    <3>1. CodeFor(word) \in Connections /\ link \in Digits /\ "0" \in Digits
      BY DEF CodeFor, Connections, Digits
    <3>2. Event(CodeFor(word), link, "0") \in Events
      BY <1>2, <3>1
    <3>3. Announced(l) = << Event(CodeFor(word), link, "0") >>
      BY <1>4, <2>1
    <3> QED
      BY <3>2, <3>3
  <2>3. l[1] \in {"0", "1"} /\ ~IsPacket(l) /\ ~IsNetwork(l) /\ ~IsOther(l)
    <3>1. l[3] \in {"CONNECT", "CLOSED"} /\ Len(l) = 5
      BY <2>1
    <3> QED
      BY <1>5, <3>1, KindsApart, NoConnection
  <2> QED
    BY <1>4, <2>2, <2>3, Zenon DEF Announcing
<1>6. CASE IsNetwork(l) \/ IsOther(l)
  <2>1. Head(l) # "+IPD"
    BY <1>1, <1>6, KindsApart
  <2>2. ~Contains(l, "CONNECT") /\ ~Contains(l, "CLOSED")
    BY <1>6, NoConnection DEF Contains
  <2>3. Announced(l) = <<>>
    BY <2>1, <2>2 DEF Announced
  <2> QED
    BY <1>4, <1>6, <2>3, KindsApart DEF Announcing
<1> QED
  BY <1>3, <1>5, <1>6, LineKinds

-----------------------------------------------------------------------------
(* The event of a packet is queued when its number has been read, with the *)
(* line feed still to come; all others when the line has been read.        *)
OwedAt(l, k) == IF IsPacket(l) /\ l[6] = "CR" /\ k = 6 THEN <<>> ELSE Announced(l)
Owes(e)      == OwedAt(e.line, ReadOf(e))

(* The queue q and what the lines of s still owe make up the events a; p   *)
(* holds what the queue will be after each of the lines.                   *)
Accounts(p, q, s, a) ==
    /\ \A i \in 0..Len(s) : p[i] \in Seq(Events)
    /\ p[0] = q /\ p[Len(s)] = a
    /\ \A i \in 1..Len(s) : p[i] = p[i - 1] \o Owes(s[i])

Balanced(q, s, a) == \E p : Accounts(p, q, s, a)

(* What is owed is a list of events. *)
LEMMA OwesEvents == ASSUME NEW e \in Entry PROVE Owes(e) \in Seq(Events)
<1>1. e.line \in Lines
  BY DEF Entry
<1> QED
  BY <1>1, Announcements DEF Owes, OwedAt, Announcing

(* When all is read the queue holds the events. *)
LEMMA BalancedAtEnd == ASSUME NEW q, NEW a, Balanced(q, <<>>, a) PROVE q = a
BY DEF Balanced, Accounts

(* A line that is said is owed. *)
LEMMA BalancedSaid ==
    ASSUME NEW q, NEW s, IsSerial(s), NEW a, Balanced(q, s, a),
           NEW l \in Lines, NEW e, e = [line |-> l, left |-> l]
    PROVE  Balanced(q, Append(s, e), a \o Announced(l))
<1>1. PICK p : Accounts(p, q, s, a)
  BY DEF Balanced
<1>2. s \in Seq(Entry) /\ l \in Seq(STRING)
  BY LineKinds DEF IsSerial
<1>3. e \in Entry /\ e.line = l /\ e.left = l
  BY <1>2 DEF Entry
<1>4. PICK n : n = Len(s)
  OBVIOUS
<1>5. PICK t : t = Append(s, e)
  OBVIOUS
<1>6. n \in Nat /\ Len(t) = n + 1 /\ t[n + 1] = e /\ \A i \in 1..n : t[i] = s[i]
  BY <1>2, <1>3, <1>4, <1>5
<1>7. Owes(e) = Announced(l)
  <2>1. ReadOf(e) = 0
    BY <1>2, <1>3 DEF ReadOf
  <2> QED
    BY <1>3, <2>1 DEF Owes, OwedAt
<1>8. PICK x : x = a \o Announced(l)
  OBVIOUS
<1>9. /\ \A i \in 0..n : p[i] \in Seq(Events)
      /\ p[0] = q /\ p[n] = a
      /\ \A i \in 1..n : p[i] = p[i - 1] \o Owes(s[i])
  BY <1>1, <1>4 DEF Accounts
<1>10. x \in Seq(Events)
  <2>1. a \in Seq(Events) /\ Announced(l) \in Seq(Events)
    BY <1>6, <1>9, Announcements DEF Announcing
  <2> QED
    BY <1>8, <2>1
<1>11. PICK r : r = [i \in 0..(n + 1) |-> IF i = n + 1 THEN x ELSE p[i]]
  OBVIOUS
<1>12. r[n + 1] = x /\ \A i \in 0..n : r[i] = p[i]
  BY <1>6, <1>11
<1>13. \A i \in 0..(n + 1) : r[i] \in Seq(Events)
  BY <1>6, <1>9, <1>10, <1>12
<1>14. r[0] = q
  BY <1>6, <1>9, <1>12
<1>15. ASSUME NEW i \in 1..(n + 1) PROVE r[i] = r[i - 1] \o Owes(t[i])
  <2>1. CASE i = n + 1
    <3>1. i - 1 = n /\ n \in 0..n
      BY <1>6, <2>1
    <3>2. r[i - 1] = a /\ r[i] = x /\ t[i] = e
      BY <1>6, <1>9, <1>12, <2>1, <3>1
    <3> QED
      BY <1>7, <1>8, <3>2, Zenon
  <2>2. CASE i # n + 1
    <3>1. i \in 1..n /\ i \in 0..n /\ i - 1 \in 0..n
      BY <1>6, <1>15, <2>2
    <3> QED
      BY <1>6, <1>9, <1>12, <3>1
  <2> QED
    BY <2>1, <2>2
<1>16. Accounts(r, q, t, x)
  BY <1>6, <1>12, <1>13, <1>14, <1>15 DEF Accounts
<1> QED
  BY <1>5, <1>8, <1>16 DEF Balanced

(* A token that is read pays what its line owes, or leaves it owing.       *)
Pays(q, r, s, t, l, k) ==
    /\ IsSerial(s) /\ Len(s) >= 1 /\ Advances(t, s, l, k)
    /\ Len(l) \in Nat /\ k \in 0..(Len(l) - 1) /\ r \in Seq(Events)
    /\ k + 1 = Len(l) => r = q \o Owes(s[1])
    /\ k + 1 < Len(l) => r \o Owes(t[1]) = q \o Owes(s[1])

LEMMA BalancedRead ==
    ASSUME NEW q, NEW r, NEW s, NEW t, NEW a, NEW l, NEW k,
           Balanced(q, s, a), Pays(q, r, s, t, l, k)
    PROVE  Balanced(r, t, a)
<1>0. /\ IsSerial(s) /\ Len(s) >= 1 /\ Advances(t, s, l, k)
      /\ Len(l) \in Nat /\ k \in 0..(Len(l) - 1) /\ r \in Seq(Events)
      /\ k + 1 = Len(l) => r = q \o Owes(s[1])
      /\ k + 1 < Len(l) => r \o Owes(t[1]) = q \o Owes(s[1])
  BY DEF Pays
<1>1. PICK p : Accounts(p, q, s, a)
  BY DEF Balanced
<1>2. s \in Seq(Entry)
  BY <1>0 DEF IsSerial
<1>3. PICK n : n = Len(s)
  OBVIOUS
<1>4. n \in Nat /\ n >= 1
  BY <1>0, <1>2, <1>3
<1>5. /\ \A i \in 0..n : p[i] \in Seq(Events)
      /\ p[0] = q /\ p[n] = a
      /\ \A i \in 1..n : p[i] = p[i - 1] \o Owes(s[i])
  BY <1>1, <1>3 DEF Accounts
<1>6. p[1] = q \o Owes(s[1])
  <2>1. 1 \in 1..n /\ 1 - 1 = 0
    BY <1>4
  <2> QED
    BY <1>5, <2>1
<1>7. CASE k + 1 = Len(l)
  <2>1. r = p[1] /\ t = Tail(s)
    BY <1>0, <1>6, <1>7 DEF Advances
  <2>2. Len(t) = n - 1 /\ \A i \in 1..(n - 1) : t[i] = s[i + 1]
    BY <1>2, <1>3, <1>4, <2>1
  <2>3. PICK g : g = [i \in 0..(n - 1) |-> p[i + 1]]
    OBVIOUS
  <2>4. \A i \in 0..(n - 1) : g[i] = p[i + 1] /\ i + 1 \in 1..n /\ i + 1 \in 0..n
    BY <1>4, <2>3
  <2>5. \A i \in 0..(n - 1) : g[i] \in Seq(Events)
    BY <1>5, <2>4
  <2>6. g[0] = r /\ g[n - 1] = a
    <3>1. 0 \in 0..(n - 1) /\ 0 + 1 = 1 /\ n - 1 \in 0..(n - 1) /\ (n - 1) + 1 = n
      BY <1>4
    <3> QED
      BY <1>5, <2>1, <2>4, <3>1
  <2>7. ASSUME NEW i \in 1..(n - 1) PROVE g[i] = g[i - 1] \o Owes(t[i])
    <3>1. i \in 0..(n - 1) /\ i - 1 \in 0..(n - 1) /\ (i - 1) + 1 = i /\ i + 1 \in 1..n /\ (i + 1) - 1 = i
      BY <1>4
    <3>2. p[i + 1] = p[(i + 1) - 1] \o Owes(s[i + 1])
      BY <1>5, <3>1, Zenon
    <3>3. g[i] = p[i + 1] /\ g[i - 1] = p[(i - 1) + 1]
      BY <2>4, <3>1, Zenon
    <3> QED
      BY <2>2, <3>1, <3>2, <3>3
  <2>8. Accounts(g, r, t, a)
    BY <2>2, <2>5, <2>6, <2>7 DEF Accounts
  <2> QED
    BY <2>8 DEF Balanced
<1>8. CASE k + 1 < Len(l)
  <2>1. Len(t) = n /\ (\A i \in 2..n : t[i] = s[i]) /\ p[1] = r \o Owes(t[1])
    BY <1>0, <1>3, <1>6, <1>8 DEF Advances
  <2>2. PICK g : g = [i \in 0..n |-> IF i = 0 THEN r ELSE p[i]]
    OBVIOUS
  <2>3. g[0] = r /\ \A i \in 1..n : g[i] = p[i]
    BY <1>4, <2>2
  <2>4. \A i \in 0..n : g[i] \in Seq(Events)
    BY <1>0, <1>4, <1>5, <2>3
  <2>5. g[n] = a
    BY <1>4, <1>5, <2>3
  <2>6. ASSUME NEW i \in 1..n PROVE g[i] = g[i - 1] \o Owes(t[i])
    <3>1. CASE i = 1
      <4>1. i - 1 = 0 /\ 1 \in 1..n
        BY <1>4, <3>1
      <4> QED
        BY <2>1, <2>3, <3>1, <4>1
    <3>2. CASE i # 1
      <4>1. i \in 2..n /\ i - 1 \in 1..n
        BY <1>4, <3>2
      <4>2. g[i] = p[i] /\ g[i - 1] = p[i - 1] /\ t[i] = s[i]
        BY <2>1, <2>3, <4>1
      <4> QED
        BY <1>5, <4>2, Zenon
    <3> QED
      BY <3>1, <3>2
  <2>7. Accounts(g, r, t, a)
    BY <2>1, <2>3, <2>4, <2>5, <2>6 DEF Accounts
  <2> QED
    BY <2>7 DEF Balanced
<1> QED
  BY <1>0, <1>7, <1>8

-----------------------------------------------------------------------------
(* No event has begun at the end of the ring. *)
Quiet(r) == /\ IsRing(r)
            /\ r.size >= 1 => FromBack(r, 1) \notin Keywords
            /\ r.size >= 2 => FromBack(r, 2) \notin {"CONNECT", "CLOSED"}

(* The ring ends with the first k tokens of the line l. *)
Holds(r, l, k) == r.size >= k /\ \A j \in 1..k : FromBack(r, j) = l[k + 1 - j]

(* wait() has read k tokens of the line l: none that begins an event, or   *)
(* those of one that is then at the end of the ring.                       *)
InRing(l, k) ==
    \/ /\ Quiet(ring)
       /\ \/ k = 0 \/ IsOther(l) \/ (IsNetwork(l) /\ k >= 2)
          \/ IsPacket(l) /\ l[6] = "CR" /\ k = 6
    \/ (IsNetwork(l) \/ IsPacket(l)) /\ k = 1 /\ Holds(ring, l, k)
    \/ IsConnection(l) /\ k \in 1..4 /\ Holds(ring, l, k)

(* The parser of +IPD has: the number of the link first, then the length.  *)
InPacket(l, k) ==
    /\ IsPacket(l) /\ k \in 2..(Len(l) - 1) /\ (k >= 6 => l[6] # "CR")
    /\ k \in {2, 3} => parser.fields = <<>>
    /\ k \in {4, 5} => parser.fields = <<l[3]>>
    /\ k >= 6 => /\ parser.fields \in Seq(Digits) /\ Len(parser.fields) >= 2
                 /\ parser.fields[1] = l[3] /\ parser.fields[2] = l[5]
    /\ k \in {2, 4} => parser.text = <<>>
    /\ k \in {3, 5} => parser.text = <<l[k]>>

(* The parser of +CWLAP has: a field for each comma, and the record holds  *)
(* all of them but the first.                                              *)
Listed(l, k) ==
    LET n == CommasIn(l, k) IN
    /\ parser.fields \in Seq({"seen"}) /\ Len(parser.fields) = n
    /\ FieldsIn(l, k) \in {n, n + 1}
    /\ n >= 1 /\ FieldsIn(l, k) = n => parser.text = <<>>
    /\ \A j \in 1..k :
          l[j] \notin Punctuation /\ FieldsIn(l, j) >= 2 =>
              /\ FieldsIn(l, j) = n + 1 => parser.text = <<l[j]>>
              /\ FieldsIn(l, j) <= n => ap[FieldsIn(l, j)] = <<l[j]>>

InNetwork(l, k) ==
    /\ IsNetwork(l) /\ k \in 2..(Len(l) - 3)
    /\ k > 2 => Listed(l, k)

(* Between two lines, and within one.                                      *)
Calm == reading.pc \in {"idle", "wait"} /\ Quiet(ring) /\ parser = NoParser

Phase(l, k) ==
    \/ k = 0 /\ Calm
    \/ k > 0 /\ reading.pc = "wait" /\ parser = NoParser /\ InRing(l, k)
    \/ k > 0 /\ reading.pc = "packet" /\ Quiet(ring) /\ InPacket(l, k)
    \/ k > 0 /\ reading.pc = "network" /\ Quiet(ring) /\ InNetwork(l, k)

AtPhase == IF serial = <<>> THEN Calm
           ELSE Phase(serial[1].line, ReadOf(serial[1]))

(* The variables that the steps of the parsers rely on have their shape.   *)
Shaped ==
    /\ reading = [pc |-> reading.pc, expects |-> reading.expects]
    /\ reading.expects \subseteq Sought \cup {"query_access_point"}
    /\ parser = [fields |-> parser.fields, text |-> parser.text]
    /\ ap = [f \in ApFields |-> ap[f]] /\ IsRing(ring) /\ queue \in Seq(Events)

(* Until a timeout cuts a line. *)
Straight == IsSerial(serial) /\ AtPhase /\ Balanced(queue, serial, saidEvents) /\ Shaped

AtInv == cut \in BOOLEAN /\ misread = FALSE /\ (~cut => Straight)

(* The same of the variables. *)
LEMMA StillBalanced ==
    ASSUME NEW l, NEW k, Balanced(queue, serial, saidEvents), Pays(queue, queue', serial, serial', l, k)
    PROVE  Balanced(queue', serial', saidEvents)
BY BalancedRead, Zenon

(* A token is read as it should be, if the phase that follows is right and *)
(* the queue gets what is owed.                                            *)
LEMMA StraightOn ==
    ASSUME Straight, Read, NEW l, l = serial[1].line, NEW k, k = ReadOf(serial[1]), Shaped',
           k + 1 = Len(l) => Calm' /\ queue' = queue \o OwedAt(l, k),
           k + 1 < Len(l) => Phase(l, k + 1)' /\ queue' \o OwedAt(l, k + 1) = queue \o OwedAt(l, k)
    PROVE  Straight'
<1>1. IsSerial(serial) /\ Balanced(queue, serial, saidEvents)
  BY DEF Straight
<1>2. /\ Len(serial) >= 1 /\ l \in Lines /\ k \in 0..(Len(l) - 1)
      /\ Advances(serial', serial, l, k) /\ saidEvents' = saidEvents
  BY <1>1, ReadToken DEF Read
<1>3. Len(l) \in Nat /\ IsSerial(serial')
  BY <1>2, LineKinds DEF Advances
<1>4. queue' \in Seq(Events)
  BY DEF Shaped
<1>5. Owes(serial[1]) = OwedAt(l, k)
  BY DEF Owes
<1>6. k + 1 < Len(l) => serial'[1].line = l /\ ReadOf(serial'[1]) = k + 1 /\ Len(serial') >= 1
  BY <1>2 DEF Advances
<1>7. Balanced(queue', serial', saidEvents')
  <2>1. k + 1 = Len(l) => queue' = queue \o Owes(serial[1])
    BY <1>5
  <2>2. k + 1 < Len(l) => queue' \o Owes(serial'[1]) = queue \o Owes(serial[1])
    BY <1>5, <1>6 DEF Owes
  <2>3. Balanced(queue', serial', saidEvents)
    <3>1. Pays(queue, queue', serial, serial', l, k)
      BY <1>1, <1>2, <1>3, <1>4, <2>1, <2>2 DEF Pays
    <3> QED
      BY <1>1, <3>1, StillBalanced
  <2> QED
    BY <1>2, <2>3
<1>8. serial' \in Seq(Entry)
  BY <1>3 DEF IsSerial
<1>9. CASE k + 1 = Len(l)
  <2>1. Calm'
    BY <1>9
  <2>2. ASSUME serial' # <<>> PROVE ReadOf(serial'[1]) = 0
    <3>1. serial' = Tail(serial) /\ serial \in Seq(Entry)
      BY <1>1, <1>2, <1>9 DEF Advances, IsSerial
    <3>2. Len(serial') >= 1 /\ serial'[1] = serial[2] /\ 2 \in 1..Len(serial)
      BY <1>8, <2>2, <3>1
    <3>3. serial[2].left = serial[2].line /\ serial[2] \in Entry
      BY <1>1, <3>1, <3>2 DEF IsSerial
    <3>4. Len(serial[2].line) \in Nat
      BY <3>3, LineKinds DEF Entry
    <3> QED
      BY <3>2, <3>3, <3>4 DEF ReadOf
  <2>3. AtPhase'
    BY <2>1, <2>2 DEF AtPhase, Phase
  <2> QED
    BY <1>3, <1>7, <2>3, Zenon DEF Straight
<1>10. CASE k + 1 < Len(l)
  <2>1. serial' # <<>>
    BY <1>6, <1>10
  <2>2. AtPhase'
    BY <1>6, <1>10, <2>1, Zenon DEF AtPhase
  <2> QED
    BY <1>3, <1>7, <2>2, Zenon DEF Straight
<1> QED
  BY <1>2, <1>3, <1>9, <1>10

(* What a token of a quiet ring can match. *)
LEMMA QuietPush ==
    ASSUME NEW r, Quiet(r), NEW t, NEW q, Pushed(q, r, t)
    PROVE  /\ \A row : Effects(q, row) =>
                CodeOf(row) \notin {"incoming_packet_data", "query_access_point"} \cup Connections
           /\ t \notin Keywords => Quiet(q)
<1>1. /\ RingSize \in Nat /\ RingSize >= 5 /\ r.size \in 0..RingSize
      /\ q.size = (IF r.size < RingSize THEN r.size + 1 ELSE RingSize)
  <2>1. IsRing(r)
    BY DEF Quiet
  <2>2. r.size \in 0..RingSize
    BY <2>1 DEF IsRing
  <2> QED
    BY <2>2, AtAssumption DEF Pushed
<1>2. FromBack(q, 1) = t /\ IsRing(q) /\ \A j \in 1..(q.size - 1) : FromBack(q, j + 1) = FromBack(r, j)
  BY DEF Pushed
<1>3. q.size >= 2 => FromBack(q, 2) \notin Keywords
  <2>1. q.size >= 2 => 1 \in 1..(q.size - 1) /\ r.size >= 1
    BY <1>1
  <2>2. q.size >= 2 => FromBack(q, 1 + 1) = FromBack(r, 1)
    BY <1>2, <2>1
  <2>3. q.size >= 2 => FromBack(q, 2) = FromBack(r, 1)
    BY <2>2
  <2> QED
    BY <2>1, <2>3 DEF Quiet
<1>4. q.size >= 3 => FromBack(q, 3) \notin {"CONNECT", "CLOSED"}
  <2>1. q.size >= 3 => 2 \in 1..(q.size - 1) /\ r.size >= 2
    BY <1>1
  <2>2. q.size >= 3 => FromBack(q, 2 + 1) = FromBack(r, 2)
    BY <1>2, <2>1
  <2>3. q.size >= 3 => FromBack(q, 3) = FromBack(r, 2)
    BY <2>2
  <2> QED
    BY <2>1, <2>3 DEF Quiet
<1>5. ASSUME NEW row, Effects(q, row)
      PROVE  CodeOf(row) \notin {"incoming_packet_data", "query_access_point"} \cup Connections
  <2>1. q.size \in Nat
    BY <1>1
  <2> QED
    BY <1>3, <1>4, <1>5, <2>1 DEF Effects, Keywords
<1>6. t \notin Keywords => Quiet(q)
  BY <1>2, <1>3 DEF Quiet, Keywords
<1> QED
  BY <1>5, <1>6

(* What wait() does with a token, by the row that decides.                 *)
Matched(q, row) ==
    \/ /\ CodeOf(row) \in reading.expects /\ CodeOf(row) = "query_access_point"
       /\ reading' = [reading EXCEPT !.pc = "network"] /\ ap' = ap
       /\ ring' = EmptyRing /\ parser' = parser /\ queue' = queue
    \/ /\ CodeOf(row) \in reading.expects /\ CodeOf(row) # "query_access_point"
       /\ Return /\ queue' = queue
    \/ /\ CodeOf(row) \notin reading.expects /\ ring' = q
       /\ \/ /\ CodeOf(row) = "incoming_packet_data"
             /\ reading' = [reading EXCEPT !.pc = "packet"] /\ ap' = ap
             /\ parser' = parser /\ queue' = queue
          \/ /\ CodeOf(row) \in Connections
             /\ queue' = Append(queue, Event(CodeOf(row), Head(Table[row].text), "0"))
             /\ reading' = reading /\ parser' = parser /\ ap' = ap
          \/ /\ CodeOf(row) \notin Connections /\ CodeOf(row) # "incoming_packet_data"
             /\ reading' = reading /\ parser' = parser /\ ap' = ap /\ queue' = queue

LEMMA MatchDecides ==
    ASSUME Match, IsRing(ring)
    PROVE  /\ Read /\ reading.pc = "wait" /\ misread' = misread
           /\ \E q, row : Pushed(q, ring, Token) /\ Effects(q, row) /\ Matched(q, row)
<1>1. Read /\ reading.pc = "wait" /\ misread' = misread
  BY DEF Match
<1>2. PICK q : q = PushBack(ring, Token)
  OBVIOUS
<1>3. PICK row : row = SelectInSeq(Table, LAMBDA r : EndsWith(q, r.text))
  OBVIOUS
<1>4. Pushed(q, ring, Token)
  BY <1>2, PushKeeps, Zenon
<1>5. IsRing(q)
  BY <1>4 DEF Pushed
<1>6. Effects(q, row)
  BY <1>3, <1>5, RowDecides, RowEffects, Zenon
<1>7. Matched(q, row)
  <2>1. PICK code : code = CodeOf(row)
    OBVIOUS
  <2>2. \/ /\ code \in reading.expects /\ code = "query_access_point"
           /\ Parse("network") /\ ring' = EmptyRing /\ UNCHANGED <<parser, queue>>
        \/ /\ code \in reading.expects /\ code # "query_access_point"
           /\ Return /\ UNCHANGED queue
        \/ /\ code \notin reading.expects /\ ring' = q
           /\ \/ code = "incoming_packet_data" /\ Parse("packet") /\ UNCHANGED <<parser, queue>>
              \/ /\ code \in {"network_connected", "network_disconnected"}
                 /\ queue' = Append(queue, Event(code, Head(Table[row].text), "0"))
                 /\ UNCHANGED <<reading, parser, ap>>
              \/ /\ code \notin {"incoming_packet_data", "network_connected",
                                 "network_disconnected"}
                 /\ UNCHANGED <<reading, parser, ap, queue>>
    BY <1>2, <1>3, <2>1 DEF Match, CodeOf
  <2> QED
    BY <2>1, <2>2 DEF Matched, Parse, Connections
<1> QED
  BY <1>1, <1>4, <1>6, <1>7

(* What a token that is read has to leave behind. *)
GoesOn(l, k) ==
    /\ Shaped'
    /\ k + 1 = Len(l) => Calm' /\ queue' = queue \o OwedAt(l, k)
    /\ k + 1 < Len(l) => Phase(l, k + 1)' /\ queue' \o OwedAt(l, k + 1) = queue \o OwedAt(l, k)

(* What is at the end of the ring is followed by the next token. *)
LEMMA HoldsOn ==
    ASSUME NEW r, IsRing(r), NEW q, NEW l, NEW k \in 0..4, Holds(r, l, k), Pushed(q, r, l[k + 1])
    PROVE  Holds(q, l, k + 1)
<1>1. RingSize \in Nat /\ RingSize >= 5 /\ r.size \in 0..RingSize /\ r.size >= k
  BY AtAssumption DEF IsRing, Holds
<1>2. q.size = IF r.size < RingSize THEN r.size + 1 ELSE RingSize
  BY DEF Pushed
<1>3. q.size >= k + 1 /\ q.size \in Nat
  BY <1>1, <1>2
<1>4. ASSUME NEW j \in 1..(k + 1) PROVE FromBack(q, j) = l[(k + 1) + 1 - j]
  <2>1. CASE j = 1
    <3>1. (k + 1) + 1 - j = k + 1
      BY <2>1
    <3> QED
      BY <2>1, <3>1 DEF Pushed
  <2>2. CASE j # 1
    <3>1. PICK i : i = j - 1
      OBVIOUS
    <3>2. i \in 1..k /\ i \in 1..(q.size - 1) /\ j = i + 1 /\ (k + 1) + 1 - j = k + 1 - i
      BY <1>3, <1>4, <2>2, <3>1
    <3>3. FromBack(q, i + 1) = FromBack(r, i) /\ FromBack(r, i) = l[k + 1 - i]
      BY <3>2 DEF Pushed, Holds
    <3> QED
      BY <3>2, <3>3
  <2> QED
    BY <2>1, <2>2
<1> QED
  BY <1>3, <1>4 DEF Holds

(* An empty ring is quiet. *)
LEMMA EmptyIsQuiet == Quiet(EmptyRing)
<1>1. EmptyRing.size = 0
  BY DEF EmptyRing
<1> QED
  BY <1>1, EmptyIsRing DEF Quiet

(* Where a row queues nothing and calls no parser, the ring goes on or the *)
(* task returns, and that only at the end of a line.                       *)
LEMMA MatchedQuietly ==
    ASSUME Shaped, reading.pc = "wait", parser = NoParser,
           NEW q, NEW row, IsRing(q), Effects(q, row), Matched(q, row),
           CodeOf(row) \notin {"incoming_packet_data", "query_access_point"} \cup Connections
    PROVE  /\ Shaped' /\ queue' = queue /\ parser' = NoParser
           /\ \/ ring' = EmptyRing /\ reading'.pc = "idle" /\ FromBack(q, 1) = "LF"
              \/ ring' = q /\ reading'.pc = "wait"
<1>1. reading.expects \subseteq Sought \cup {"query_access_point"}
  BY DEF Shaped
<1>2. CASE CodeOf(row) \in reading.expects
  <2>1. Return /\ queue' = queue
    BY <1>2 DEF Matched
  <2>2. FromBack(q, 1) = "LF"
    BY <1>1, <1>2 DEF Effects
  <2>3. ring' = EmptyRing /\ parser' = NoParser /\ ap' = Unknown /\ reading' = [pc |-> "idle", expects |-> {}]
    BY <2>1 DEF Return
  <2>4. Shaped'
    <3>1. IsRing(ring')
      BY <2>3, EmptyIsRing
    <3>2. queue' \in Seq(Events)
      BY <2>1 DEF Shaped
    <3>3. ap' = [f \in ApFields |-> ap'[f]]
      BY <2>3 DEF Unknown
    <3>4. parser' = [fields |-> parser'.fields, text |-> parser'.text]
      BY <2>3 DEF NoParser
    <3>5. reading' = [pc |-> reading'.pc, expects |-> reading'.expects] /\ reading'.expects = {}
      BY <2>3
    <3> QED
      BY <3>1, <3>2, <3>3, <3>4, <3>5 DEF Shaped
  <2> QED
    BY <2>1, <2>2, <2>3, <2>4
<1>3. CASE CodeOf(row) \notin reading.expects
  <2>1. ring' = q /\ reading' = reading /\ parser' = parser /\ ap' = ap /\ queue' = queue
    BY <1>3 DEF Matched
  <2>2. Shaped'
    BY <2>1 DEF Shaped
  <2> QED
    BY <2>1, <2>2
<1> QED
  BY <1>2, <1>3

(* The line feed is the last token of a line. *)
LEMMA FeedIsLast ==
    ASSUME NEW l \in Lines
    PROVE  /\ \A j \in 1..(Len(l) - 1) : l[j] # "LF"
           /\ IsConnection(l) \/ IsNetwork(l) \/ IsOther(l) \/ (IsPacket(l) /\ l[6] = "CR") => l[Len(l)] = "LF"
           /\ IsPacket(l) /\ l[6] = "CR" => Len(l) = 7
<1>1. PICK n : n = Len(l)
  OBVIOUS
<1>2. n \in Nat /\ n >= 2
  BY <1>1, LineKinds
<1>3. CASE IsConnection(l)
  <2>1. PICK link \in {"0", "1"}, word \in {"CONNECT", "CLOSED"} : l = <<link, "comma", word, "CR", "LF">>
    BY <1>3 DEF IsConnection
  <2>2. Len(l) = 5 /\ l[1] = link /\ l[2] = "comma" /\ l[3] = word /\ l[4] = "CR" /\ l[5] = "LF"
    BY <2>1
  <2> QED
    BY <2>2, KindsApart, <1>3
<1>4. CASE IsPacket(l)
  <2>1. /\ n >= 7 /\ l[1] = "+IPD" /\ l[2] = "comma" /\ l[4] = "comma"
        /\ l[3] \in Digits /\ l[5] \in Digits
        /\ \/ n = 7 /\ l[6] = "CR" /\ l[7] = "LF"
           \/ l[6] = "comma" /\ \A k \in 7..(n - 1) : l[k] \notin Ends
    BY <1>1, <1>4 DEF IsPacket, Without
  <2>2. ASSUME NEW j \in 1..(n - 1) PROVE l[j] # "LF"
    <3>1. j \in {1, 2, 3, 4, 5, 6} \/ j \in 7..(n - 1)
      BY <1>2
    <3> QED
      BY <1>2, <2>1, <3>1 DEF Digits, Ends
  <2> QED
    BY <1>1, <1>4, <2>1, <2>2, KindsApart
<1>5. CASE IsNetwork(l)
  <2>1. /\ n >= 6 /\ l[1] = "+CWLAP" /\ l[2] = ":" /\ l[3] = "("
        /\ l[n - 2] = ")" /\ l[n - 1] = "CR" /\ l[n] = "LF"
        /\ \A k \in 4..(n - 3) : l[k] \notin Ends
    BY <1>1, <1>5 DEF IsNetwork, Without
  <2>2. ASSUME NEW j \in 1..(n - 1) PROVE l[j] # "LF"
    <3>1. j \in {1, 2, 3, n - 2, n - 1} \/ j \in 4..(n - 3)
      BY <1>2
    <3> QED
      BY <1>2, <2>1, <3>1 DEF Ends
  <2>3. ~IsPacket(l)
    BY <1>5, KindsApart
  <2> QED
    BY <1>1, <2>1, <2>2, <2>3
<1>6. CASE IsOther(l)
  <2>1. l[n - 1] = "CR" /\ l[n] = "LF" /\ \A k \in 1..(n - 2) : l[k] \notin Ends
    BY <1>1, <1>6 DEF IsOther, Without
  <2>2. ASSUME NEW j \in 1..(n - 1) PROVE l[j] # "LF"
    <3>1. j = n - 1 \/ j \in 1..(n - 2)
      BY <1>2
    <3> QED
      BY <2>1, <3>1 DEF Ends
  <2>3. ~IsPacket(l)
    BY <1>6, KindsApart
  <2> QED
    BY <1>1, <2>1, <2>2, <2>3
<1> QED
  BY <1>3, <1>4, <1>5, <1>6, LineKinds

(* What has been read of the line l, and what the next token makes of it.  *)
Matching(l, k, q, row) ==
    /\ l \in Lines /\ k \in 0..(Len(l) - 1)
    /\ Shaped /\ reading.pc = "wait" /\ parser = NoParser
    /\ Pushed(q, ring, l[k + 1]) /\ Effects(q, row) /\ Matched(q, row)

(* No line holds the word of an event but at its place. *)
LEMMA NoKeyword ==
    ASSUME NEW l \in Lines, NEW k \in 0..(Len(l) - 1),
           IsOther(l) \/ (IsNetwork(l) /\ k >= 2) \/ (IsPacket(l) /\ l[6] = "CR" /\ k = 6)
    PROVE  l[k + 1] \notin Keywords
<1>1. PICK n : n = Len(l)
  OBVIOUS
<1>2. n \in Nat /\ n >= 2 /\ k \in 0..(n - 1)
  BY <1>1, LineKinds
<1>3. CASE IsPacket(l) /\ l[6] = "CR" /\ k = 6
  <2>1. Len(l) = 7 /\ l[Len(l)] = "LF"
    BY <1>3, FeedIsLast
  <2> QED
    BY <1>3, <2>1 DEF Keywords
<1>4. CASE IsNetwork(l) /\ k >= 2
  <2>1. /\ n >= 6 /\ l[3] = "("
        /\ l[n - 2] = ")" /\ l[n - 1] = "CR" /\ l[n] = "LF"
        /\ \A j \in 4..(n - 3) : l[j] \notin Keywords
    BY <1>1, <1>4 DEF IsNetwork, Without
  <2>2. k + 1 \in {3, n - 2, n - 1, n} \/ k + 1 \in 4..(n - 3)
    BY <1>2, <1>4
  <2> QED
    BY <2>1, <2>2 DEF Keywords
<1>5. CASE IsOther(l)
  <2>1. l[n - 1] = "CR" /\ l[n] = "LF" /\ \A j \in 1..(n - 2) : l[j] \notin Keywords
    BY <1>1, <1>5 DEF IsOther, Without
  <2>2. k + 1 \in {n - 1, n} \/ k + 1 \in 1..(n - 2)
    BY <1>2
  <2> QED
    BY <2>1, <2>2 DEF Keywords
<1> QED
  BY <1>3, <1>4, <1>5

(* The token of a line between whose tokens nothing happens. *)
LEMMA QuietGoesOn ==
    ASSUME NEW l, NEW k, NEW q, NEW row, Matching(l, k, q, row), Quiet(ring),
           IsOther(l) \/ (IsNetwork(l) /\ k >= 2) \/ (IsPacket(l) /\ l[6] = "CR" /\ k = 6)
    PROVE  GoesOn(l, k)
<1>1. /\ l \in Lines /\ k \in 0..(Len(l) - 1) /\ l[k + 1] \notin Keywords
      /\ Pushed(q, ring, l[k + 1]) /\ IsRing(q) /\ FromBack(q, 1) = l[k + 1]
  BY NoKeyword DEF Matching, Pushed
<1>2. CodeOf(row) \notin {"incoming_packet_data", "query_access_point"} \cup Connections /\ Quiet(q)
  BY <1>1, QuietPush DEF Matching
<1>3. /\ Shaped' /\ queue' = queue /\ parser' = NoParser
      /\ \/ ring' = EmptyRing /\ reading'.pc = "idle" /\ FromBack(q, 1) = "LF"
         \/ ring' = q /\ reading'.pc = "wait"
  BY <1>1, <1>2, MatchedQuietly DEF Matching
<1>4. OwedAt(l, k) = <<>> /\ (OwedAt(l, k + 1) = <<>> \/ k + 1 = Len(l))
  <2>1. CASE IsOther(l) \/ IsNetwork(l)
    <3>1. Announced(l) = <<>>
      BY <1>1, <2>1, Announcements DEF Announcing
    <3> QED
      BY <3>1 DEF OwedAt
  <2>2. CASE IsPacket(l) /\ l[6] = "CR" /\ k = 6
    <3>1. Len(l) = 7
      BY <1>1, <2>2, FeedIsLast
    <3> QED
      BY <2>2, <3>1 DEF OwedAt
  <2> QED
    BY <2>1, <2>2
<1>5. queue \in Seq(Events) /\ queue \o <<>> = queue
  <2>1. queue \in Seq(Events)
    BY DEF Matching, Shaped
  <2> QED
    BY <2>1
<1>6. Quiet(ring')
  BY <1>2, <1>3, EmptyIsQuiet
<1>7. ASSUME k + 1 = Len(l) PROVE Calm' /\ queue' = queue \o OwedAt(l, k)
  BY <1>3, <1>4, <1>5, <1>6 DEF Calm
<1>8. ASSUME k + 1 < Len(l) PROVE Phase(l, k + 1)' /\ queue' \o OwedAt(l, k + 1) = queue \o OwedAt(l, k)
  <2>1. k + 1 \in 1..(Len(l) - 1) /\ k + 1 > 0 /\ k + 1 # Len(l)
    BY <1>1, <1>8, LineKinds
  <2>2. reading'.pc = "wait"
    BY <1>1, <1>3, <2>1, FeedIsLast
  <2>3. IsOther(l) \/ (IsNetwork(l) /\ k + 1 >= 2)
    <3>1. ~(IsPacket(l) /\ l[6] = "CR" /\ k = 6)
      BY <1>1, <2>1, FeedIsLast
    <3> QED
      BY <1>1, <3>1
  <2>4. InRing(l, k + 1)'
    BY <1>6, <2>3 DEF InRing
  <2>5. Phase(l, k + 1)'
    BY <1>3, <2>1, <2>2, <2>4 DEF Phase
  <2> QED
    BY <1>3, <1>4, <2>1, <2>5
<1> QED
  BY <1>3, <1>7, <1>8 DEF GoesOn

(* The first token of a line. *)
LEMMA FirstGoesOn ==
    ASSUME NEW l, NEW k, NEW q, NEW row, Matching(l, k, q, row), Quiet(ring), k = 0, ~IsOther(l)
    PROVE  GoesOn(l, k)
<1>1. /\ l \in Lines /\ Pushed(q, ring, l[k + 1]) /\ IsRing(q) /\ FromBack(q, 1) = l[k + 1]
  BY DEF Matching, Pushed
<1>2. CodeOf(row) \notin {"incoming_packet_data", "query_access_point"} \cup Connections
  BY <1>1, QuietPush DEF Matching
<1>3. /\ Shaped' /\ queue' = queue /\ parser' = NoParser
      /\ \/ ring' = EmptyRing /\ reading'.pc = "idle" /\ FromBack(q, 1) = "LF"
         \/ ring' = q /\ reading'.pc = "wait"
  BY <1>1, <1>2, MatchedQuietly DEF Matching
<1>4. Len(l) \in Nat /\ Len(l) >= 5 /\ k + 1 < Len(l) /\ k + 1 \in 1..(Len(l) - 1) /\ k + 1 = 1
  <2>1. IsPacket(l) \/ IsNetwork(l) \/ IsConnection(l)
    BY <1>1, LineKinds
  <2>2. Len(l) \in Nat /\ Len(l) >= 5
    <3>1. PICK n : n = Len(l)
      OBVIOUS
    <3>2. n \in Nat /\ (n >= 7 \/ n >= 6 \/ n = 5)
      BY <1>1, <2>1, <3>1, LineKinds, KindsApart DEF IsPacket, IsNetwork
    <3> QED
      BY <3>1, <3>2
  <2> QED
    BY <2>2
<1>5. ring' = q /\ reading'.pc = "wait"
  BY <1>1, <1>3, <1>4, FeedIsLast
<1>6. Holds(q, l, k + 1)
  <2>1. IsRing(ring) /\ k \in 0..4 /\ Holds(ring, l, k)
    BY AtAssumption DEF Quiet, Holds, IsRing
  <2> QED
    BY <1>1, <2>1, HoldsOn
<1>7. InRing(l, k + 1)'
  <2>1. IsPacket(l) \/ IsNetwork(l) \/ IsConnection(l)
    BY <1>1, LineKinds
  <2>2. k + 1 \in 1..4 /\ Holds(ring', l, k + 1)
    BY <1>4, <1>5, <1>6
  <2> QED
    BY <1>4, <2>1, <2>2 DEF InRing
<1>8. Phase(l, k + 1)'
  BY <1>3, <1>4, <1>5, <1>7 DEF Phase
<1>9. OwedAt(l, k) = OwedAt(l, k + 1)
  BY DEF OwedAt
<1>10. k + 1 # Len(l)
  <2>1. PICK n : n = Len(l)
    OBVIOUS
  <2>2. n \in Nat /\ n >= 5 /\ k + 1 = 1
    BY <1>4, <2>1, Zenon
  <2> QED
    BY <2>1, <2>2
<1>11. Shaped' /\ queue' = queue
  BY <1>3
<1> QED
  BY <1>8, <1>9, <1>10, <1>11, Zenon DEF GoesOn

(* What the second token begins: the list of a network, or a packet. *)
LEMMA NetworkGoesOn ==
    ASSUME NEW l, NEW k, NEW q, NEW row, Matching(l, k, q, row), IsRing(ring), IsNetwork(l), k = 1, Holds(ring, l, k)
    PROVE  GoesOn(l, k)
<1>1. /\ l \in Lines /\ Pushed(q, ring, l[k + 1]) /\ IsRing(q) /\ reading.pc = "wait" /\ parser = NoParser
      /\ Shaped /\ Effects(q, row) /\ Matched(q, row)
  BY DEF Matching, Pushed
<1>2. Holds(q, l, k + 1)
  BY <1>1, HoldsOn
<1>3. q.size >= 2 /\ FromBack(q, 1) = l[2] /\ FromBack(q, 2) = l[1]
  <2>1. k + 1 = 2 /\ 1 \in 1..(k + 1) /\ 2 \in 1..(k + 1) /\ (k + 1) + 1 - 1 = 2 /\ (k + 1) + 1 - 2 = 1
    OBVIOUS
  <2> QED
    BY <1>2, <2>1 DEF Holds
<1>4. FromBack(q, 1) = ":" /\ FromBack(q, 2) = "+CWLAP"
  BY <1>3 DEF IsNetwork
<1>5. Quiet(q) /\ CodeOf(row) = "query_access_point"
  BY <1>1, <1>3, <1>4 DEF Effects, Quiet, Keywords
<1>q. "query_access_point" \notin Connections /\ "incoming_packet_data" # "query_access_point" /\ "incoming_packet_data" \notin Connections
  BY DEF Connections
<1>6. PICK n : n = Len(l)
  OBVIOUS
<1>7. n \in Nat /\ n >= 6 /\ k + 1 = 2 /\ k + 1 # n
  BY <1>1, <1>6, LineKinds DEF IsNetwork
<1>8. Announced(l) = <<>> /\ OwedAt(l, k) = <<>> /\ OwedAt(l, k + 1) = <<>>
  BY <1>1, Announcements DEF Announcing, OwedAt
<1>9. CASE CodeOf(row) \in reading.expects
  <2>1. /\ reading' = [reading EXCEPT !.pc = "network"] /\ ap' = ap
        /\ ring' = EmptyRing /\ parser' = parser /\ queue' = queue
    BY <1>1, <1>5, <1>9 DEF Matched
  <2>2. reading'.pc = "network" /\ reading' = [pc |-> reading'.pc, expects |-> reading'.expects]
        /\ reading'.expects = reading.expects
    BY <1>1, <2>1 DEF Shaped
  <2>3. Shaped'
    BY <1>1, <2>1, <2>2, EmptyIsRing DEF Shaped
  <2>4. Phase(l, k + 1)'
    <3>1. InNetwork(l, k + 1)'
      BY <1>6, <1>7 DEF InNetwork
    <3>2. Quiet(ring')
      BY <2>1, EmptyIsQuiet
    <3> QED
      BY <1>7, <2>2, <3>1, <3>2 DEF Phase
  <2> QED
    BY <1>6, <1>7, <1>8, <2>1, <2>3, <2>4, Zenon DEF GoesOn
<1>10. CASE CodeOf(row) \notin reading.expects
  <2>1. ring' = q /\ reading' = reading /\ parser' = parser /\ ap' = ap /\ queue' = queue
    BY <1>1, <1>5, <1>10, <1>q DEF Matched
  <2>2. Shaped'
    BY <1>1, <2>1 DEF Shaped
  <2>3. Phase(l, k + 1)'
    <3>1. InRing(l, k + 1)'
      BY <1>5, <1>7, <2>1 DEF InRing
    <3> QED
      BY <1>1, <1>7, <2>1, <3>1 DEF Phase
  <2> QED
    BY <1>6, <1>7, <1>8, <2>1, <2>2, <2>3, Zenon DEF GoesOn
<1> QED
  BY <1>9, <1>10

LEMMA PacketGoesOn ==
    ASSUME NEW l, NEW k, NEW q, NEW row, Matching(l, k, q, row), IsRing(ring), IsPacket(l), k = 1, Holds(ring, l, k)
    PROVE  GoesOn(l, k)
<1>1. /\ l \in Lines /\ Pushed(q, ring, l[k + 1]) /\ IsRing(q) /\ reading.pc = "wait" /\ parser = NoParser
      /\ Shaped /\ Effects(q, row) /\ Matched(q, row)
  BY DEF Matching, Pushed
<1>2. Holds(q, l, k + 1)
  BY <1>1, HoldsOn
<1>3. q.size >= 2 /\ FromBack(q, 1) = l[2] /\ FromBack(q, 2) = l[1]
  <2>1. k + 1 = 2 /\ 1 \in 1..(k + 1) /\ 2 \in 1..(k + 1) /\ (k + 1) + 1 - 1 = 2 /\ (k + 1) + 1 - 2 = 1
    OBVIOUS
  <2> QED
    BY <1>2, <2>1 DEF Holds
<1>4. FromBack(q, 1) = "comma" /\ FromBack(q, 2) = "+IPD"
  BY <1>3 DEF IsPacket
<1>5. Quiet(q) /\ CodeOf(row) = "incoming_packet_data"
  BY <1>1, <1>3, <1>4 DEF Effects, Quiet, Keywords
<1>q. "query_access_point" \notin Connections /\ "incoming_packet_data" # "query_access_point" /\ "incoming_packet_data" \notin Connections
  BY DEF Connections
<1>6. PICK n : n = Len(l)
  OBVIOUS
<1>7. n \in Nat /\ n >= 7 /\ k + 1 = 2 /\ k + 1 # n
  BY <1>1, <1>6, LineKinds DEF IsPacket
<1>8. OwedAt(l, k) = Announced(l) /\ OwedAt(l, k + 1) = Announced(l)
  BY DEF OwedAt
<1>9. CodeOf(row) \notin reading.expects
  BY <1>1, <1>5 DEF Shaped, Sought, Answers
<1>10. /\ ring' = q /\ reading' = [reading EXCEPT !.pc = "packet"] /\ ap' = ap
       /\ parser' = parser /\ queue' = queue
  BY <1>1, <1>5, <1>9, <1>q DEF Matched
<1>11. reading'.pc = "packet" /\ reading' = [pc |-> reading'.pc, expects |-> reading'.expects]
       /\ reading'.expects = reading.expects
  BY <1>1, <1>10 DEF Shaped
<1>12. Shaped'
  BY <1>1, <1>10, <1>11 DEF Shaped
<1>13. parser'.fields = <<>> /\ parser'.text = <<>>
  BY <1>1, <1>10 DEF NoParser
<1>14. InPacket(l, k + 1)'
  BY <1>6, <1>7, <1>13 DEF InPacket
<1>15. Phase(l, k + 1)'
  BY <1>5, <1>7, <1>10, <1>11, <1>14 DEF Phase
<1> QED
  BY <1>6, <1>7, <1>8, <1>10, <1>12, <1>15, Zenon DEF GoesOn

(* A connection, or the end of one. *)
LEMMA ConnectionGoesOn ==
    ASSUME NEW l, NEW k \in 1..4, NEW q, NEW row, Matching(l, k, q, row), IsRing(ring), IsConnection(l), Holds(ring, l, k)
    PROVE  GoesOn(l, k)
<1>1. /\ l \in Lines /\ Pushed(q, ring, l[k + 1]) /\ IsRing(q) /\ reading.pc = "wait" /\ parser = NoParser
      /\ Shaped /\ Effects(q, row) /\ Matched(q, row)
  BY DEF Matching, Pushed
<1>2. Holds(q, l, k + 1)
  BY <1>1, HoldsOn
<1>3. PICK link \in {"0", "1"}, word \in {"CONNECT", "CLOSED"} : l = <<link, "comma", word, "CR", "LF">>
  BY DEF IsConnection
<1>4. Len(l) = 5 /\ l[1] = link /\ l[2] = "comma" /\ l[3] = word /\ l[4] = "CR" /\ l[5] = "LF"
  BY <1>3
<1>5. q.size >= k + 1 /\ \A j \in 1..(k + 1) : FromBack(q, j) = l[(k + 1) + 1 - j]
  BY <1>2 DEF Holds
<1>6. Announced(l) = <<Event(CodeFor(word), link, "0")>> /\ OwedAt(l, k) = Announced(l) /\ OwedAt(l, k + 1) = Announced(l)
  <2>1. ~IsPacket(l)
    BY <1>1, <1>4, KindsApart
  <2> QED
    BY <1>1, <1>3, <2>1, Announcements DEF Announcing, OwedAt
<1>q. "query_access_point" \notin Connections /\ "incoming_packet_data" # "query_access_point" /\ "incoming_packet_data" \notin Connections
  BY DEF Connections
<1>7. CASE k \in 1..3
  <2>1. FromBack(q, 1) = l[k + 1] /\ FromBack(q, 2) = l[k]
    <3>1. 1 \in 1..(k + 1) /\ 2 \in 1..(k + 1) /\ (k + 1) + 1 - 1 = k + 1 /\ (k + 1) + 1 - 2 = k
      BY <1>7
    <3> QED
      BY <1>5, <3>1
  <2>2. l[k + 1] \in {"comma", word, "CR"} /\ l[k] \in {link, "comma", word}
    BY <1>4, <1>7
  <2>3. FromBack(q, 1) # "LF" /\ FromBack(q, 2) \notin {"+IPD", "+CWLAP"}
    BY <2>1, <2>2
  <2>4. CodeOf(row) \notin {"incoming_packet_data", "query_access_point"} \cup Connections
    BY <1>1, <2>3 DEF Effects
  <2>5. Shaped' /\ queue' = queue /\ parser' = NoParser /\ ring' = q /\ reading'.pc = "wait"
    BY <1>1, <2>3, <2>4, MatchedQuietly
  <2>6. InRing(l, k + 1)'
    <3>1. k + 1 \in 1..4
      BY <1>7
    <3> QED
      BY <1>2, <2>5, <3>1 DEF InRing
  <2>7. Phase(l, k + 1)'
    BY <1>7, <2>5, <2>6 DEF Phase
  <2>8. k + 1 # Len(l)
    BY <1>4, <1>7
  <2> QED
    BY <1>6, <2>5, <2>7, <2>8, Zenon DEF GoesOn
<1>8. CASE k = 4
  <2>1. /\ FromBack(q, 1) = "LF" /\ FromBack(q, 2) = "CR" /\ FromBack(q, 3) = word
        /\ FromBack(q, 4) = "comma" /\ FromBack(q, 5) = link /\ q.size >= 5
    BY <1>4, <1>5, <1>8
  <2>2. CodeOf(row) = CodeFor(word) /\ Head(Table[row].text) = link
    BY <1>1, <2>1 DEF Effects, Connecting
  <2>3. CodeOf(row) \in Connections /\ CodeOf(row) \notin reading.expects /\ CodeOf(row) # "incoming_packet_data"
    BY <1>1, <2>2 DEF CodeFor, Connections, Shaped, Sought, Answers
  <2>4. /\ ring' = q /\ reading' = reading /\ parser' = parser /\ ap' = ap
        /\ queue' = Append(queue, Event(CodeFor(word), link, "0"))
    BY <1>1, <1>q, <2>2, <2>3 DEF Matched
  <2>5. Event(CodeFor(word), link, "0") \in Events
    BY DEF Event, Events, CodeFor, Connections, Digits
  <2>6. queue \in Seq(Events)
    BY <1>1 DEF Shaped
  <2>7. queue' \in Seq(Events) /\ queue' = queue \o <<Event(CodeFor(word), link, "0")>>
    BY <2>4, <2>5, <2>6
  <2>8. Shaped'
    BY <1>1, <2>4, <2>7 DEF Shaped
  <2>9. Calm'
    <3>1. Quiet(q)
      BY <1>1, <2>1 DEF Quiet, Keywords
    <3> QED
      BY <1>1, <2>4, <3>1 DEF Calm
  <2>10. ~(k + 1 < Len(l))
    BY <1>4, <1>8
  <2> QED
    BY <1>6, <2>7, <2>8, <2>9, <2>10, Zenon DEF GoesOn
<1> QED
  BY <1>7, <1>8

(* wait() goes on with each token as it should. *)
LEMMA MatchGoesOn ==
    ASSUME Straight, Match PROVE Straight'
<1>1. IsSerial(serial) /\ AtPhase /\ Shaped /\ IsRing(ring)
  BY DEF Straight, Shaped
<1>2. PICK q, row : Pushed(q, ring, Token) /\ Effects(q, row) /\ Matched(q, row)
  BY <1>1, MatchDecides
<1>3. Read /\ reading.pc = "wait"
  BY <1>1, MatchDecides
<1>4. PICK l : l = serial[1].line
  OBVIOUS
<1>5. PICK k : k = ReadOf(serial[1])
  OBVIOUS
<1>6. Phase(l, k)
  BY <1>1, <1>3, <1>4, <1>5 DEF Read, AtPhase
<1>7. l \in Lines /\ k \in 0..(Len(l) - 1) /\ Token = l[k + 1]
  BY <1>1, <1>3, <1>4, <1>5, ReadToken
<1>8. parser = NoParser /\ (IF k = 0 THEN Quiet(ring) ELSE InRing(l, k))
  BY <1>3, <1>6 DEF Phase, Calm
<1>9. Matching(l, k, q, row)
  BY <1>1, <1>2, <1>3, <1>7, <1>8 DEF Matching
<1>10. GoesOn(l, k)
  <2>1. CASE k = 0
    BY <1>8, <1>9, <2>1, QuietGoesOn, FirstGoesOn
  <2>2. CASE k # 0
    <3>1. InRing(l, k)
      BY <1>8, <2>2
    <3> QED
      BY <1>1, <1>9, <2>2, <3>1, QuietGoesOn, NetworkGoesOn, PacketGoesOn, ConnectionGoesOn DEF InRing
  <2> QED
    BY <2>1, <2>2
<1>11. /\ Shaped'
       /\ k + 1 = Len(l) => Calm' /\ queue' = queue \o OwedAt(l, k)
       /\ k + 1 < Len(l) => Phase(l, k + 1)' /\ queue' \o OwedAt(l, k + 1) = queue \o OwedAt(l, k)
  BY <1>10 DEF GoesOn
<1> QED
  BY <1>3, <1>4, <1>5, <1>11, StraightOn

(* What the parser of +IPD does with a token. *)
Packed(t) ==
    \/ /\ t \in {":", "CR"} /\ queue' = Append(queue, Packet(Noted(parser)))
       /\ reading' = [reading EXCEPT !.pc = "wait"] /\ parser' = NoParser
    \/ /\ t = "comma" /\ parser' = Noted(parser) /\ queue' = queue /\ reading' = reading
    \/ /\ t \notin {":", "CR", "comma"} /\ queue' = queue /\ reading' = reading
       /\ parser' = [fields |-> parser.fields, text |-> Append(parser.text, t)]

LEMMA PacketDecides ==
    ASSUME PacketToken, Shaped
    PROVE  Read /\ reading.pc = "packet" /\ ring' = ring /\ misread' = misread /\ ap' = ap /\ Packed(Token)
<1>1. parser = [fields |-> parser.fields, text |-> parser.text]
  BY DEF Shaped
<1>2. ASSUME NEW t PROVE [parser EXCEPT !.text = Append(@, t)] = [fields |-> parser.fields, text |-> Append(parser.text, t)]
  BY <1>1
<1>3. PICK t : t = Token
  OBVIOUS
<1>4. Read /\ reading.pc = "packet" /\ ring' = ring /\ misread' = misread
  BY DEF PacketToken
<1>5. \/ /\ t \in {":", "CR"}
         /\ queue' = Append(queue, Packet(Noted(parser)))
         /\ Parse("wait") /\ parser' = NoParser
      \/ /\ t = "comma" /\ parser' = Noted(parser) /\ UNCHANGED <<queue, reading, ap>>
      \/ /\ t \notin {":", "CR", "comma"}
         /\ parser' = [parser EXCEPT !.text = Append(@, t)]
         /\ UNCHANGED <<queue, reading, ap>>
  BY <1>3 DEF PacketToken
<1>6. Packed(t) /\ ap' = ap
  BY <1>2, <1>5 DEF Packed, Parse
<1> QED
  BY <1>3, <1>4, <1>6, Zenon

(* A number of the fields that are looked at. *)
LEMMA NumberIsDigit ==
    /\ \A text : NumberOf(text) \in Digits
    /\ \A d \in Digits : NumberOf(<<d>>) = d
<1>1. ASSUME NEW text PROVE NumberOf(text) \in Digits
  BY DEF NumberOf, Digits
<1>2. ASSUME NEW d \in Digits PROVE NumberOf(<<d>>) = d
  <2>1. <<d>> # <<>> /\ Head(<<d>>) = d
    OBVIOUS
  <2> QED
    BY <2>1 DEF NumberOf, Digits
<1> QED
  BY <1>1, <1>2

(* The tokens of a packet. *)
LEMMA PacketTokens ==
    ASSUME NEW l \in Lines, IsPacket(l)
    PROVE  /\ Len(l) >= 7 /\ l[3] \in Digits /\ l[4] = "comma" /\ l[5] \in Digits
           /\ l[6] = "CR" \/ l[6] = "comma"
           /\ l[6] = "CR" => Len(l) = 7 /\ l[7] = "LF"
           /\ l[6] = "comma" => /\ l[Len(l)] = ":"
                                /\ \A j \in 7..(Len(l) - 1) : l[j] # ":" /\ l[j] # "CR"
BY DEF IsPacket, Without, Ends

(* Sequences of a few. *)
LEMMA Appending ==
    /\ \A x : Append(<<>>, x) = <<x>>
    /\ \A x, y : Append(<<x>>, y) = <<x, y>>
    /\ \A s \in Seq(Events), x \in Events : Append(s, x) = s \o <<x>> /\ Append(s, x) \in Seq(Events)
<1>1. \A x : Append(<<>>, x) = <<x>>
  OBVIOUS
<1>2. ASSUME NEW x, NEW y PROVE Append(<<x>>, y) = <<x, y>>
  <2>1. PICK S : S = {x, y}
    OBVIOUS
  <2>2. PICK t : t = Append(<<x>>, y)
    OBVIOUS
  <2>3. <<x>> \in Seq(S) /\ y \in S /\ Len(<<x>>) = 1
    BY <2>1
  <2>4. t \in Seq(S) /\ Len(t) = 2 /\ t[1] = x /\ t[2] = y
    BY <2>2, <2>3
  <2>5. t = <<t[1], t[2]>>
    BY <2>4
  <2> QED
    BY <2>2, <2>4, <2>5
<1>3. \A s \in Seq(Events), x \in Events : Append(s, x) = s \o <<x>> /\ Append(s, x) \in Seq(Events)
  OBVIOUS
<1> QED
  BY <1>1, <1>2, <1>3, Zenon

(* The parser has its fields in order. *)
LEMMA PacketOn ==
    ASSUME Shaped, reading.pc = "packet", Quiet(ring), NEW l \in Lines, NEW k \in 0..(Len(l) - 1),
           InPacket(l, k), ring' = ring, ap' = ap, Packed(l[k + 1])
    PROVE  GoesOn(l, k)
<1>1. /\ IsPacket(l) /\ k \in 2..(Len(l) - 1) /\ (k >= 6 => l[6] # "CR")
      /\ k \in {2, 3} => parser.fields = <<>>
      /\ k \in {4, 5} => parser.fields = <<l[3]>>
      /\ k >= 6 => /\ parser.fields \in Seq(Digits) /\ Len(parser.fields) >= 2
                   /\ parser.fields[1] = l[3] /\ parser.fields[2] = l[5]
      /\ k \in {2, 4} => parser.text = <<>>
      /\ k \in {3, 5} => parser.text = <<l[k]>>
  BY DEF InPacket
<1>2. PICK n : n = Len(l)
  OBVIOUS
<1>3. /\ n \in Nat /\ n >= 7 /\ l[3] \in Digits /\ l[4] = "comma" /\ l[5] \in Digits
      /\ l[6] = "CR" \/ l[6] = "comma"
      /\ l[6] = "CR" => n = 7 /\ l[7] = "LF"
      /\ l[6] = "comma" => l[n] = ":" /\ \A j \in 7..(n - 1) : l[j] # ":" /\ l[j] # "CR"
  BY <1>1, <1>2, LineKinds, PacketTokens
<1>4. k \in 2..(n - 1)
  BY <1>1, <1>2
<1>5. Announced(l) = <<Event("incoming_packet_data", l[3], l[5])>> /\ Event("incoming_packet_data", l[3], l[5]) \in Events
  BY <1>1, <1>3, Announcements DEF Announcing, Event, Events
<1>6. PICK e : e = Event("incoming_packet_data", l[3], l[5])
  OBVIOUS
<1>7. /\ reading = [pc |-> "packet", expects |-> reading.expects]
      /\ reading.expects \subseteq Sought \cup {"query_access_point"}
      /\ parser = [fields |-> parser.fields, text |-> parser.text]
      /\ ap = [f \in ApFields |-> ap[f]] /\ IsRing(ring) /\ queue \in Seq(Events)
  BY DEF Shaped
<1>8. CASE k \in {2, 4}
  <2>1. l[k + 1] \in Digits /\ k + 1 < n /\ k + 1 # n /\ k + 1 \in 2..(n - 1)
    BY <1>3, <1>8
  <2>2. /\ queue' = queue /\ reading' = reading
        /\ parser' = [fields |-> parser.fields, text |-> Append(parser.text, l[k + 1])]
    BY <2>1 DEF Packed, Digits
  <2>3. parser'.fields = parser.fields /\ parser'.text = Append(parser.text, l[k + 1])
        /\ parser' = [fields |-> parser'.fields, text |-> parser'.text]
    BY <2>2
  <2>4. parser'.text = <<l[k + 1]>>
    <3>1. parser.text = <<>>
      BY <1>1, <1>8
    <3> QED
      BY <2>3, <3>1, Appending, Zenon
  <2>5. Shaped'
    BY <1>7, <2>2, <2>3 DEF Shaped
  <2>6. InPacket(l, k + 1)'
    BY <1>1, <1>2, <1>8, <2>1, <2>3, <2>4 DEF InPacket
  <2>7. Phase(l, k + 1)'
    BY <1>8, <2>2, <2>6 DEF Phase
  <2>8. OwedAt(l, k + 1) = OwedAt(l, k)
    BY <1>8 DEF OwedAt
  <2> QED
    BY <1>2, <2>1, <2>2, <2>5, <2>7, <2>8, Zenon DEF GoesOn
<1>9. CASE k = 3
  <2>1. l[k + 1] = "comma" /\ k + 1 < n /\ k + 1 # n /\ k + 1 \in 2..(n - 1)
    BY <1>3, <1>9
  <2>2. queue' = queue /\ reading' = reading /\ parser' = Noted(parser)
    BY <2>1 DEF Packed
  <2>3. /\ parser' = [fields |-> parser'.fields, text |-> parser'.text]
        /\ parser'.fields = Append(parser.fields, NumberOf(parser.text)) /\ parser'.text = <<>>
    BY <2>2 DEF Noted
  <2>4. parser'.fields = <<l[3]>>
    <3>1. parser.fields = <<>> /\ NumberOf(parser.text) = l[3]
      BY <1>1, <1>3, <1>9, NumberIsDigit
    <3> QED
      BY <2>3, <3>1
  <2>5. Shaped'
    BY <1>7, <2>2, <2>3 DEF Shaped
  <2>6. InPacket(l, k + 1)'
    BY <1>1, <1>2, <1>9, <2>1, <2>3, <2>4 DEF InPacket
  <2>7. Phase(l, k + 1)'
    BY <1>9, <2>2, <2>6 DEF Phase
  <2>8. OwedAt(l, k + 1) = OwedAt(l, k)
    BY <1>9 DEF OwedAt
  <2> QED
    BY <1>2, <2>1, <2>2, <2>5, <2>7, <2>8, Zenon DEF GoesOn
<1>10. CASE k = 5
  <2>0. NumberOf(parser.text) = l[5] /\ parser.fields = <<l[3]>>
    BY <1>1, <1>3, <1>10, NumberIsDigit
  <2>1. k + 1 < n /\ k + 1 # n /\ k + 1 \in 2..(n - 1) /\ k + 1 = 6
    BY <1>3, <1>10
  <2>2. /\ Noted(parser) = [fields |-> Noted(parser).fields, text |-> <<>>]
        /\ Noted(parser).fields = <<l[3], l[5]>>
    <3>1. Noted(parser) = [fields |-> Append(parser.fields, NumberOf(parser.text)), text |-> <<>>]
      BY DEF Noted
    <3>2. Append(parser.fields, NumberOf(parser.text)) = <<l[3], l[5]>>
      BY <2>0, Appending, Zenon
    <3> QED
      BY <3>1, <3>2
  <2>3. CASE l[6] = "CR"
    <3>1. /\ queue' = Append(queue, Packet(Noted(parser)))
          /\ reading' = [reading EXCEPT !.pc = "wait"] /\ parser' = NoParser
      BY <2>1, <2>3 DEF Packed
    <3>2. reading' = [pc |-> "wait", expects |-> reading.expects] /\ reading'.pc = "wait" /\ reading'.expects = reading.expects
      BY <1>7, <3>1
    <3>3. Packet(Noted(parser)) = e
      <4>1. PICK f : f = Noted(parser).fields
        OBVIOUS
      <4>2. Len(f) = 2 /\ f[1] = l[3] /\ f[2] = l[5]
        BY <2>2, <4>1
      <4> QED
        BY <1>6, <4>1, <4>2 DEF Packet
    <3>4. queue' = queue \o <<e>> /\ queue' \in Seq(Events)
      <4>1. queue \in Seq(Events) /\ e \in Events
        BY <1>5, <1>6, <1>7, Zenon
      <4> QED
        BY <3>1, <3>3, <4>1, Appending, Zenon
    <3>5. Shaped'
      BY <1>7, <3>1, <3>2, <3>4 DEF Shaped, NoParser
    <3>6. InRing(l, k + 1)'
      BY <1>1, <2>1, <2>3 DEF InRing
    <3>7. Phase(l, k + 1)'
      BY <2>1, <3>1, <3>2, <3>6 DEF Phase
    <3>8. OwedAt(l, k + 1) = <<>> /\ OwedAt(l, k) = <<e>> /\ queue' \o <<>> = queue'
      BY <1>1, <1>5, <1>6, <1>10, <2>1, <2>3, <3>4 DEF OwedAt
    <3> QED
      BY <1>2, <2>1, <3>4, <3>5, <3>7, <3>8, Zenon DEF GoesOn
  <2>4. CASE l[6] = "comma"
    <3>1. queue' = queue /\ reading' = reading /\ parser' = Noted(parser)
      BY <2>1, <2>4 DEF Packed
    <3>2. /\ parser' = [fields |-> parser'.fields, text |-> parser'.text]
          /\ parser'.fields = <<l[3], l[5]>>
      BY <2>2, <3>1
    <3>3. Shaped'
      BY <1>7, <3>1, <3>2 DEF Shaped
    <3>4. InPacket(l, k + 1)'
      <4>1. PICK f : f = parser'.fields
        OBVIOUS
      <4>2. f \in Seq(Digits) /\ Len(f) = 2 /\ f[1] = l[3] /\ f[2] = l[5]
        BY <1>3, <3>2, <4>1
      <4> QED
        BY <1>1, <1>2, <2>1, <2>4, <4>1, <4>2 DEF InPacket
    <3>5. Phase(l, k + 1)'
      BY <2>1, <3>1, <3>4 DEF Phase
    <3>6. OwedAt(l, k + 1) = OwedAt(l, k)
      BY <2>4 DEF OwedAt
    <3> QED
      BY <1>2, <2>1, <3>1, <3>3, <3>5, <3>6, Zenon DEF GoesOn
  <2> QED
    BY <1>3, <2>3, <2>4
<1>11. CASE k >= 6
  <2>0. PICK f : f = parser.fields
    OBVIOUS
  <2>1. l[6] = "comma" /\ f \in Seq(Digits) /\ Len(f) >= 2 /\ f[1] = l[3] /\ f[2] = l[5] /\ k + 1 \in 7..n
    BY <1>1, <1>3, <1>4, <1>11, <2>0
  <2>2. \A d \in Digits : Append(f, d) \in Seq(Digits) /\ Len(Append(f, d)) >= 2
                          /\ Append(f, d)[1] = l[3] /\ Append(f, d)[2] = l[5]
    BY <2>1
  <2>3. PICK d \in Digits : d = NumberOf(parser.text)
    BY NumberIsDigit
  <2>4. Noted(parser) = [fields |-> Append(f, d), text |-> <<>>]
    BY <2>0, <2>3 DEF Noted
  <2>5. CASE k + 1 = n
    <3>1. l[k + 1] = ":"
      BY <1>3, <2>1, <2>5
    <3>2. /\ queue' = Append(queue, Packet(Noted(parser)))
          /\ reading' = [reading EXCEPT !.pc = "wait"] /\ parser' = NoParser
      BY <3>1 DEF Packed
    <3>3. reading' = [pc |-> "wait", expects |-> reading.expects] /\ reading'.pc = "wait" /\ reading'.expects = reading.expects
      BY <1>7, <3>2
    <3>4. Packet(Noted(parser)) = e
      <4>1. PICK g : g = Append(f, d)
        OBVIOUS
      <4>2. g \in Seq(Digits) /\ Len(g) >= 2 /\ g[1] = l[3] /\ g[2] = l[5]
        BY <2>2, <4>1
      <4>3. ~(Len(g) < 2)
        BY <4>2
      <4>4. Noted(parser).fields = g
        BY <2>4, <4>1
      <4> QED
        BY <1>6, <4>2, <4>3, <4>4 DEF Packet
    <3>5. queue' = queue \o <<e>> /\ queue' \in Seq(Events)
      <4>1. queue \in Seq(Events) /\ e \in Events
        BY <1>5, <1>6, <1>7, Zenon
      <4> QED
        BY <3>2, <3>4, <4>1, Appending, Zenon
    <3>6. Shaped'
      BY <1>7, <3>2, <3>3, <3>5 DEF Shaped, NoParser
    <3>7. Calm'
      BY <3>2, <3>3 DEF Calm
    <3>8. OwedAt(l, k) = <<e>>
      BY <1>5, <1>6, <2>1 DEF OwedAt
    <3>9. ~(k + 1 < n)
      BY <2>5
    <3> QED
      BY <1>2, <3>5, <3>6, <3>7, <3>8, <3>9, Zenon DEF GoesOn
  <2>6. CASE k + 1 # n
    <3>1. k + 1 < n /\ k + 1 \in 2..(n - 1) /\ k + 1 > 6 /\ l[k + 1] # ":" /\ l[k + 1] # "CR"
      BY <1>3, <2>1, <2>6
    <3>2. queue' = queue /\ reading' = reading
      BY <3>1 DEF Packed
    <3>3. PICK g : g = parser'.fields
      OBVIOUS
    <3>4. /\ parser' = [fields |-> parser'.fields, text |-> parser'.text]
          /\ g = f \/ g = Append(f, d)
      BY <2>0, <2>4, <3>1, <3>3 DEF Packed
    <3>5. g \in Seq(Digits) /\ Len(g) >= 2 /\ g[1] = l[3] /\ g[2] = l[5]
      BY <2>1, <2>2, <3>4
    <3>6. Shaped'
      BY <1>7, <3>2, <3>4 DEF Shaped
    <3>7. InPacket(l, k + 1)'
      BY <1>1, <1>2, <2>1, <3>1, <3>3, <3>5 DEF InPacket
    <3>8. Phase(l, k + 1)'
      BY <3>1, <3>2, <3>7 DEF Phase
    <3>9. OwedAt(l, k + 1) = OwedAt(l, k)
      BY <2>1 DEF OwedAt
    <3> QED
      BY <1>2, <2>6, <3>2, <3>6, <3>8, <3>9, Zenon DEF GoesOn
  <2> QED
    BY <2>5, <2>6
<1> QED
  BY <1>4, <1>8, <1>9, <1>10, <1>11

LEMMA PacketGoesStraight ==
    ASSUME Straight, PacketToken PROVE Straight'
<1>1. IsSerial(serial) /\ AtPhase /\ Shaped
  BY DEF Straight
<1>2. Read /\ reading.pc = "packet" /\ ring' = ring /\ ap' = ap /\ Packed(Token)
  BY <1>1, PacketDecides
<1>3. PICK l : l = serial[1].line
  OBVIOUS
<1>4. PICK k : k = ReadOf(serial[1])
  OBVIOUS
<1>5. Phase(l, k)
  BY <1>1, <1>2, <1>3, <1>4 DEF Read, AtPhase
<1>6. l \in Lines /\ k \in 0..(Len(l) - 1) /\ Token = l[k + 1]
  BY <1>1, <1>2, <1>3, <1>4, ReadToken
<1>7. Quiet(ring) /\ InPacket(l, k)
  BY <1>2, <1>5 DEF Phase, Calm
<1>8. GoesOn(l, k)
  BY <1>1, <1>2, <1>6, <1>7, PacketOn
<1>9. /\ Shaped'
      /\ k + 1 = Len(l) => Calm' /\ queue' = queue \o OwedAt(l, k)
      /\ k + 1 < Len(l) => Phase(l, k + 1)' /\ queue' \o OwedAt(l, k + 1) = queue \o OwedAt(l, k)
  BY <1>8 DEF GoesOn
<1> QED
  BY <1>2, <1>3, <1>4, <1>9, StraightOn

(* How many numbers of a set are among the first k. *)
LEMMA CountOn ==
    ASSUME NEW T, NEW k \in Nat
    PROVE  /\ Cardinality(T \cap (1..k)) \in Nat
           /\ Cardinality(T \cap (1..(k + 1))) = Cardinality(T \cap (1..k)) + (IF k + 1 \in T THEN 1 ELSE 0)
<1>1. IsFiniteSet(T \cap (1..k)) /\ Cardinality(T \cap (1..k)) \in Nat
  <2>1. IsFiniteSet(1..k)
    BY FS_Interval
  <2>2. T \cap (1..k) \subseteq 1..k
    OBVIOUS
  <2> QED
    BY <2>1, <2>2, FS_Subset, FS_CardinalityType
<1>2. CASE k + 1 \in T
  <2>1. T \cap (1..(k + 1)) = (T \cap (1..k)) \cup {k + 1} /\ k + 1 \notin T \cap (1..k)
    BY <1>2
  <2> QED
    BY <1>1, <1>2, <2>1, FS_AddElement
<1>3. CASE k + 1 \notin T
  <2>1. T \cap (1..(k + 1)) = T \cap (1..k)
    BY <1>3
  <2> QED
    BY <1>1, <1>3, <2>1
<1> QED
  BY <1>1, <1>2, <1>3

(* A token more: the commas and the fields. *)
LEMMA CommasOn ==
    ASSUME NEW l, NEW k \in Nat
    PROVE  /\ CommasIn(l, k) \in Nat
           /\ CommasIn(l, k + 1) = CommasIn(l, k) + (IF l[k + 1] = "comma" THEN 1 ELSE 0)
<1>1. PICK T : T = {j \in Nat : l[j] = "comma"}
  OBVIOUS
<1>2. \A m \in Nat : CommasIn(l, m) = Cardinality(T \cap (1..m))
  <2>1. ASSUME NEW m \in Nat PROVE {j \in 1..m : l[j] = "comma"} = T \cap (1..m)
    BY <1>1
  <2> QED
    BY <2>1 DEF CommasIn
<1>3. k + 1 \in Nat /\ (k + 1 \in T <=> l[k + 1] = "comma")
  BY <1>1
<1>4. PICK a, b : a = Cardinality(T \cap (1..k)) /\ b = Cardinality(T \cap (1..(k + 1)))
  OBVIOUS
<1>5. a \in Nat /\ b = a + (IF k + 1 \in T THEN 1 ELSE 0)
  BY <1>4, CountOn
<1>6. CommasIn(l, k) = a /\ CommasIn(l, k + 1) = b
  BY <1>2, <1>3, <1>4, Zenon
<1> QED
  BY <1>3, <1>5, <1>6

LEMMA FieldsOn ==
    ASSUME NEW l, NEW k \in Nat
    PROVE  /\ FieldsIn(l, k) \in Nat
           /\ FieldsIn(l, k + 1) = FieldsIn(l, k) + (IF l[k + 1] \notin Punctuation THEN 1 ELSE 0)
<1>1. PICK T : T = {j \in Nat : l[j] \notin Punctuation}
  OBVIOUS
<1>2. \A m \in Nat : FieldsIn(l, m) = Cardinality(T \cap (1..m))
  <2>1. ASSUME NEW m \in Nat PROVE {j \in 1..m : l[j] \notin Punctuation} = T \cap (1..m)
    BY <1>1
  <2> QED
    BY <2>1 DEF FieldsIn
<1>3. k + 1 \in Nat /\ (k + 1 \in T <=> l[k + 1] \notin Punctuation)
  BY <1>1
<1>4. PICK a, b : a = Cardinality(T \cap (1..k)) /\ b = Cardinality(T \cap (1..(k + 1)))
  OBVIOUS
<1>5. a \in Nat /\ b = a + (IF k + 1 \in T THEN 1 ELSE 0)
  BY <1>4, CountOn
<1>6. FieldsIn(l, k) = a /\ FieldsIn(l, k + 1) = b
  BY <1>2, <1>3, <1>4, Zenon
<1> QED
  BY <1>3, <1>5, <1>6

LEMMA NeitherOn ==
    ASSUME NEW l, NEW k \in Nat, l[k + 1] \in Punctuation, l[k + 1] # "comma"
    PROVE  CommasIn(l, k + 1) = CommasIn(l, k) /\ FieldsIn(l, k + 1) = FieldsIn(l, k)
<1>1. CommasIn(l, k) \in Nat /\ CommasIn(l, k + 1) = CommasIn(l, k) + 0
  BY CommasOn
<1>2. FieldsIn(l, k) \in Nat /\ FieldsIn(l, k + 1) = FieldsIn(l, k) + 0
  BY FieldsOn
<1> QED
  BY <1>1, <1>2

(* The later, the more of them. *)
LEMMA FieldsGrow ==
    ASSUME NEW l, NEW k \in Nat, NEW j \in 0..k
    PROVE  FieldsIn(l, j) <= FieldsIn(l, k) /\ CommasIn(l, j) <= CommasIn(l, k)
<1>1. IsFiniteSet(1..k) /\ 1..j \subseteq 1..k
  BY FS_Interval
<1>2. Cardinality({i \in 1..j : l[i] = "comma"}) <= Cardinality({i \in 1..k : l[i] = "comma"})
  <2>1. IsFiniteSet({i \in 1..k : l[i] = "comma"}) /\ {i \in 1..j : l[i] = "comma"} \subseteq {i \in 1..k : l[i] = "comma"}
    BY <1>1, FS_Subset
  <2> QED
    BY <2>1, FS_Subset
<1>3. Cardinality({i \in 1..j : l[i] \notin Punctuation}) <= Cardinality({i \in 1..k : l[i] \notin Punctuation})
  <2>1. IsFiniteSet({i \in 1..k : l[i] \notin Punctuation})
        /\ {i \in 1..j : l[i] \notin Punctuation} \subseteq {i \in 1..k : l[i] \notin Punctuation}
    BY <1>1, FS_Subset
  <2> QED
    BY <2>1, FS_Subset
<1> QED
  BY <1>2, <1>3 DEF FieldsIn, CommasIn

(* What a network looks like. *)
LEMMA NetworkTokens ==
    ASSUME NEW l \in Lines, IsNetwork(l), NEW n, n = Len(l)
    PROVE  /\ n \in Nat /\ n >= 6
           /\ l[3] = "(" /\ l[n - 2] = ")" /\ l[n - 1] = "CR" /\ l[n] = "LF"
           /\ \A k \in 4..(n - 3) : l[k] \notin Ends \cup {":", "(", ")", "+CWLAP"}
           /\ \A k \in 4..(n - 3) : l[k] # "quote" =>
                  FieldsIn(l, k) = CommasIn(l, k) + (IF l[k] = "comma" THEN 0 ELSE 1)
           /\ CommasIn(l, 3) = 0 /\ FieldsIn(l, 3) = 0
           /\ CommasIn(l, n) = CommasIn(l, n - 3) /\ CommasIn(l, n) <= 10
<1>1. /\ n \in Nat /\ n >= 6 /\ l[1] = "+CWLAP" /\ l[2] = ":"
      /\ l[3] = "(" /\ l[n - 2] = ")" /\ l[n - 1] = "CR" /\ l[n] = "LF"
      /\ CommasIn(l, n) <= 10
      /\ \A k \in 4..(n - 3) : l[k] # "quote" =>
             FieldsIn(l, k) = CommasIn(l, k) + (IF l[k] = "comma" THEN 0 ELSE 1)
  BY LineKinds DEF IsNetwork
<1>2. \A k \in 4..(n - 3) : l[k] \notin Ends \cup {":", "(", ")", "+CWLAP"}
  BY DEF IsNetwork, Without, Keywords
<1>3. CommasIn(l, 3) = 0 /\ FieldsIn(l, 3) = 0
  <2>1. CommasIn(l, 0) = 0 /\ FieldsIn(l, 0) = 0
    <3>1. {j \in 1..0 : l[j] = "comma"} = {} /\ {j \in 1..0 : l[j] \notin Punctuation} = {}
      OBVIOUS
    <3> QED
      BY <3>1, FS_EmptySet DEF CommasIn, FieldsIn
  <2>2. CommasIn(l, 0 + 1) = 0 /\ FieldsIn(l, 0 + 1) = 0
    <3>1. l[0 + 1] \in Punctuation /\ l[0 + 1] # "comma"
      BY <1>1 DEF Punctuation
    <3>2. CommasIn(l, 0 + 1) = CommasIn(l, 0) /\ FieldsIn(l, 0 + 1) = FieldsIn(l, 0)
      BY <3>1, NeitherOn
    <3> QED
      BY <2>1, <3>2
  <2>3. CommasIn(l, 1 + 1) = 0 /\ FieldsIn(l, 1 + 1) = 0
    <3>1. l[1 + 1] \in Punctuation /\ l[1 + 1] # "comma"
      BY <1>1 DEF Punctuation
    <3>2. CommasIn(l, 1 + 1) = CommasIn(l, 1) /\ FieldsIn(l, 1 + 1) = FieldsIn(l, 1)
      BY <3>1, NeitherOn
    <3> QED
      BY <2>2, <3>2
  <2>4. CommasIn(l, 2 + 1) = 0 /\ FieldsIn(l, 2 + 1) = 0
    <3>1. l[2 + 1] \in Punctuation /\ l[2 + 1] # "comma"
      BY <1>1 DEF Punctuation
    <3>2. CommasIn(l, 2 + 1) = CommasIn(l, 2) /\ FieldsIn(l, 2 + 1) = FieldsIn(l, 2)
      BY <3>1, NeitherOn
    <3> QED
      BY <2>3, <3>2
  <2> QED
    BY <2>4
<1>4. CommasIn(l, n) = CommasIn(l, n - 3)
  <2>1. PICK m : m = n - 3
    OBVIOUS
  <2>2. m \in Nat /\ m + 1 \in Nat /\ m + 2 \in Nat /\ m + 1 = n - 2 /\ (m + 1) + 1 = n - 1 /\ (m + 2) + 1 = n
        /\ (m + 1) + 1 = m + 2
    BY <1>1, <2>1
  <2>3. CommasIn(l, m) \in Nat /\ CommasIn(l, m + 1) = CommasIn(l, m)
    <3>1. l[m + 1] # "comma"
      BY <1>1, <2>2
    <3>2. CommasIn(l, m) \in Nat /\ CommasIn(l, m + 1) = CommasIn(l, m) + 0
      BY <2>2, <3>1, CommasOn
    <3> QED
      BY <3>2
  <2>4. CommasIn(l, (m + 1) + 1) = CommasIn(l, m)
    <3>1. l[(m + 1) + 1] # "comma"
      BY <1>1, <2>2
    <3>2. CommasIn(l, m + 1) \in Nat /\ CommasIn(l, (m + 1) + 1) = CommasIn(l, m + 1) + 0
      BY <2>2, <3>1, CommasOn
    <3> QED
      BY <2>3, <3>2
  <2>5. CommasIn(l, (m + 2) + 1) = CommasIn(l, m)
    <3>1. l[(m + 2) + 1] # "comma"
      BY <1>1, <2>2
    <3>2. CommasIn(l, m + 2) \in Nat /\ CommasIn(l, (m + 2) + 1) = CommasIn(l, m + 2) + 0
      BY <2>2, <3>1, CommasOn
    <3> QED
      BY <2>2, <2>4, <3>2
  <2> QED
    BY <2>1, <2>2, <2>5
<1> QED
  BY <1>1, <1>2, <1>3, <1>4

(* What the parser of +CWLAP does with a token of the line l. *)
Reported(l, t) ==
    \/ /\ t \in {")", "CR", "LF"} /\ reading' = [reading EXCEPT !.pc = "wait"] /\ ap' = ap
       /\ parser' = NoParser /\ (misread = FALSE /\ Shown(l, ap) => misread' = FALSE)
    \/ /\ t = "quote" /\ parser' = parser /\ ap' = ap /\ reading' = reading /\ misread' = misread
    \/ /\ t = "(" /\ parser' = [fields |-> <<>>, text |-> <<"(">>]
       /\ ap' = ap /\ reading' = reading /\ misread' = misread
    \/ /\ t = "comma" /\ ap' = Stored(parser) /\ parser' = NextField(parser)
       /\ reading' = reading /\ misread' = misread
    \/ /\ t \notin {")", "CR", "LF", "quote", "(", "comma"}
       /\ parser' = [fields |-> parser.fields, text |-> Append(parser.text, t)]
       /\ ap' = ap /\ reading' = reading /\ misread' = misread

LEMMA NetworkDecides ==
    ASSUME NetworkToken, Shaped, IsSerial(serial), misread \in BOOLEAN
    PROVE  Read /\ reading.pc = "network" /\ ring' = ring /\ queue' = queue /\ Reported(serial[1].line, Token)
<1>1. parser = [fields |-> parser.fields, text |-> parser.text]
  BY DEF Shaped
<1>2. ASSUME NEW t PROVE [parser EXCEPT !.text = Append(@, t)] = [fields |-> parser.fields, text |-> Append(parser.text, t)]
  BY <1>1
<1>3. PICK t : t = Token
  OBVIOUS
<1>4. Read /\ reading.pc = "network" /\ ring' = ring /\ queue' = queue
  BY DEF NetworkToken
<1>5. PICK l : l = serial[1].line
  OBVIOUS
<1>6. Head(serial).line = l
  <2>1. serial \in Seq(Entry) /\ serial # <<>>
    BY <1>4 DEF IsSerial, Read
  <2>2. Head(serial) = serial[1]
    BY <2>1
  <2> QED
    BY <1>5, <2>2, Zenon
<1>7. \/ /\ t \in {")", "CR", "LF"}
         /\ Parse("wait") /\ parser' = NoParser
         /\ misread' = (misread \/ (~cut /\ ~Shown(l, ap)))
      \/ /\ t = "quote" /\ UNCHANGED <<parser, ap, reading, misread>>
      \/ /\ t = "(" /\ parser' = [fields |-> <<>>, text |-> <<"(">>]
         /\ UNCHANGED <<ap, reading, misread>>
      \/ /\ t = "comma" /\ ap' = Stored(parser) /\ parser' = NextField(parser)
         /\ UNCHANGED <<reading, misread>>
      \/ /\ t \notin {")", "CR", "LF", "quote", "(", "comma"}
         /\ parser' = [parser EXCEPT !.text = Append(@, t)]
         /\ UNCHANGED <<ap, reading, misread>>
  BY <1>3, <1>6, Zenon DEF NetworkToken
<1>8. Reported(l, t)
  <2>1. (misread \/ (~cut /\ ~Shown(l, ap))) \in BOOLEAN
    OBVIOUS
  <2>2. misread' = (misread \/ (~cut /\ ~Shown(l, ap))) => (misread = FALSE /\ Shown(l, ap) => misread' = FALSE)
    BY <2>1
  <2> QED
    BY <1>2, <1>7, <2>2, Zenon DEF Reported, Parse
<1> QED
  BY <1>3, <1>4, <1>5, <1>8, Zenon

(* What the record holds shows the network when its bracket closes. *)
LEMMA ListedIsShown ==
    ASSUME NEW l \in Lines, IsNetwork(l), NEW k, k = Len(l) - 3, Listed(l, k) PROVE Shown(l, ap)
<1>1. PICK n : n = Len(l)
  OBVIOUS
<1>2. /\ n \in Nat /\ n >= 6
      /\ l[n - 2] = ")" /\ l[n - 1] = "CR" /\ l[n] = "LF" /\ CommasIn(l, n) = CommasIn(l, n - 3)
  BY <1>1, NetworkTokens
<1>3. DOMAIN l = 1..n
  BY <1>1, LineKinds
<1>4. ASSUME NEW j \in 1..n, l[j] \notin Punctuation, FieldsIn(l, j) \in 2..CommasIn(l, n)
      PROVE  ap[FieldsIn(l, j)] = <<l[j]>>
  <2>1. j \notin {n - 2, n - 1, n}
    BY <1>2, <1>4 DEF Punctuation, Ends
  <2>2. j \in 1..k
    BY <1>1, <1>2, <2>1
  <2>3. PICK f, c : f = FieldsIn(l, j) /\ c = CommasIn(l, k)
    OBVIOUS
  <2>4. f \in Nat /\ c \in Nat
    BY <1>1, <1>2, <2>3, FieldsOn, CommasOn
  <2>5. f \in 2..c
    BY <1>1, <1>2, <1>4, <2>3, Zenon
  <2>6. f >= 2 /\ f <= c
    BY <2>4, <2>5
  <2> QED
    BY <1>4, <2>2, <2>3, <2>6 DEF Listed
<1> QED
  BY <1>1, <1>3, <1>4 DEF Shown

(* The parser of +CWLAP has its fields in order. *)
LEMMA ListedOn ==
    ASSUME Shaped, NEW l \in Lines, IsNetwork(l), NEW k \in 3..(Len(l) - 4), Listed(l, k), Reported(l, l[k + 1])
    PROVE  /\ Listed(l, k + 1)' /\ reading' = reading /\ misread' = misread
           /\ ap' = [f \in ApFields |-> ap'[f]] /\ parser' = [fields |-> parser'.fields, text |-> parser'.text]
<1>1. PICK n : n = Len(l)
  OBVIOUS
<1>2. /\ n \in Nat /\ n >= 6
      /\ \A i \in 4..(n - 3) : l[i] \notin Ends \cup {":", "(", ")", "+CWLAP"}
      /\ \A i \in 4..(n - 3) : l[i] # "quote" =>
             FieldsIn(l, i) = CommasIn(l, i) + (IF l[i] = "comma" THEN 0 ELSE 1)
      /\ CommasIn(l, n) <= 10
  BY <1>1, NetworkTokens
<1>3. k \in 3..(n - 4) /\ k \in Nat /\ k + 1 \in 4..(n - 3) /\ k + 1 \in 0..n
  BY <1>1, <1>2
<1>4. PICK t : t = l[k + 1]
  OBVIOUS
<1>5. t \notin Ends \cup {":", "(", ")", "+CWLAP"} /\ (t \in Punctuation => t \in {"comma", "quote"})
  BY <1>2, <1>3, <1>4 DEF Punctuation
<1>6. PICK c, f : c = CommasIn(l, k) /\ f = FieldsIn(l, k)
  OBVIOUS
<1>7. PICK d, g : d = CommasIn(l, k + 1) /\ g = FieldsIn(l, k + 1)
  OBVIOUS
<1>8. /\ c \in Nat /\ d = c + (IF t = "comma" THEN 1 ELSE 0)
      /\ f \in Nat /\ g = f + (IF t \notin Punctuation THEN 1 ELSE 0)
  BY <1>3, <1>4, <1>6, <1>7, CommasOn, FieldsOn
<1>9. t # "quote" => g = d + (IF t = "comma" THEN 0 ELSE 1)
  BY <1>2, <1>3, <1>4, <1>7
<1>10. d <= 10
  <2>1. n \in Nat /\ k + 1 \in 0..n
    BY <1>2, <1>3
  <2>2. CommasIn(l, k + 1) <= CommasIn(l, n) /\ CommasIn(l, n) \in Nat /\ CommasIn(l, k + 1) \in Nat
    <3>1. PICK m : m = k + 1
      OBVIOUS
    <3>2. m \in Nat /\ m \in 0..n
      BY <2>1, <3>1
    <3>3. CommasIn(l, m) <= CommasIn(l, n)
      BY <2>1, <3>2, FieldsGrow
    <3>4. CommasIn(l, n) \in Nat /\ CommasIn(l, m) \in Nat
      BY <2>1, <3>2, CommasOn
    <3> QED
      BY <3>1, <3>3, <3>4, Zenon
  <2> QED
    BY <1>2, <1>7, <2>2
<1>11. /\ parser.fields \in Seq({"seen"}) /\ Len(parser.fields) = c
       /\ f \in {c, c + 1}
       /\ c >= 1 /\ f = c => parser.text = <<>>
       /\ \A j \in 1..k :
             l[j] \notin Punctuation /\ FieldsIn(l, j) >= 2 =>
                 /\ FieldsIn(l, j) = c + 1 => parser.text = <<l[j]>>
                 /\ FieldsIn(l, j) <= c => ap[FieldsIn(l, j)] = <<l[j]>>
  BY <1>6 DEF Listed
<1>12. \A j \in 1..k : FieldsIn(l, j) \in Nat /\ FieldsIn(l, j) <= f
  <2>1. ASSUME NEW j \in 1..k PROVE FieldsIn(l, j) \in Nat /\ FieldsIn(l, j) <= f
    <3>1. j \in Nat /\ j \in 0..k
      BY <1>3
    <3>2. FieldsIn(l, j) \in Nat
      BY <3>1, FieldsOn
    <3>3. FieldsIn(l, j) <= FieldsIn(l, k)
      BY <1>3, <3>1, FieldsGrow
    <3> QED
      BY <1>6, <3>2, <3>3, Zenon
  <2> QED
    BY <2>1
<1>13. /\ ap = [x \in ApFields |-> ap[x]] /\ parser = [fields |-> parser.fields, text |-> parser.text]
  BY DEF Shaped
<1>14. SUFFICES /\ reading' = reading /\ misread' = misread
                /\ ap' = [x \in ApFields |-> ap'[x]] /\ parser' = [fields |-> parser'.fields, text |-> parser'.text]
                /\ parser'.fields \in Seq({"seen"}) /\ Len(parser'.fields) = d
                /\ g \in {d, d + 1}
                /\ d >= 1 /\ g = d => parser'.text = <<>>
                /\ \A j \in 1..(k + 1) :
                      l[j] \notin Punctuation /\ FieldsIn(l, j) >= 2 =>
                          /\ FieldsIn(l, j) = d + 1 => parser'.text = <<l[j]>>
                          /\ FieldsIn(l, j) <= d => ap'[FieldsIn(l, j)] = <<l[j]>>
  BY <1>7 DEF Listed
<1>15. CASE t = "quote"
  <2>1. parser' = parser /\ ap' = ap /\ reading' = reading /\ misread' = misread
    BY <1>4, <1>15 DEF Reported
  <2>2. t \in Punctuation /\ d = c /\ g = f
    BY <1>8, <1>15 DEF Punctuation
  <2>3. \A j \in 1..(k + 1) : l[j] \notin Punctuation => j \in 1..k
    BY <1>3, <1>4, <2>2
  <2> QED
    BY <1>11, <1>13, <2>1, <2>2, <2>3
<1>16. CASE t = "comma"
  <2>1. ap' = Stored(parser) /\ parser' = NextField(parser) /\ reading' = reading /\ misread' = misread
    BY <1>4, <1>16 DEF Reported
  <2>2. t \in Punctuation /\ d = c + 1 /\ g = f /\ g = d /\ f = c + 1 /\ c + 1 \in ApFields
    <3>1. t \in Punctuation
      BY <1>16 DEF Punctuation
    <3>2. d = c + 1 /\ g = f /\ g = d
      BY <1>8, <1>9, <1>16, <3>1
    <3> QED
      BY <1>8, <1>10, <3>1, <3>2 DEF ApFields
  <2>3. /\ parser' = [fields |-> parser'.fields, text |-> parser'.text]
        /\ parser'.fields = Append(parser.fields, "seen") /\ parser'.text = <<>>
    BY <2>1 DEF NextField
  <2>4. parser'.fields \in Seq({"seen"}) /\ Len(parser'.fields) = c + 1
    BY <1>11, <2>3
  <2>5. PICK v : v = IF c + 1 \in {2, 4} THEN parser.text
                     ELSE IF Head(parser.text) = "(" THEN <<"0">> ELSE parser.text
    OBVIOUS
  <2>6. ap' = [ap EXCEPT ![c + 1] = v]
    <3>1. Len(parser.fields) + 1 = c + 1
      BY <1>11
    <3> QED
      BY <2>1, <2>2, <2>5, <3>1, Zenon DEF Stored
  <2>7. /\ ap' = [x \in ApFields |-> ap'[x]] /\ ap'[c + 1] = v
        /\ \A x \in ApFields : x # c + 1 => ap'[x] = ap[x]
    BY <1>13, <2>2, <2>6
  <2>8. ASSUME NEW j \in 1..(k + 1), l[j] \notin Punctuation, FieldsIn(l, j) >= 2
        PROVE  /\ FieldsIn(l, j) = d + 1 => parser'.text = <<l[j]>>
               /\ FieldsIn(l, j) <= d => ap'[FieldsIn(l, j)] = <<l[j]>>
    <3>1. j \in 1..k
      BY <1>3, <1>4, <2>2, <2>8
    <3>2. PICK h : h = FieldsIn(l, j)
      OBVIOUS
    <3>3. h \in Nat /\ h <= f /\ h >= 2
      BY <1>12, <2>8, <3>1, <3>2
    <3>4. h # d + 1 /\ (h <= c \/ h = c + 1) /\ c \in Nat
      BY <1>8, <2>2, <3>3
    <3>5. CASE h <= c
      <4>1. ap[h] = <<l[j]>>
        BY <1>11, <2>8, <3>1, <3>2, <3>5
      <4>2. h \in ApFields /\ h # c + 1
        BY <1>8, <1>10, <2>2, <3>3, <3>5 DEF ApFields
      <4>3. ap'[h] = <<l[j]>>
        BY <2>7, <4>1, <4>2
      <4> QED
        BY <3>2, <3>4, <4>3, Zenon
    <3>6. CASE h = c + 1
      <4>1. parser.text = <<l[j]>>
        BY <1>11, <2>8, <3>1, <3>2, <3>6
      <4>2. l[j] # "(" /\ Head(<<l[j]>>) = l[j]
        BY <2>8 DEF Punctuation
      <4>3. v = <<l[j]>>
        BY <2>5, <4>1, <4>2
      <4>4. ap'[h] = <<l[j]>>
        BY <2>7, <3>6, <4>3
      <4> QED
        BY <3>2, <3>4, <4>4, Zenon
    <3> QED
      BY <3>4, <3>5, <3>6
  <2> QED
    BY <2>1, <2>2, <2>3, <2>4, <2>7, <2>8
<1>17. CASE t \notin Punctuation
  <2>1. /\ parser' = [fields |-> parser.fields, text |-> Append(parser.text, t)]
        /\ ap' = ap /\ reading' = reading /\ misread' = misread
    BY <1>4, <1>17 DEF Reported, Punctuation, Ends
  <2>2. d = c /\ g = f + 1 /\ g = d + 1 /\ f = c
    <3>1. t # "comma" /\ t # "quote"
      BY <1>17 DEF Punctuation
    <3> QED
      BY <1>8, <1>9, <1>17, <3>1
  <2>3. /\ parser' = [fields |-> parser'.fields, text |-> parser'.text]
        /\ parser'.fields = parser.fields /\ parser'.text = Append(parser.text, t)
    BY <2>1
  <2>4. ASSUME NEW j \in 1..(k + 1), l[j] \notin Punctuation, FieldsIn(l, j) >= 2
        PROVE  /\ FieldsIn(l, j) = d + 1 => parser'.text = <<l[j]>>
               /\ FieldsIn(l, j) <= d => ap'[FieldsIn(l, j)] = <<l[j]>>
    <3>1. PICK h : h = FieldsIn(l, j)
      OBVIOUS
    <3>2. CASE j = k + 1
      <4>1. h = g /\ l[j] = t
        BY <1>4, <1>7, <3>1, <3>2
      <4>2. c >= 1 /\ h = d + 1 /\ ~(h <= d)
        BY <1>8, <2>2, <2>4, <3>1, <4>1
      <4>3. parser.text = <<>>
        BY <1>11, <2>2, <4>2
      <4>4. parser'.text = <<t>>
        BY <2>3, <4>3, Appending, Zenon
      <4> QED
        BY <3>1, <4>1, <4>2, <4>4, Zenon
    <3>3. CASE j # k + 1
      <4>1. j \in 1..k
        BY <1>3, <3>3
      <4>2. h \in Nat /\ h <= c
        BY <1>12, <2>2, <3>1, <4>1
      <4>3. h # d + 1
        BY <1>8, <2>2, <4>2
      <4>4. ap[h] = <<l[j]>>
        BY <1>11, <2>4, <3>1, <4>1, <4>2
      <4> QED
        BY <2>1, <3>1, <4>3, <4>4, Zenon
    <3> QED
      BY <3>2, <3>3
  <2>5. g \in {d, d + 1} /\ g # d
    BY <1>8, <2>2
  <2> QED
    BY <1>11, <1>13, <2>1, <2>2, <2>3, <2>4, <2>5
<1> QED
  BY <1>5, <1>15, <1>16, <1>17

(* list() reads a network as it should. *)
LEMMA NetworkOn ==
    ASSUME Shaped, misread = FALSE, reading.pc = "network", Quiet(ring), NEW l \in Lines, NEW k \in 0..(Len(l) - 1),
           InNetwork(l, k), ring' = ring, queue' = queue, Reported(l, l[k + 1])
    PROVE  GoesOn(l, k) /\ misread' = FALSE
<1>1. IsNetwork(l) /\ k \in 2..(Len(l) - 3) /\ (k > 2 => Listed(l, k))
  BY DEF InNetwork
<1>2. PICK n : n = Len(l)
  OBVIOUS
<1>3. /\ n \in Nat /\ n >= 6 /\ l[3] = "(" /\ l[n - 2] = ")"
      /\ CommasIn(l, 3) = 0 /\ FieldsIn(l, 3) = 0
  BY <1>1, <1>2, NetworkTokens
<1>4. k \in 2..(n - 3) /\ k + 1 < n /\ k + 1 # n /\ k + 1 > 0 /\ k + 1 > 2
  <2>1. k \in 2..(n - 3)
    BY <1>1, <1>2
  <2> QED
    BY <1>3, <2>1
<1>5. Announced(l) = <<>> /\ OwedAt(l, k) = <<>> /\ OwedAt(l, k + 1) = <<>>
  BY <1>1, Announcements DEF Announcing, OwedAt
<1>6. /\ reading = [pc |-> "network", expects |-> reading.expects]
      /\ reading.expects \subseteq Sought \cup {"query_access_point"}
      /\ ap = [f \in ApFields |-> ap[f]] /\ IsRing(ring) /\ queue \in Seq(Events)
  BY DEF Shaped
<1>7. CASE k = 2
  <2>1. l[k + 1] = "("
    BY <1>3, <1>7
  <2>2. /\ parser' = [fields |-> <<>>, text |-> <<"(">>]
        /\ ap' = ap /\ reading' = reading /\ misread' = misread
    BY <2>1 DEF Reported
  <2>3. /\ parser' = [fields |-> parser'.fields, text |-> parser'.text]
        /\ parser'.fields = <<>>
    BY <2>2
  <2>4. Shaped'
    BY <1>6, <2>2, <2>3 DEF Shaped
  <2>5. Listed(l, 3)'
    <3>1. <<>> \in Seq({"seen"}) /\ Len(<<>>) = 0
      OBVIOUS
    <3>2. ASSUME NEW j \in 1..3 PROVE ~(FieldsIn(l, j) >= 2)
      <4>1. j \in Nat /\ j \in 0..3 /\ 3 \in Nat
        OBVIOUS
      <4>2. FieldsIn(l, j) \in Nat /\ FieldsIn(l, j) <= FieldsIn(l, 3)
        BY <4>1, FieldsOn, FieldsGrow
      <4> QED
        BY <1>3, <4>2
    <3> QED
      BY <1>3, <2>3, <3>1, <3>2 DEF Listed
  <2>6. InNetwork(l, k + 1)'
    <3>1. k + 1 = 3 /\ 3 \in 2..(Len(l) - 3)
      BY <1>2, <1>3, <1>7
    <3> QED
      BY <1>1, <2>5, <3>1 DEF InNetwork
  <2>7. Phase(l, k + 1)'
    BY <1>4, <2>2, <2>6 DEF Phase
  <2> QED
    BY <1>2, <1>4, <1>5, <2>2, <2>4, <2>7, Zenon DEF GoesOn
<1>8. CASE k = n - 3 /\ k # 2
  <2>1. l[k + 1] = ")" /\ k + 1 = n - 2
    <3>1. k + 1 = n - 2
      BY <1>3, <1>8
    <3> QED
      BY <1>3, <3>1
  <2>2. Shown(l, ap)
    <3>1. k > 2
      BY <1>3, <1>4, <1>8
    <3> QED
      BY <1>1, <1>2, <1>8, <3>1, ListedIsShown
  <2>3. /\ reading' = [reading EXCEPT !.pc = "wait"] /\ ap' = ap
        /\ parser' = NoParser /\ misread' = FALSE
    BY <2>1, <2>2 DEF Reported
  <2>4. reading' = [pc |-> "wait", expects |-> reading.expects] /\ reading'.pc = "wait" /\ reading'.expects = reading.expects
    BY <1>6, <2>3
  <2>5. Shaped'
    BY <1>6, <2>3, <2>4 DEF Shaped, NoParser
  <2>6. InRing(l, k + 1)'
    BY <1>1, <1>4 DEF InRing
  <2>7. Phase(l, k + 1)'
    BY <1>4, <2>3, <2>4, <2>6 DEF Phase
  <2> QED
    BY <1>2, <1>4, <1>5, <2>3, <2>5, <2>7, Zenon DEF GoesOn
<1>9. CASE k # n - 3 /\ k # 2
  <2>1. k \in 3..(Len(l) - 4) /\ k > 2
    <3>1. k \in 3..(n - 4)
      BY <1>3, <1>4, <1>9
    <3> QED
      BY <1>2, <3>1
  <2>2. /\ Listed(l, k + 1)' /\ reading' = reading /\ misread' = misread
        /\ ap' = [f \in ApFields |-> ap'[f]] /\ parser' = [fields |-> parser'.fields, text |-> parser'.text]
    BY <1>1, <2>1, ListedOn
  <2>3. Shaped'
    BY <1>6, <2>2 DEF Shaped
  <2>4. InNetwork(l, k + 1)'
    <3>1. k + 1 \in 2..(n - 3)
      BY <1>3, <1>4, <1>9
    <3> QED
      BY <1>1, <1>2, <2>2, <3>1 DEF InNetwork
  <2>5. Phase(l, k + 1)'
    BY <1>4, <2>2, <2>4 DEF Phase
  <2> QED
    BY <1>2, <1>4, <1>5, <2>2, <2>3, <2>5, Zenon DEF GoesOn
<1> QED
  BY <1>7, <1>8, <1>9

LEMMA NetworkGoesStraight ==
    ASSUME Straight, misread = FALSE, NetworkToken PROVE Straight' /\ misread' = FALSE
<1>1. IsSerial(serial) /\ AtPhase /\ Shaped
  BY DEF Straight
<1>2. PICK l : l = serial[1].line
  OBVIOUS
<1>3. Read /\ reading.pc = "network" /\ ring' = ring /\ queue' = queue /\ Reported(l, Token)
  BY <1>1, <1>2, NetworkDecides
<1>4. PICK k : k = ReadOf(serial[1])
  OBVIOUS
<1>5. Phase(l, k)
  BY <1>1, <1>2, <1>3, <1>4 DEF Read, AtPhase
<1>6. l \in Lines /\ k \in 0..(Len(l) - 1) /\ Token = l[k + 1]
  BY <1>1, <1>2, <1>3, <1>4, ReadToken
<1>7. Quiet(ring) /\ InNetwork(l, k)
  BY <1>3, <1>5 DEF Phase, Calm
<1>8. GoesOn(l, k) /\ misread' = FALSE
  BY <1>1, <1>3, <1>6, <1>7, NetworkOn
<1>9. /\ Shaped'
      /\ k + 1 = Len(l) => Calm' /\ queue' = queue \o OwedAt(l, k)
      /\ k + 1 < Len(l) => Phase(l, k + 1)' /\ queue' \o OwedAt(l, k + 1) = queue \o OwedAt(l, k)
  BY <1>8 DEF GoesOn
<1> QED
  BY <1>2, <1>3, <1>4, <1>8, <1>9, StraightOn

-----------------------------------------------------------------------------
(* The steps that read nothing. *)
LEMMA WaitGoesStraight ==
    ASSUME Straight, Wait \/ List PROVE Straight' /\ misread' = misread
<1>1. /\ reading.pc = "idle" /\ reading' = [pc |-> "wait", expects |-> reading'.expects]
      /\ reading'.expects \subseteq Sought \cup {"query_access_point"}
      /\ serial' = serial /\ ring' = ring /\ parser' = parser /\ ap' = ap
      /\ queue' = queue /\ saidEvents' = saidEvents /\ misread' = misread
  <2>1. CASE List
    BY <2>1 DEF List, Sought
  <2>2. CASE Wait
    <3>1. PICK asked \in {{}, Answers, {"send_ok", "send_fail"}} : reading' = [pc |-> "wait", expects |-> asked]
      BY <2>2 DEF Wait
    <3>2. asked \subseteq Sought
      BY DEF Sought
    <3> QED
      BY <2>2, <3>1, <3>2 DEF Wait
  <2> QED
    BY <2>1, <2>2
<1>2. Shaped'
  BY <1>1 DEF Straight, Shaped
<1>3. AtPhase'
  <2>1. CASE serial = <<>>
    <3>1. Calm
      BY <2>1 DEF Straight, AtPhase
    <3> QED
      BY <1>1, <2>1, <3>1 DEF AtPhase, Calm
  <2>2. CASE serial # <<>>
    <3>1. PICK l, k : l = serial[1].line /\ k = ReadOf(serial[1])
      OBVIOUS
    <3>2. Phase(l, k)
      BY <2>2, <3>1 DEF Straight, AtPhase
    <3>3. k = 0 /\ Calm
      BY <1>1, <3>2 DEF Phase
    <3>4. Calm'
      BY <1>1, <3>3 DEF Calm
    <3>5. ReadOf(serial'[1]) = 0
      BY <1>1, <3>1, <3>3, Zenon
    <3> QED
      BY <1>1, <2>2, <3>4, <3>5 DEF AtPhase, Phase
  <2> QED
    BY <2>1, <2>2
<1>4. IsSerial(serial') /\ Balanced(queue', serial', saidEvents')
  BY <1>1 DEF Straight
<1> QED
  BY <1>1, <1>2, <1>3, <1>4 DEF Straight

LEMMA TimeoutGoesStraight ==
    ASSUME Straight, Timeout, ~cut' PROVE Straight' /\ misread' = misread
<1>1. /\ serial = <<>> /\ reading.pc # "idle"
      /\ serial' = serial /\ saidEvents' = saidEvents /\ misread' = misread
  BY DEF Timeout, Late
<1>2. Calm /\ IsSerial(serial) /\ Balanced(queue, serial, saidEvents) /\ queue \in Seq(Events)
  BY <1>1 DEF Straight, AtPhase, Shaped
<1>3. Return /\ queue' = queue
  BY <1>1, <1>2 DEF Timeout, Calm
<1>4. /\ ring' = EmptyRing /\ parser' = NoParser /\ ap' = Unknown /\ reading' = [pc |-> "idle", expects |-> {}]
  BY <1>3 DEF Return
<1>5. Calm'
  BY <1>4, EmptyIsQuiet DEF Calm
<1>6. Shaped'
  BY <1>2, <1>3, <1>4, EmptyIsRing DEF Shaped, NoParser, Unknown
<1>7. AtPhase'
  BY <1>1, <1>5 DEF AtPhase
<1> QED
  BY <1>1, <1>2, <1>3, <1>6, <1>7 DEF Straight

LEMMA SayGoesStraight ==
    ASSUME Straight, Say PROVE Straight' /\ misread' = misread
<1>1. /\ reading' = reading /\ ring' = ring /\ parser' = parser /\ ap' = ap /\ queue' = queue /\ misread' = misread
  BY DEF Say
<1>2. PICK l \in Lines : /\ serial' = Append(serial, [line |-> l, left |-> l])
                         /\ saidEvents' = saidEvents \o Announced(l)
  BY DEF Say
<1>3. PICK e : e = [line |-> l, left |-> l]
  OBVIOUS
<1>4. IsSerial(serial) /\ serial \in Seq(Entry) /\ Balanced(queue, serial, saidEvents) /\ serial' = Append(serial, e)
  BY <1>2, <1>3 DEF Straight, IsSerial
<1>5. Balanced(queue', serial', saidEvents')
  BY <1>1, <1>2, <1>3, <1>4, BalancedSaid, Zenon
<1>6. l \in Seq(STRING) /\ Len(l) \in Nat /\ Len(l) >= 2
  BY LineKinds
<1>7. e \in Entry /\ e.line = l /\ e.left = l
  BY <1>3, <1>6 DEF Entry
<1>8. ReadOf(e) = 0 /\ Spoken(e)
  <2>1. ReadOf(e) = 0
    BY <1>6, <1>7 DEF ReadOf
  <2>2. Len(l) \in 1..Len(l) /\ \A j \in 1..Len(l) : l[j] = l[0 + j]
    BY <1>6
  <2> QED
    BY <1>7, <2>1, <2>2 DEF Spoken
<1>9. PICK n : n = Len(serial)
  OBVIOUS
<1>10. /\ n \in Nat /\ serial' \in Seq(Entry) /\ Len(serial') = n + 1 /\ serial'[n + 1] = e
       /\ \A i \in 1..n : serial'[i] = serial[i]
  BY <1>4, <1>7, <1>9
<1>11. IsSerial(serial')
  <2>1. ASSUME NEW i \in 1..(n + 1) PROVE Spoken(serial'[i]) /\ (i > 1 => serial'[i].left = serial'[i].line)
    <3>1. CASE i = n + 1
      BY <1>7, <1>8, <1>10, <3>1
    <3>2. CASE i # n + 1
      <4>1. i \in 1..n
        BY <1>10, <3>2
      <4> QED
        BY <1>4, <1>9, <1>10, <4>1 DEF IsSerial
    <3> QED
      BY <3>1, <3>2
  <2> QED
    BY <1>10, <2>1 DEF IsSerial
<1>12. serial' # <<>>
  <2>1. Len(serial') # 0
    BY <1>10
  <2> QED
    BY <2>1
<1>13. AtPhase'
  <2>1. CASE serial = <<>>
    <3>1. n = 0
      BY <1>9, <2>1
    <3>2. serial'[1] = e
      BY <1>10, <3>1
    <3>3. Calm'
      BY <1>1, <2>1 DEF Straight, AtPhase, Calm
    <3>4. ReadOf(serial'[1]) = 0
      BY <1>8, <3>2, Zenon
    <3> QED
      BY <1>12, <3>3, <3>4 DEF AtPhase, Phase
  <2>2. CASE serial # <<>>
    <3>1. n # 0
      BY <1>4, <1>9, <2>2
    <3>2. serial'[1] = serial[1]
      BY <1>10, <3>1
    <3>3. PICK m, k : m = serial[1].line /\ k = ReadOf(serial[1])
      OBVIOUS
    <3>4. m = serial'[1].line /\ k = ReadOf(serial'[1])
      BY <3>2, <3>3, Zenon
    <3>5. Phase(m, k)
      BY <2>2, <3>3 DEF Straight, AtPhase
    <3>6. Phase(m, k)'
      BY <1>1, <3>5 DEF Phase, Calm, InRing, InPacket, InNetwork, Listed
    <3> QED
      BY <1>12, <3>4, <3>6, Zenon DEF AtPhase
  <2> QED
    BY <2>1, <2>2
<1>14. Shaped'
  BY <1>1 DEF Straight, Shaped
<1> QED
  BY <1>1, <1>5, <1>11, <1>13, <1>14 DEF Straight

(* The invariant holds at first, and each step keeps it. *)
LEMMA AtInitInv == ASSUME AtInit PROVE AtInv
<1>1. /\ serial = <<>> /\ reading = [pc |-> "idle", expects |-> {}]
      /\ ring = EmptyRing /\ parser = NoParser /\ ap = Unknown
      /\ queue = <<>> /\ saidEvents = <<>> /\ cut = FALSE /\ misread = FALSE
  BY DEF AtInit
<1>2. Shaped
  <2>1. IsRing(ring)
    BY <1>1, EmptyIsRing
  <2>2. queue \in Seq(Events)
    BY <1>1
  <2>3. ap = [f \in ApFields |-> ap[f]]
    BY <1>1 DEF Unknown
  <2>4. parser = [fields |-> parser.fields, text |-> parser.text]
    BY <1>1 DEF NoParser
  <2>5. reading = [pc |-> reading.pc, expects |-> reading.expects] /\ reading.expects = {}
    BY <1>1
  <2> QED
    BY <2>1, <2>2, <2>3, <2>4, <2>5 DEF Shaped
<1>3. AtPhase
  BY <1>1, EmptyIsQuiet DEF AtPhase, Calm
<1>4. IsSerial(serial)
  <2>1. <<>> \in Seq(Entry) /\ Len(<<>>) = 0
    OBVIOUS
  <2> QED
    BY <1>1, <2>1 DEF IsSerial
<1>5. Balanced(queue, serial, saidEvents)
  <2>1. PICK p : p = [i \in 0..0 |-> queue]
    OBVIOUS
  <2>2. p[0] = queue /\ queue \in Seq(Events) /\ Len(<<>>) = 0
    BY <1>2, <2>1 DEF Shaped
  <2>3. Accounts(p, queue, <<>>, saidEvents)
    <3>1. saidEvents = queue
      BY <1>1
    <3>2. PICK m : m = Len(<<>>)
      OBVIOUS
    <3>3. m = 0 /\ (\A i \in 0..m : i = 0) /\ (\A i \in 1..m : FALSE)
      BY <2>2, <3>2
    <3>4. PICK a : a = queue
      OBVIOUS
    <3>5. p[0] = a /\ a \in Seq(Events)
      BY <2>2, <3>4
    <3>6. /\ \A i \in 0..m : p[i] \in Seq(Events)
          /\ p[0] = a /\ p[m] = a
          /\ \A i \in 1..m : p[i] = p[i - 1] \o Owes(<<>>[i])
      BY <3>3, <3>5
    <3> QED
      BY <3>1, <3>2, <3>4, <3>6, Zenon DEF Accounts
  <2> QED
    BY <1>1, <2>3 DEF Balanced
<1> QED
  BY <1>1, <1>2, <1>3, <1>4, <1>5 DEF AtInv, Straight

LEMMA AtStepInv == ASSUME AtInv, [AtNext]_atVars PROVE AtInv'
<1>1. cut \in BOOLEAN /\ misread = FALSE /\ (~cut => Straight)
  BY DEF AtInv
<1>2. CASE UNCHANGED atVars
  <2>1. /\ serial' = serial /\ reading' = reading /\ ring' = ring /\ parser' = parser /\ ap' = ap /\ queue' = queue
        /\ saidEvents' = saidEvents /\ cut' = cut /\ misread' = misread
    BY <1>2 DEF atVars
  <2>2. AtPhase => AtPhase'
    BY <2>1 DEF AtPhase, Phase, Calm, InRing, InPacket, InNetwork, Listed
  <2>3. Shaped => Shaped'
    BY <2>1 DEF Shaped
  <2> QED
    BY <2>1, <2>2, <2>3 DEF AtInv, Straight
<1>3. CASE AtNext
  <2>1. cut' \in BOOLEAN /\ (cut => cut') /\ (cut' # cut => Timeout)
    <3>1. CASE Timeout
      BY <1>1, <3>1 DEF Timeout, Late
    <3>2. CASE Match \/ PacketToken \/ NetworkToken
      BY <1>1, <3>2 DEF Match, PacketToken, NetworkToken, Read
    <3>3. CASE Wait \/ List \/ Say
      BY <1>1, <3>3 DEF Wait, List, Say
    <3> QED
      BY <1>3, <3>1, <3>2, <3>3 DEF AtNext
  <2>2. CASE ~cut'
    <3>1. Straight
      BY <1>1, <2>1, <2>2
    <3>2. CASE Match
      <4>1. misread' = misread
        BY <3>1, <3>2, MatchDecides DEF Straight, Shaped
      <4> QED
        BY <1>1, <2>1, <3>1, <3>2, <4>1, MatchGoesOn DEF AtInv
    <3>3. CASE PacketToken
      <4>1. misread' = misread
        BY <3>3 DEF PacketToken
      <4> QED
        BY <1>1, <2>1, <3>1, <3>3, <4>1, PacketGoesStraight DEF AtInv
    <3>4. CASE NetworkToken
      BY <1>1, <2>1, <3>1, <3>4, NetworkGoesStraight DEF AtInv
    <3>5. CASE Timeout
      BY <1>1, <2>1, <2>2, <3>1, <3>5, TimeoutGoesStraight DEF AtInv
    <3>6. CASE Wait \/ List
      BY <1>1, <2>1, <3>1, <3>6, WaitGoesStraight DEF AtInv
    <3>7. CASE Say
      BY <1>1, <2>1, <3>1, <3>7, SayGoesStraight DEF AtInv
    <3> QED
      BY <1>3, <3>2, <3>3, <3>4, <3>5, <3>6, <3>7 DEF AtNext
  <2>3. CASE cut'
    <3>1. misread' = FALSE
      <4>1. CASE NetworkToken
        <5>1. cut' = cut
          BY <4>1 DEF NetworkToken, Read
        <5>2. misread' = misread \/ misread' = (misread \/ (~cut /\ ~Shown(Head(serial).line, ap)))
          BY <4>1, Zenon DEF NetworkToken
        <5> QED
          BY <1>1, <2>3, <5>1, <5>2
      <4>2. CASE Match \/ PacketToken \/ Timeout \/ Wait \/ List \/ Say
        BY <1>1, <4>2 DEF Match, PacketToken, Timeout, Wait, List, Say
      <4> QED
        BY <1>3, <4>1, <4>2 DEF AtNext
    <3> QED
      BY <2>1, <2>3, <3>1 DEF AtInv
  <2> QED
    BY <2>1, <2>2, <2>3
<1> QED
  BY <1>2, <1>3

(* What the invariant says once all is read. *)
LEMMA AtInvSays == ASSUME AtInv PROVE LinesReadAsSaid
<1>1. NetworksAsListed
  BY DEF AtInv, NetworksAsListed
<1>2. ASSUME ~cut, serial = <<>> PROVE queue = saidEvents
  BY <1>2, BalancedAtEnd DEF AtInv, Straight
<1> QED
  BY <1>1, <1>2 DEF LinesReadAsSaid, EventsAsAnnounced

(* For every set of lines that AtResponses allows, in any order and number *)
(* and with any ring buffer of five tokens or more: the queue holds the    *)
(* events as they were announced once all is read and no timeout cut a     *)
(* line, and list() shows the networks with their fields in place.         *)
THEOREM LinesCorrect == AtSpec => []LinesReadAsSaid
<1>1. AtInv /\ [AtNext]_atVars => AtInv'
  BY AtStepInv
<1> QED
  BY <1>1, AtInitInv, AtInvSays, PTL DEF AtSpec

-----------------------------------------------------------------------------
(* A step of the composition is one of each part, or leaves it alone. *)
LEMMA LibraryStep == [LibraryNext]_libraryVars => [Next]_vars /\ [HttpNext]_httpVars /\ [AtNext]_atVars
BY Zenon DEF LibraryNext, libraryVars

(* A behaviour of the three is one of each: of the allocator, of the       *)
(* exchange of HTTP messages and of what reads the lines of the module.    *)
THEOREM LibraryParts == LibrarySpec => Spec /\ HttpSpec /\ AtSpec
<1>1. LibraryInit => Init /\ HttpInit /\ AtInit
  BY DEF LibraryInit
<1> QED
  BY <1>1, LibraryStep, PTL DEF LibrarySpec, Spec, HttpSpec, AtSpec

(* What is proved of the allocator and of the lines holds in the           *)
(* composition.                                                            *)
THEOREM LibraryCorrect ==
    LibrarySpec => []FreeListExact /\ []CoalescedUntilDrained /\ []BlocksTile /\ []LinesReadAsSaid
BY LibraryParts, ListExact, FreeBlocksApart, BlocksCorrect, LinesCorrect, PTL
=============================================================================

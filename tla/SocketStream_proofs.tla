------------------------- MODULE SocketStream_proofs -------------------------
(***************************************************************************)
(* Proofs, for a buffer of any size and any number of bytes, that the      *)
(* reader of a socket gets the bytes of the chunks in order, none twice    *)
(* and none skipped, as long as no feed() gives up waiting for it; and     *)
(* that neither of the counts it decrements ever drops below zero.         *)
(***************************************************************************)
EXTENDS SocketStream, SequenceTheorems, TLAPS

StreamFlags == /\ rough \in BOOLEAN /\ consumer \in BOOLEAN /\ waiter \in BOOLEAN
               /\ few \in BOOLEAN /\ gaveup \in BOOLEAN

StreamTypes ==
    /\ sent \in 0..MaxBytes /\ notified \in 0..sent /\ fetched \in 0..sent
    /\ buffer \in [1..Chunk -> 0..MaxBytes]
    /\ span \in [off : Nat, len : Int] /\ tail \in [off : Nat, len : Int]
    /\ bytes \in 0..Chunk /\ total \in 0..(Word - 1)
    /\ feeder \in {"poll", "scan", "fetch", "publish", "count", "wake", "wait"}
    /\ remaining \in 0..(Word - 1) /\ size \in 0..Chunk
    /\ reader \in {"idle", "check", "wait", "front", "subspan", "assign",
                   "total", "bytes", "release"}
    /\ byte \in 0..MaxBytes
    /\ fed \in Seq(1..MaxBytes) /\ delivered \in Seq(0..MaxBytes)

(* The feed has a chunk in its buffer. *)
HasChunk == feeder \in {"publish", "count", "wake", "wait"}

(* A chunk is never empty, and the reader that goes on to a byte finds one *)
(* counted until it counts it down itself.                                 *)
ChunkInv ==
    /\ feeder = "fetch" => remaining > 0
    /\ HasChunk => size > 0 /\ size <= remaining
    /\ reader \in {"front", "subspan", "assign", "total", "bytes"} => bytes > 0

(* The rest holds as long as no feed() gave up.  What is fed was announced *)
(* before, so the total is never below what is left of the chunk.          *)
Resting == reader \in {"idle", "check", "wait"}
Left    == Len(fed) - Len(delivered)
Shared  == feeder \in {"wake", "wait"}
Counted == IF reader \in {"bytes", "release"} THEN 1 ELSE 0

CountInv ==
    /\ total = notified - Len(delivered) - Counted
    /\ feeder \in {"poll", "scan"} => Len(fed) <= notified
    /\ feeder = "fetch" => Len(fed) + remaining <= notified
    /\ HasChunk => size <= Len(fed) /\ Len(fed) - size + remaining <= notified

(* Unless the chunk is shared the reader rests and has read all the others.*)
PhaseInv ==
    /\ ~Shared => /\ Resting /\ bytes = 0
                  /\ Left = IF HasChunk THEN size ELSE 0
    /\ feeder = "count" => span = [off |-> 1, len |-> size]
    /\ Shared => /\ Left \in 0..size
                 /\ ~Resting => Left > 0
                 /\ bytes = IF reader = "release" THEN Left - 1 ELSE Left

(* What the reader has in its hands while the chunk is shared.             *)
HandInv ==
    Shared =>
        /\ span = IF reader \in {"total", "bytes", "release"}
                  THEN [off |-> size - Left + 2, len |-> Left - 1]
                  ELSE [off |-> size - Left + 1, len |-> Left]
        /\ reader = "assign" => tail = [off |-> size - Left + 2, len |-> Left - 1]
        /\ reader \in {"subspan", "assign", "total", "bytes", "release"} =>
               byte = fed[Len(delivered) + 1]

(* The feed is woken only where the chunk is used up.                      *)
WakeInv ==
    /\ waiter => Shared /\ Left = 0
    /\ few /\ reader \in {"bytes", "release"} => Left = 1

DataInv ==
    /\ \A i \in 1..Len(delivered) : delivered[i] = fed[i]
    /\ HasChunk => \A i \in 1..size : buffer[i] = fed[Len(fed) - size + i]

StreamInv == /\ StreamFlags /\ StreamTypes /\ ChunkInv
             /\ ~gaveup => CountInv /\ PhaseInv /\ HandInv /\ WakeInv /\ DataInv

-----------------------------------------------------------------------------
LEMMA WordPositive == Word \in Nat /\ Word > 0 /\ Chunk \in Nat /\ Chunk > 0 /\ MaxBytes \in Nat
                      /\ MaxBytes + Chunk < Word
BY StreamAssumption

LEMMA ModRange == ASSUME NEW n \in Int PROVE n % Word \in 0..(Word - 1)
BY WordPositive

LEMMA ModSmall == ASSUME NEW n \in 0..(Word - 1) PROVE n % Word = n
BY WordPositive

(* A chunk more on what has been fed. *)
LEMMA FedMore ==
    ASSUME NEW s \in Seq(1..MaxBytes), NEW k \in Nat, NEW n \in Nat, n + k <= MaxBytes
    PROVE  LET t == s \o [i \in 1..k |-> n + i] IN
           /\ t \in Seq(1..MaxBytes) /\ Len(t) = Len(s) + k
           /\ \A i \in 1..Len(s) : t[i] = s[i]
           /\ \A i \in 1..k : t[Len(s) + i] = n + i
<1> DEFINE c == [i \in 1..k |-> n + i]
<1>1. c \in Seq(1..MaxBytes) /\ Len(c) = k /\ \A i \in 1..k : c[i] = n + i
  <2>1. c \in [1..k -> 1..MaxBytes]
    BY WordPositive
  <2>2. c \in Seq(1..MaxBytes)
    BY <2>1, SeqDef
  <2>3. DOMAIN c = 1..k
    OBVIOUS
  <2> QED
    BY <2>2, <2>3, LenProperties
<1> HIDE DEF c
<1>2. s \o c \in Seq(1..MaxBytes) /\ Len(s \o c) = Len(s) + k
  BY <1>1, ConcatProperties
<1>3. \A i \in 1..(Len(s) + k) : (s \o c)[i] = IF i <= Len(s) THEN s[i] ELSE c[i - Len(s)]
  BY <1>1, ConcatProperties
<1>4. Len(s) \in Nat
  OBVIOUS
<1>5. \A i \in 1..Len(s) : (s \o c)[i] = s[i]
  BY <1>3, <1>4
<1>6. \A i \in 1..k : (s \o c)[Len(s) + i] = n + i
  BY <1>1, <1>3, <1>4
<1> QED
  BY <1>2, <1>5, <1>6 DEF c

LEMMA InitCount == ASSUME Init PROVE CountInv
<1>1. Len(fed) = 0 /\ Len(delivered) = 0 /\ total = 0 /\ notified = 0
  BY DEF Init
<1>2. Counted = 0 /\ feeder = "poll" /\ feeder # "fetch" /\ ~HasChunk
  BY DEF Init, Counted, HasChunk
<1> QED
  BY <1>1, <1>2 DEF CountInv

LEMMA StreamInitInv == Init => StreamInv
<1> SUFFICES ASSUME Init PROVE StreamInv
  OBVIOUS
<1> USE WordPositive DEF Init
<1>1. StreamFlags
  BY StreamAssumption DEF StreamFlags
<1>2. StreamTypes
  BY DEF StreamTypes, Garbage
<1>3. ChunkInv
  BY DEF ChunkInv, HasChunk
<1>4. CountInv
  BY InitCount
<1>7. DataInv
  BY DEF HasChunk, DataInv
<1>5. PhaseInv
  BY DEF PhaseInv, Shared, Resting, Left, HasChunk
<1>6. HandInv
  BY DEF HandInv, Shared
<1>8. WakeInv
  BY DEF WakeInv
<1> QED
  BY <1>1, <1>2, <1>3, <1>4, <1>5, <1>6, <1>7, <1>8 DEF StreamInv

LEMMA StreamNextFlags == StreamFlags /\ [Next]_vars => StreamFlags'
<1> SUFFICES ASSUME StreamFlags, [Next]_vars PROVE StreamFlags'
  OBVIOUS
<1> USE DEF StreamFlags, Next, Feed, Read, PeerSends, Notify, Scan, Fetch, FetchFailure, PublishSpan,
        PublishCount, WakeReader, FeedReturns, Call, Check, Woken, ReadTimeout, TakeFront, Subspan,
        Assign, CountTotal, CountByte, ReadReturns, vars, module, wifi, locals
<1>1. rough' \in BOOLEAN /\ consumer' \in BOOLEAN
  OBVIOUS
<1>2. waiter' \in BOOLEAN
  OBVIOUS
<1>3. few' \in BOOLEAN
  <2>1. \/ few' = few \/ few' = (total <= 1) \/ few' = (bytes <= 1 \/ few)
    OBVIOUS
  <2>2. CASE few' = (total <= 1)
    <3>1. CASE total <= 1
      BY <2>2, <3>1
    <3>2. CASE ~(total <= 1)
      BY <2>2, <3>2
    <3> QED
      BY <3>1, <3>2
  <2>3. CASE few' = (bytes <= 1 \/ few)
    BY <2>3, Zenon
  <2> QED
    BY <2>1, <2>2, <2>3
<1>4. gaveup' \in BOOLEAN
  OBVIOUS
<1> QED
  BY <1>1, <1>2, <1>3, <1>4

LEMMA StreamNextTypes == StreamTypes /\ ChunkInv /\ [Next]_vars => StreamTypes' /\ ChunkInv'
<1> SUFFICES ASSUME StreamTypes, ChunkInv, [Next]_vars PROVE StreamTypes' /\ ChunkInv'
  OBVIOUS
<1> USE WordPositive DEF StreamTypes, ChunkInv, HasChunk
<1>1. CASE PeerSends
  BY <1>1 DEF PeerSends, module, wifi, locals
<1>2. CASE Notify
  BY <1>2, ModRange DEF Notify, module, wifi, locals
<1>3. CASE Scan
  BY <1>3 DEF Scan, module, wifi, locals
<1>4. CASE Fetch
  BY <1>4, FedMore DEF Fetch, module, wifi, locals, Smaller
<1>5. CASE FetchFailure
  BY <1>5 DEF FetchFailure, LeaveFeedSocket, Garbage, module, wifi, locals, Smaller
<1>6. CASE PublishSpan \/ PublishCount \/ WakeReader
  <2>1. CASE PublishSpan
    BY <2>1 DEF PublishSpan, module, wifi, locals
  <2>2. CASE PublishCount
    BY <2>2 DEF PublishCount, module, wifi, locals
  <2>3. CASE WakeReader
    BY <2>3 DEF WakeReader, module, wifi, locals
  <2> QED
    BY <1>6, <2>1, <2>2, <2>3
<1>7. CASE FeedReturns
  BY <1>7 DEF FeedReturns, LeaveFeedSocket, Garbage, module, wifi, locals
<1>8. CASE Call \/ Check \/ Woken \/ ReadTimeout \/ Subspan \/ Assign
  <2>1. CASE Call
    BY <2>1 DEF Call, module, wifi, locals
  <2>5. CASE Check
    BY <2>5 DEF Check, module, wifi, locals
  <2>2. CASE Woken \/ ReadTimeout
    BY <2>2 DEF Woken, ReadTimeout, module, wifi, locals
  <2>3. CASE Subspan
    BY <2>3 DEF Subspan, module, wifi, locals
  <2>4. CASE Assign
    BY <2>4 DEF Assign, module, wifi, locals
  <2> QED
    BY <1>8, <2>1, <2>2, <2>3, <2>4, <2>5
<1>9. CASE TakeFront
  BY <1>9 DEF TakeFront, module, wifi, locals
<1>10. CASE CountTotal
  BY <1>10, ModRange DEF CountTotal, module, wifi, locals
<1>11. CASE CountByte
  BY <1>11, ModSmall DEF CountByte, module, wifi, locals
<1>12. CASE ReadReturns
  BY <1>12 DEF ReadReturns, module, wifi, locals
<1>13. CASE UNCHANGED vars
  BY <1>13 DEF vars, module, wifi, locals
<1> QED
  BY <1>1, <1>2, <1>3, <1>4, <1>5, <1>6, <1>7, <1>8, <1>9, <1>10, <1>11, <1>12, <1>13 DEF Next, Feed, Read

(* The types these proofs need: of the numbers, not of the flags. *)
Numbers ==
    /\ MaxBytes \in Nat /\ Word \in Nat /\ MaxBytes + Chunk < Word
    /\ sent \in 0..MaxBytes /\ notified \in 0..sent /\ fetched \in 0..sent
    /\ bytes \in 0..Chunk /\ total \in 0..(Word - 1) /\ Chunk \in Nat
    /\ remaining \in 0..(Word - 1) /\ size \in 0..Chunk
    /\ Len(fed) \in Nat /\ Len(delivered) \in Nat
    /\ feeder = "fetch" => remaining > 0
    /\ HasChunk => size > 0 /\ size <= remaining
    /\ reader \in {"front", "subspan", "assign", "total", "bytes"} => bytes > 0

LEMMA StreamNumbers == ASSUME StreamTypes, ChunkInv PROVE Numbers
<1>1. Len(fed) \in Nat /\ Len(delivered) \in Nat
  BY DEF StreamTypes
<1> QED
  BY <1>1, WordPositive DEF StreamTypes, ChunkInv, Numbers

LEMMA FetchFacts ==
    ASSUME StreamTypes, Numbers, Fetch
    PROVE  /\ feeder = "fetch" /\ feeder' = "publish" /\ size' \in Nat /\ size' <= remaining
           /\ Len(fed') = Len(fed) + size'
           /\ \A i \in 1..Len(fed) : fed'[i] = fed[i]
           /\ \A i \in 1..size' : buffer'[i] = fed'[Len(fed) + i]
           /\ UNCHANGED <<delivered, reader, bytes, total, notified, remaining>>
<1>1. /\ size' \in Nat /\ size' <= remaining /\ size' <= Chunk
      /\ fetched \in Nat /\ fetched + size' <= MaxBytes
  BY DEF Numbers, Fetch, Smaller
<1>2. fed \in Seq(1..MaxBytes) /\ fed' = fed \o [i \in 1..size' |-> fetched + i]
  BY DEF StreamTypes, Fetch
<1>3. \A i \in 1..size' : buffer'[i] = fetched + i
  BY <1>1 DEF Fetch, Numbers
<1>4. /\ Len(fed') = Len(fed) + size'
      /\ \A i \in 1..Len(fed) : fed'[i] = fed[i]
      /\ \A i \in 1..size' : fed'[Len(fed) + i] = fetched + i
  BY <1>1, <1>2, FedMore
<1> QED
  BY <1>1, <1>3, <1>4 DEF Fetch

LEMMA StreamNextCount ==
    ASSUME StreamTypes, Numbers, CountInv, PhaseInv, [Next]_vars, ~gaveup' PROVE CountInv'
<1> USE DEF Numbers, CountInv, Counted, HasChunk
<1>1. CASE PeerSends
  BY <1>1 DEF PeerSends, module, wifi, locals
<1>2. CASE Notify
  <2>1. /\ total' = (total + sent - notified) % Word /\ notified' = sent
        /\ feeder = "poll" /\ feeder' = "scan" /\ UNCHANGED <<fed, delivered, reader>>
    BY <1>2 DEF Notify
  <2>2. total + sent - notified \in 0..(Word - 1)
    BY DEF Counted
  <2>3. total' = total + sent - notified
    BY <2>1, <2>2, ModSmall
  <2>4. Len(fed') <= notified' /\ Len(delivered') = Len(delivered) /\ Counted' = Counted
    BY <2>1
  <2>5. total' = notified' - Len(delivered') - Counted'
    BY <2>1, <2>3, <2>4
  <2> QED
    BY <2>1, <2>4, <2>5
<1>3. CASE Scan
  BY <1>3 DEF Scan, PhaseInv, Shared, Resting, Left, module, wifi, locals
<1>4. CASE Fetch
  <2>1. /\ feeder = "fetch" /\ feeder' = "publish" /\ size' \in Nat /\ size' <= remaining
        /\ Len(fed') = Len(fed) + size'
        /\ UNCHANGED <<delivered, reader, bytes, total, notified, remaining>>
    BY <1>4, FetchFacts
  <2> QED
    BY <2>1
<1>5. CASE FetchFailure
  BY <1>5 DEF FetchFailure, LeaveFeedSocket, module, wifi, locals
<1>6. CASE PublishSpan \/ PublishCount \/ WakeReader
  BY <1>6 DEF PublishSpan, PublishCount, WakeReader, module, wifi, locals
<1>7. CASE FeedReturns
  BY <1>7 DEF FeedReturns, LeaveFeedSocket, module, wifi, locals
<1>8. CASE Call \/ Check \/ Woken \/ ReadTimeout
  BY <1>8 DEF Call, Check, Woken, ReadTimeout, module, wifi, locals
<1>9. CASE TakeFront \/ Subspan \/ Assign
  BY <1>9 DEF TakeFront, Subspan, Assign, module, wifi, locals
<1>10. CASE CountTotal
  <2>1. /\ reader = "total" /\ reader' = "bytes" /\ total' = (total - 1) % Word
        /\ UNCHANGED <<feeder, fed, delivered, size, notified, remaining>>
    BY <1>10 DEF CountTotal, module, wifi
  <2>2. HasChunk /\ Len(fed) - Len(delivered) > 0
    BY <2>1 DEF PhaseInv, Shared, Resting, Left
  <2>3. total - 1 \in 0..(Word - 1)
    BY <2>1, <2>2
  <2>4. total' = total - 1
    BY <2>1, <2>3, ModSmall
  <2> QED
    BY <2>1, <2>4
<1>11. CASE CountByte
  BY <1>11 DEF CountByte, module, wifi, locals
<1>12. CASE ReadReturns
  <2>1. /\ reader = "release" /\ reader' = "idle" /\ Len(delivered') = Len(delivered) + 1
        /\ UNCHANGED <<feeder, fed, total, size, notified, remaining>>
    BY <1>12 DEF ReadReturns, module, wifi, StreamTypes
  <2> QED
    BY <2>1
<1>13. CASE UNCHANGED vars
  BY <1>13 DEF vars, module, wifi, locals
<1> QED
  BY <1>1, <1>2, <1>3, <1>4, <1>5, <1>6, <1>7, <1>8, <1>9, <1>10, <1>11, <1>12, <1>13
     DEF Next, Feed, Read

LEMMA StreamNextPhase ==
    ASSUME StreamTypes, Numbers, PhaseInv, WakeInv, [Next]_vars, ~gaveup' PROVE PhaseInv'
<1> USE DEF Numbers, PhaseInv, HasChunk, Shared, Resting, Left
<1>1. CASE PeerSends \/ Notify \/ Scan
  BY <1>1 DEF PeerSends, Notify, Scan, module, wifi, locals
<1>4. CASE Fetch
  <2>1. /\ feeder = "fetch" /\ feeder' = "publish" /\ size' \in Nat
        /\ Len(fed') = Len(fed) + size'
        /\ UNCHANGED <<delivered, reader, bytes>>
    BY <1>4, FetchFacts
  <2> QED
    BY <2>1
<1>5. CASE FetchFailure
  BY <1>5 DEF FetchFailure, LeaveFeedSocket, module, wifi, locals
<1>6. CASE PublishSpan \/ WakeReader
  BY <1>6 DEF PublishSpan, WakeReader, module, wifi, locals
<1>14. CASE PublishCount
  BY <1>14 DEF PublishCount, module, wifi, locals
<1>7. CASE FeedReturns
  <2>1. waiter
    BY <1>7 DEF FeedReturns
  <2>2. Left = 0
    BY <2>1 DEF WakeInv
  <2>3. /\ feeder = "wait" /\ feeder' \in {"fetch", "poll"}
        /\ UNCHANGED <<delivered, fed, reader, bytes>>
    BY <1>7 DEF FeedReturns, LeaveFeedSocket
  <2> QED
    BY <2>2, <2>3
<1>8. CASE Call \/ Woken \/ ReadTimeout
  BY <1>8 DEF Call, Woken, ReadTimeout, module, wifi, locals
<1>15. CASE Check
  BY <1>15 DEF Check, module, wifi, locals
<1>9. CASE TakeFront \/ Subspan
  BY <1>9 DEF TakeFront, Subspan, module, wifi, locals
<1>16. CASE Assign
  BY <1>16 DEF Assign, module, wifi, locals
<1>10. CASE CountTotal
  BY <1>10 DEF CountTotal, module, wifi, locals
<1>11. CASE CountByte
  <2>1. /\ reader = "bytes" /\ reader' = "release" /\ bytes' = (bytes - 1) % Word
        /\ UNCHANGED <<feeder, fed, delivered, size, span>>
    BY <1>11 DEF CountByte, module, wifi
  <2>2. bytes - 1 \in 0..(Word - 1)
    BY <2>1
  <2>3. bytes' = bytes - 1
    BY <2>1, <2>2, ModSmall
  <2> QED
    BY <2>1, <2>3
<1>12. CASE ReadReturns
  <2>1. /\ reader = "release" /\ reader' = "idle" /\ Len(delivered') = Len(delivered) + 1
        /\ UNCHANGED <<feeder, fed, bytes, size, span>>
    BY <1>12 DEF ReadReturns, module, wifi, StreamTypes
  <2> QED
    BY <2>1
<1>13. CASE UNCHANGED vars
  BY <1>13 DEF vars, module, wifi, locals
<1> QED
  BY <1>1, <1>4, <1>5, <1>6, <1>7, <1>8, <1>9, <1>10, <1>11, <1>12, <1>13, <1>14, <1>15, <1>16
     DEF Next, Feed, Read

LEMMA StreamNextWake ==
    ASSUME StreamFlags, StreamTypes, Numbers, CountInv, PhaseInv, WakeInv, [Next]_vars, ~gaveup'
    PROVE  WakeInv'
<1>1. CASE Fetch
  <2>1. ~waiter /\ Resting
    BY <1>1 DEF WakeInv, PhaseInv, Fetch, Shared
  <2> QED
    BY <1>1, <2>1 DEF WakeInv, Fetch, Resting
<1>2. CASE PeerSends \/ Notify \/ Scan \/ FetchFailure \/ PublishSpan
  BY <1>2 DEF PeerSends, Notify, Scan, FetchFailure, LeaveFeedSocket, PublishSpan, WakeInv, Shared, Left,
         module, wifi, locals
<1>3. CASE PublishCount \/ WakeReader
  BY <1>3 DEF PublishCount, WakeReader, WakeInv, Shared, Left, module, wifi, locals
<1>4. CASE FeedReturns
  <2>1. ~waiter' /\ UNCHANGED <<few, reader, fed, delivered>>
    BY <1>4 DEF FeedReturns, locals
  <2> QED
    BY <2>1 DEF WakeInv, Left
<1>5. CASE Call \/ Check \/ Woken \/ ReadTimeout \/ TakeFront \/ Subspan \/ Assign
  <2>1. /\ UNCHANGED <<few, waiter, feeder, fed, delivered>>
        /\ reader' \notin {"bytes", "release"}
    BY <1>5 DEF Call, Check, Woken, ReadTimeout, TakeFront, Subspan, Assign, wifi, locals
  <2> QED
    BY <2>1 DEF WakeInv, Shared, Left
<1>6. CASE CountTotal
  <2>1. UNCHANGED <<waiter, feeder, fed, delivered>> /\ reader = "total"
    BY <1>6 DEF CountTotal, wifi
  <2>2. few' => total <= 1
    BY <1>6 DEF CountTotal
  <2>3. total <= 1 => Left = 1
    <3>1. Left > 0 /\ HasChunk /\ Counted = 0
      BY <2>1 DEF PhaseInv, Shared, Resting, HasChunk, Counted
    <3> QED
      BY <3>1 DEF Numbers, CountInv, Left
  <2> QED
    BY <2>1, <2>2, <2>3 DEF WakeInv, Shared, Left
<1>7. CASE CountByte
  <2>1. UNCHANGED <<waiter, feeder, fed, delivered>> /\ reader = "bytes"
    BY <1>7 DEF CountByte, wifi
  <2>2. few' => bytes <= 1 \/ few
    BY <1>7 DEF CountByte
  <2>3. bytes <= 1 => Left = 1
    BY <2>1 DEF Numbers, PhaseInv, Shared, Resting
  <2>4. few => Left = 1
    BY <2>1 DEF WakeInv
  <2> QED
    BY <2>1, <2>2, <2>3, <2>4 DEF WakeInv, Shared, Left
<1>8. CASE ReadReturns
  <2>1. /\ reader = "release" /\ reader' = "idle" /\ Len(delivered') = Len(delivered) + 1
        /\ UNCHANGED <<feeder, fed>>
    BY <1>8 DEF ReadReturns, wifi, StreamTypes
  <2>2. waiter' => waiter \/ few
    BY <1>8 DEF ReadReturns
  <2>3. Shared /\ Left > 0
    BY <2>1 DEF PhaseInv, Resting
  <2>4. ~waiter /\ (few => Left = 1)
    BY <2>1, <2>3 DEF WakeInv
  <2>5. Shared' /\ Left' = Left - 1
    BY <2>1, <2>3 DEF Shared, Left, Numbers
  <2> QED
    BY <2>1, <2>2, <2>4, <2>5 DEF WakeInv
<1>9. CASE UNCHANGED vars
  BY <1>9 DEF vars, module, wifi, locals, WakeInv, Shared, Left
<1> QED
  BY <1>1, <1>2, <1>3, <1>4, <1>5, <1>6, <1>7, <1>8, <1>9 DEF Next, Feed, Read

LEMMA StreamNextHand ==
    ASSUME StreamTypes, Numbers, PhaseInv, HandInv, DataInv, [Next]_vars, ~gaveup' PROVE HandInv'
<1> USE DEF Numbers, HandInv, HasChunk, Shared, Left
<1>1. CASE PeerSends \/ Notify \/ Scan
  BY <1>1 DEF PeerSends, Notify, Scan, module, wifi, locals
<1>2. CASE Fetch \/ FetchFailure \/ PublishSpan \/ FeedReturns
  BY <1>2 DEF Fetch, FetchFailure, PublishSpan, FeedReturns, LeaveFeedSocket
<1>3. CASE PublishCount
  BY <1>3 DEF PublishCount, PhaseInv, Resting, module, wifi, locals
<1>4. CASE WakeReader
  BY <1>4 DEF WakeReader, module, wifi, locals
<1>5. CASE Call \/ Check \/ Woken \/ ReadTimeout
  BY <1>5 DEF Call, Check, Woken, ReadTimeout, module, wifi, locals
<1>6. CASE TakeFront
  <2>1. /\ reader = "front" /\ reader' = "subspan"
        /\ UNCHANGED <<delivered, fed, size, span, feeder>>
        /\ byte' = IF span.len > 0 /\ span.off \in 1..Chunk THEN buffer[span.off] ELSE 0
    BY <1>6 DEF TakeFront, wifi
  <2>2. /\ span = [off |-> size - Left + 1, len |-> Left] /\ Left > 0 /\ Left <= size
    BY <2>1 DEF PhaseInv, Resting
  <2>3. byte' = buffer[size - Left + 1] /\ size - Left + 1 \in 1..size
    BY <2>1, <2>2
  <2>4. buffer[size - Left + 1] = fed[Len(fed) - size + (size - Left + 1)]
    BY <2>1, <2>3 DEF DataInv, PhaseInv, Resting
  <2>5. Len(fed) - size + (size - Left + 1) = Len(delivered) + 1
    OBVIOUS
  <2>6. byte' = fed[Len(delivered) + 1]
    BY <2>3, <2>4, <2>5
  <2> QED
    BY <2>1, <2>2, <2>6
<1>7. CASE Subspan
  <2>1. /\ reader = "subspan" /\ reader' = "assign"
        /\ UNCHANGED <<delivered, fed, size, span, feeder, byte>>
        /\ tail' = [off |-> span.off + 1, len |-> span.len - 1]
    BY <1>7 DEF Subspan, wifi
  <2>2. Shared => tail' = [off |-> size - Left + 2, len |-> Left - 1]
    BY <2>1
  <2> QED
    BY <2>1, <2>2
<1>8. CASE Assign
  BY <1>8 DEF Assign, module, wifi, locals
<1>9. CASE CountTotal \/ CountByte
  BY <1>9 DEF CountTotal, CountByte, module, wifi, locals
<1>10. CASE ReadReturns
  <2>1. /\ reader = "release" /\ reader' = "idle" /\ Len(delivered') = Len(delivered) + 1
        /\ UNCHANGED <<feeder, fed, size, span>>
    BY <1>10 DEF ReadReturns, module, wifi, StreamTypes
  <2> QED
    BY <2>1
<1>11. CASE UNCHANGED vars
  BY <1>11 DEF vars, module, wifi, locals
<1> QED
  BY <1>1, <1>2, <1>3, <1>4, <1>5, <1>6, <1>7, <1>8, <1>9, <1>10, <1>11 DEF Next, Feed, Read

LEMMA StreamNextData ==
    ASSUME StreamTypes, Numbers, PhaseInv, HandInv, DataInv, [Next]_vars, ~gaveup' PROVE DataInv'
<1> USE DEF Numbers, DataInv, HasChunk
<1>1. CASE Fetch
  <2>1. /\ feeder = "fetch" /\ size' \in Nat
        /\ Len(fed') = Len(fed) + size'
        /\ \A i \in 1..Len(fed) : fed'[i] = fed[i]
        /\ \A i \in 1..size' : buffer'[i] = fed'[Len(fed) + i]
        /\ UNCHANGED delivered
    BY <1>1, FetchFacts
  <2>2. Len(delivered) <= Len(fed)
    BY <2>1 DEF PhaseInv, Shared, Left
  <2> QED
    BY <2>1, <2>2
<1>2. CASE FetchFailure \/ FeedReturns
  <2>1. feeder' \in {"fetch", "poll"} /\ UNCHANGED <<delivered, fed>>
    BY <1>2 DEF FetchFailure, FeedReturns, LeaveFeedSocket
  <2> QED
    BY <2>1
<1>3. CASE ReadReturns
  <2>1. /\ Len(delivered') = Len(delivered) + 1 /\ delivered'[Len(delivered) + 1] = byte
        /\ \A i \in 1..Len(delivered) : delivered'[i] = delivered[i]
        /\ reader = "release" /\ UNCHANGED <<fed, feeder, size, buffer>>
    BY <1>3 DEF ReadReturns, module, wifi, StreamTypes
  <2>2. byte = fed[Len(delivered) + 1]
    BY <2>1 DEF HandInv, PhaseInv, Resting
  <2>3. \A i \in 1..Len(delivered') : i \in 1..Len(delivered) \/ i = Len(delivered) + 1
    BY <2>1
  <2>4. \A i \in 1..Len(delivered') : delivered'[i] = fed[i]
    BY <2>1, <2>2, <2>3
  <2> QED
    BY <2>1, <2>4
<1>4. CASE ~(Fetch \/ FetchFailure \/ FeedReturns \/ ReadReturns)
  <2>1. UNCHANGED <<fed, delivered, buffer, size>> /\ (HasChunk' => HasChunk)
    BY <1>4 DEF Next, Feed, Read, PeerSends, Notify, Scan, PublishSpan, PublishCount, WakeReader,
           Call, Check, Woken, ReadTimeout, TakeFront, Subspan, Assign, CountTotal, CountByte,
           vars, module, wifi, locals
  <2> QED
    BY <2>1
<1> QED
  BY <1>1, <1>2, <1>3, <1>4

-----------------------------------------------------------------------------
LEMMA StreamInvariant == Spec => []StreamInv
<1>1. StreamInv /\ [Next]_vars => StreamInv'
  <2> SUFFICES ASSUME StreamInv, [Next]_vars PROVE StreamInv'
    OBVIOUS
  <2>1. StreamFlags' /\ StreamTypes' /\ ChunkInv' /\ Numbers
    BY StreamNextFlags, StreamNextTypes, StreamNumbers DEF StreamInv
  <2>2. ASSUME ~gaveup' PROVE ~gaveup
    BY <2>2 DEF Next, Feed, Read, PeerSends, Notify, Scan, Fetch, FetchFailure, PublishSpan,
           PublishCount, WakeReader, FeedReturns, Call, Check, Woken, ReadTimeout, TakeFront, Subspan,
           Assign, CountTotal, CountByte, ReadReturns, vars, module, wifi, locals
  <2>3. ASSUME ~gaveup' PROVE CountInv' /\ PhaseInv' /\ HandInv' /\ WakeInv' /\ DataInv'
    BY <2>1, <2>2, <2>3, StreamNextCount, StreamNextPhase, StreamNextHand, StreamNextWake,
       StreamNextData DEF StreamInv
  <2> QED
    BY <2>1, <2>3 DEF StreamInv
<1> QED
  BY <1>1, StreamInitInv, PTL DEF Spec

(* The state of the stream has its types, whatever times out or fails.     *)
THEOREM StreamTypeCorrect == Spec => []TypeOK
<1>1. StreamInv => TypeOK
  BY WordPositive DEF StreamInv, StreamFlags, StreamTypes, TypeOK
<1> QED
  BY <1>1, StreamInvariant, PTL

(* As long as no feed() gives up, what read() has returned is a prefix of  *)
(* the chunks that left the module, although the two tasks share the span  *)
(* and the counters without a lock and their steps fall in any order.      *)
THEOREM DeliveryCorrect == Spec => []DeliversTheChunks
<1>1. StreamInv => DeliversTheChunks
  <2> SUFFICES ASSUME StreamInv, ~gaveup PROVE IsPrefix(delivered, fed)
    BY DEF DeliversTheChunks
  <2>1. /\ fed \in Seq(1..MaxBytes) /\ delivered \in Seq(0..MaxBytes)
        /\ \A i \in 1..Len(delivered) : delivered[i] = fed[i]
    BY DEF StreamInv, StreamTypes, DataInv
  <2>2. Len(delivered) <= Len(fed)
    <3>1. Numbers
      BY StreamNumbers DEF StreamInv
    <3> QED
      BY <3>1 DEF Numbers, StreamInv, PhaseInv, HasChunk, Shared, Left
  <2> QED
    BY <2>1, <2>2 DEF IsPrefix
<1> QED
  BY <1>1, StreamInvariant, PTL

(* Neither counter of the bytes drops below zero: the one of the chunk     *)
(* never, the one of the socket as long as no feed() gives up.             *)
THEOREM CountersCorrect == Spec => []CountersNeverWrap
<1>1. StreamInv => CountersNeverWrap
  <2> SUFFICES ASSUME StreamInv PROVE CountersNeverWrap
    OBVIOUS
  <2>1. Numbers
    BY StreamNumbers DEF StreamInv
  <2>2. bytes <= Chunk
    BY <2>1 DEF Numbers
  <2>3. ~gaveup => total <= MaxBytes
    BY <2>1 DEF Numbers, StreamInv, CountInv, Counted
  <2> QED
    BY <2>2, <2>3 DEF CountersNeverWrap
<1> QED
  BY <1>1, StreamInvariant, PTL
=============================================================================

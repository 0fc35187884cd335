---------------------------- MODULE SocketStream ----------------------------
(***************************************************************************)
(* How the data of one TCP connection gets from the ESP8266 module to the  *)
(* task that reads the socket.  The WiFi task (run(), feed_socket()) reads *)
(* a chunk from the module into a buffer on its stack, publishes a span of *)
(* it and waits until the reader has used it up; the reader (read()) takes *)
(* the span apart byte by byte.  They share two atomic counters, the span  *)
(* (which nothing protects) and two binary semaphores, and both waits have *)
(* a timeout of 5 s.                                                       *)
(*                                                                         *)
(* The bytes of the connection are the numbers 1, 2, 3, ...; 0 is whatever *)
(* else a read of the buffer may give.                                     *)
(***************************************************************************)
EXTENDS Integers, Sequences, SequencesExt

CONSTANTS Chunk,       \* the size of the buffer in feed_socket(), 128
          Word,        \* the counters are std::size_t: they count modulo Word
          MaxBytes,    \* bound: the bytes the peer sends
          Weather      \* whether the times are such that feed() may give up
                       \* and reading a chunk from the module may fail

ASSUME StreamAssumption ==
    /\ Chunk \in Nat \ {0} /\ MaxBytes \in Nat
    /\ Word \in Nat /\ Word > MaxBytes + Chunk
    /\ Weather \subseteq BOOLEAN

VARIABLES
    rough,       \* timeouts and failures are possible, or neither is
    sent,        \* the bytes that have reached the module
    notified,    \* ... that handled +IPD responses announced
    fetched,     \* ... that have left the module
    buffer,      \* the buffer on the stack of feed_socket()
    span,        \* m_incoming_chunk: offset and length in the buffer
    bytes,       \* m_bytes_available
    total,       \* m_total_bytes_available
    consumer,    \* m_condition_var_consumer
    waiter,      \* m_condition_var_waiter
    feeder,      \* where the WiFi task is
    remaining,   \* feed_socket(): bytes_available
    size,        \* feed_socket(): to_read
    reader,      \* where the reader is in read()
    byte,        \* read(): b
    tail,        \* read(): the value of m_incoming_chunk.subspan(1)
    few,         \* read(): one of the counters was at its last byte
    fed,         \* history: the bytes of all chunks, in order
    delivered,   \* history: the bytes that read() returned
    gaveup       \* history: a feed() gave up before the reader was done

module == <<rough, sent, notified, fetched>>
wifi   == <<feeder, remaining, size, buffer, fed, gaveup>>
locals == <<byte, tail, few>>
vars   == <<module, wifi, span, bytes, total, consumer, waiter, reader,
            locals, delivered>>

Garbage   == [i \in 1..Chunk |-> 0]
Smaller(a, b) == IF a < b THEN a ELSE b

Init == /\ rough \in Weather
        /\ sent = 0 /\ notified = 0 /\ fetched = 0
        /\ buffer = Garbage
        /\ span = [off |-> 0, len |-> 0]
        /\ bytes = 0 /\ total = 0
        /\ consumer = FALSE /\ waiter = FALSE
        /\ feeder = "poll" /\ remaining = 0 /\ size = 0
        /\ reader = "idle" /\ byte = 0 /\ few = FALSE
        /\ tail = [off |-> 0, len |-> 0]
        /\ fed = <<>> /\ delivered = <<>> /\ gaveup = FALSE

-----------------------------------------------------------------------------
(* The WiFi task. *)

PeerSends ==
    /\ sent < MaxBytes
    /\ sent' = sent + 1
    /\ UNCHANGED <<rough, notified, fetched, wifi, span, bytes, total, consumer,
                   waiter, reader, locals, delivered>>

(* handle_unsolicited_responses(): notify() for what the module announced. *)
Notify ==
    /\ feeder = "poll"
    /\ notified' = sent
    /\ total' = (total + sent - notified) % Word
    /\ feeder' = "scan"
    /\ UNCHANGED <<rough, sent, fetched, remaining, size, buffer, fed, span, bytes,
                   consumer, waiter, reader, locals, delivered, gaveup>>

(* run() enters feed_socket() for a socket with bytes available. *)
Scan ==
    /\ feeder = "scan"
    /\ remaining' = total
    /\ feeder' = IF total > 0 THEN "fetch" ELSE "poll"
    /\ UNCHANGED <<module, size, buffer, fed, span, bytes, total, consumer,
                   waiter, reader, locals, delivered, gaveup>>

(* feed_socket() returns and its buffer is no more. *)
LeaveFeedSocket == feeder' = "poll" /\ buffer' = Garbage

(* CIPRECVDATA for the next chunk ... *)
Fetch ==
    /\ feeder = "fetch"
    /\ size' = Smaller(Chunk, remaining)
    /\ fetched + size' <= sent
    /\ fetched' = fetched + size'
    /\ buffer' = [i \in 1..Chunk |-> IF i <= size' THEN fetched + i ELSE buffer[i]]
    /\ fed' = fed \o [i \in 1..size' |-> fetched + i]
    /\ feeder' = "publish"
    /\ UNCHANGED <<rough, sent, notified, remaining, span, bytes, total, consumer,
                   waiter, reader, locals, delivered, gaveup>>

(* Mutant of FetchFailure: tries the same chunk again. *)
FetchRetries ==
    /\ feeder = "fetch"
    /\ LET wanted == Smaller(Chunk, remaining)
       IN  IF fetched + wanted > sent
           THEN fetched' = sent
           ELSE rough /\ fetched' \in {fetched, fetched + wanted}
    /\ UNCHANGED <<rough, sent, notified, feeder, buffer, remaining, size, fed, span,
                   bytes, total, consumer, waiter, reader, locals, delivered,
                   gaveup>>

(* ... which fails when the module has too few bytes (those it has are     *)
(* swallowed by the parser), or for reasons of its own, with or without    *)
(* the bytes having left the module.                                       *)
FetchFailure ==
    /\ feeder = "fetch"
    /\ LET wanted == Smaller(Chunk, remaining)
       IN  IF fetched + wanted > sent
           THEN fetched' = sent
           ELSE rough /\ fetched' \in {fetched, fetched + wanted}
    /\ LeaveFeedSocket
    /\ UNCHANGED <<rough, sent, notified, remaining, size, fed, span, bytes, total,
                   consumer, waiter, reader, locals, delivered, gaveup>>

(* feed(): publish the span, the counter, then wake the reader. *)
PublishSpan ==
    /\ feeder = "publish"
    /\ span' = [off |-> 1, len |-> size]
    /\ feeder' = "count"
    /\ UNCHANGED <<module, remaining, size, buffer, fed, bytes, total,
                   consumer, waiter, reader, locals, delivered, gaveup>>

(* Mutant of PublishCount: adds to what an earlier chunk left. *)
PublishCountAdds ==
    /\ feeder = "count"
    /\ bytes' = bytes + size
    /\ feeder' = "wake"
    /\ UNCHANGED <<module, remaining, size, buffer, fed, span, total,
                   consumer, waiter, reader, locals, delivered, gaveup>>

PublishCount ==
    /\ feeder = "count"
    /\ bytes' = size
    /\ feeder' = "wake"
    /\ UNCHANGED <<module, remaining, size, buffer, fed, span, total,
                   consumer, waiter, reader, locals, delivered, gaveup>>

WakeReader ==
    /\ feeder = "wake"
    /\ consumer' = TRUE
    /\ feeder' = "wait"
    /\ UNCHANGED <<module, remaining, size, buffer, fed, span, bytes, total,
                   waiter, reader, locals, delivered, gaveup>>

(* Mutant of FeedReturns: does not wait for the reader. *)
FeedReturnsAtOnce ==
    /\ feeder = "wait"
    /\ waiter' = FALSE
    /\ gaveup' = gaveup
    /\ remaining' = remaining - size
    /\ IF remaining' > 0
       THEN feeder' = "fetch" /\ UNCHANGED buffer
       ELSE LeaveFeedSocket
    /\ UNCHANGED <<module, size, fed, span, bytes, total, consumer, reader,
                   locals, delivered>>

(* feed() returns, by the semaphore or by its timeout; feed_socket() goes  *)
(* on with the next chunk in both cases.                                   *)
FeedReturns ==
    /\ feeder = "wait"
    /\ waiter \/ rough
    /\ waiter' = FALSE
    /\ gaveup' = (gaveup \/ ~waiter)
    /\ remaining' = remaining - size
    /\ IF remaining' > 0
       THEN feeder' = "fetch" /\ UNCHANGED buffer
       ELSE LeaveFeedSocket
    /\ UNCHANGED <<module, size, fed, span, bytes, total, consumer, reader,
                   locals, delivered>>

-----------------------------------------------------------------------------
(* The reader. *)

Call ==
    /\ reader = "idle"
    /\ reader' = "check"
    /\ UNCHANGED <<module, wifi, span, bytes, total, consumer, waiter, locals,
                   delivered>>

Check ==
    /\ reader = "check"
    /\ reader' = IF bytes = 0 THEN "wait" ELSE "front"
    /\ UNCHANGED <<module, wifi, span, bytes, total, consumer, waiter, locals,
                   delivered>>

Woken ==
    /\ reader = "wait"
    /\ consumer
    /\ consumer' = FALSE
    /\ reader' = "check"
    /\ UNCHANGED <<module, wifi, span, bytes, total, waiter, locals,
                   delivered>>

ReadTimeout ==
    /\ reader = "wait"
    /\ ~consumer
    /\ reader' = "idle"
    /\ UNCHANGED <<module, wifi, span, bytes, total, consumer, waiter, locals,
                   delivered>>

(* m_incoming_chunk.front(): the buffer may be gone, the span used up. *)
TakeFront ==
    /\ reader = "front"
    /\ byte' = IF span.len > 0 /\ span.off \in 1..Chunk THEN buffer[span.off] ELSE 0
    /\ reader' = "subspan"
    /\ UNCHANGED <<module, wifi, span, bytes, total, consumer, waiter, tail,
                   few, delivered>>

Subspan ==
    /\ reader = "subspan"
    /\ tail' = [off |-> span.off + 1, len |-> span.len - 1]
    /\ reader' = "assign"
    /\ UNCHANGED <<module, wifi, span, bytes, total, consumer, waiter, byte,
                   few, delivered>>

Assign ==
    /\ reader = "assign"
    /\ span' = tail
    /\ reader' = "total"
    /\ UNCHANGED <<module, wifi, bytes, total, consumer, waiter, locals,
                   delivered>>

CountTotal ==
    /\ reader = "total"
    /\ total' = (total - 1) % Word
    /\ few' = (total <= 1)
    /\ reader' = "bytes"
    /\ UNCHANGED <<module, wifi, span, bytes, consumer, waiter, byte, tail,
                   delivered>>

CountByte ==
    /\ reader = "bytes"
    /\ bytes' = (bytes - 1) % Word
    /\ few' = (bytes <= 1 \/ few)
    /\ reader' = "release"
    /\ UNCHANGED <<module, wifi, span, total, consumer, waiter, byte, tail,
                   delivered>>

(* Mutant of ReadReturns: does not wake the feed. *)
ReadReturnsSilently ==
    /\ reader = "release"
    /\ delivered' = Append(delivered, byte)
    /\ reader' = "idle"
    /\ UNCHANGED <<module, wifi, span, bytes, total, consumer, waiter,
                   locals>>

ReadReturns ==
    /\ reader = "release"
    /\ waiter' = (waiter \/ few)
    /\ delivered' = Append(delivered, byte)
    /\ reader' = "idle"
    /\ UNCHANGED <<module, wifi, span, bytes, total, consumer, locals>>

Feed == \/ Notify \/ Scan \/ Fetch \/ FetchFailure
        \/ PublishSpan \/ PublishCount \/ WakeReader \/ FeedReturns
Read == \/ Check \/ Woken \/ ReadTimeout \/ TakeFront \/ Subspan \/ Assign
        \/ CountTotal \/ CountByte \/ ReadReturns

Next == PeerSends \/ Feed \/ Call \/ Read

Spec == Init /\ [][Next]_vars

(* Both tasks run, and the reader calls read() again and again. *)
FairSpec == Spec /\ WF_vars(Feed) /\ WF_vars(Call \/ Read)

-----------------------------------------------------------------------------
TypeOK ==
    /\ rough \in BOOLEAN
    /\ sent \in 0..MaxBytes /\ notified \in 0..sent /\ fetched \in 0..sent
    /\ buffer \in [1..Chunk -> 0..MaxBytes]
    /\ span \in [off : Nat, len : Int] /\ tail \in [off : Nat, len : Int]
    /\ bytes \in 0..(Word - 1) /\ total \in 0..(Word - 1)
    /\ consumer \in BOOLEAN /\ waiter \in BOOLEAN /\ few \in BOOLEAN
    /\ feeder \in {"poll", "scan", "fetch", "publish", "count", "wake", "wait"}
    /\ remaining \in 0..(Word - 1) /\ size \in 0..Chunk
    /\ reader \in {"idle", "check", "wait", "front", "subspan", "assign",
                   "total", "bytes", "release"}
    /\ byte \in 0..MaxBytes
    /\ gaveup \in BOOLEAN
    /\ fed \in Seq(1..MaxBytes) /\ delivered \in Seq(0..MaxBytes)

(* If no feed() gives up, the reader gets the bytes of the chunks in the   *)
(* order of the connection, none twice, none skipped and none from a       *)
(* buffer that is gone, however its steps fall between those of the feed.  *)
DeliversTheChunks == ~gaveup => IsPrefix(delivered, fed)

(* Neither count ever drops below zero.  m_total_bytes_available does not  *)
(* as long as no feed() gives up, even when reads of the module fail and   *)
(* leave it too high: every byte of a chunk was still counted in it when   *)
(* the chunk was cut to size.  m_bytes_available does not even when feed() *)
(* gives up and stores a new count between the reader's test and its       *)
(* decrement.                                                              *)
CountersNeverWrap ==
    /\ ~gaveup => total <= MaxBytes
    /\ bytes <= Chunk

(* The buffer is refilled, or given up, only when the reader has consumed  *)
(* the chunk in it: what the comment in feed_socket() says of the loop.    *)
ChunkConsumedFirst == [][buffer' # buffer => bytes = 0]_vars

(* The WiFi task comes back to run() from every socket it feeds, whatever  *)
(* the reader and the module do: it also serves the other sockets.         *)
TaskComesRound == []<>(feeder = "poll")

(* With neither timeouts nor failures every byte reaches a reader that     *)
(* keeps reading: no wakeup is lost in either direction.                   *)
EveryByteDelivered ==
    \A k \in 1..MaxBytes : ~rough /\ sent >= k ~> Len(delivered) >= k
=============================================================================

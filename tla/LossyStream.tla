---------------------------- MODULE LossyStream ----------------------------
(***************************************************************************)
(* What the driver of a circular receive buffer can promise to the code    *)
(* above it.  Bytes are numbered 0, 1, 2, ... in the order in which they   *)
(* come in on the line.  The stream hands them out in that order, never    *)
(* twice, and without a gap for as long as no byte was lost; it may lose   *)
(* bytes only when one more arrives while Capacity of them are unread.     *)
(***************************************************************************)
EXTENDS Integers

CONSTANTS Capacity,   \* the bytes that may be unread before any is lost
          MaxBytes    \* bound: the bytes that ever arrive

VARIABLES arrived,    \* the number of bytes that came in
          last,       \* the number of the last byte handed out, -1 at first
          lost        \* whether an unread byte was ever overwritten

vars == <<arrived, last, lost>>

Unread == arrived - 1 - last

Init == arrived = 0 /\ last = -1 /\ lost = FALSE

Arrive == /\ arrived < MaxBytes
          /\ arrived' = arrived + 1
          /\ lost' = (lost \/ Unread >= Capacity)
          /\ UNCHANGED last

Deliver(b) == /\ b > last
              /\ b < arrived
              /\ ~lost => b = last + 1
              /\ last' = b
              /\ UNCHANGED <<arrived, lost>>

Next == Arrive \/ \E b \in 0..(MaxBytes - 1) : Deliver(b)

Spec == Init /\ [][Next]_vars
=============================================================================

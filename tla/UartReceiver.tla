---------------------------- MODULE UartReceiver ----------------------------
(***************************************************************************)
(* The receive side of the UART driver (stm32l4_uart.hpp).  A circular DMA *)
(* transfer stores the bytes of the line in m_read_buffer; the read        *)
(* position is a plain counter that read() advances under m_read_lock; the *)
(* interrupt handler releases m_data_available_semaphore when it finds the *)
(* idle-line flag set.  Four actors interleave: the line, the DMA, the     *)
(* interrupt handler and the tasks that call read().                       *)
(*                                                                         *)
(* A byte is its number on the line, so a slot tells which byte it holds.  *)
(* The zeroes a slot holds before the first lap are the numbers below 0.   *)
(***************************************************************************)
EXTENDS Integers

CONSTANTS Readers,    \* the tasks that call read()
          N,          \* rx_buffer_size
          Lengths,    \* the sizes of the spans that read() is given
          Timeouts,   \* the timeouts, counted in polls of 40 ms
          Forever,    \* std::chrono::milliseconds::max()
          NoReader,   \* m_read_lock is free
          MaxBytes    \* bound: the bytes that ever arrive

ASSUME UartAssumption ==
    /\ N \in Nat /\ N >= 2
    /\ MaxBytes \in Nat
    /\ NoReader \notin Readers
    /\ Forever \notin Nat
    /\ Timeouts \subseteq Nat \cup {Forever}
    /\ Lengths \subseteq Nat \ {0}

VARIABLES
    buf,        \* m_read_buffer
    wpos,       \* rx_buffer_size - NDTR, where the DMA stores the next byte
    written,    \* the number of bytes the DMA has stored
    irq,        \* the receive interrupt is pending
    idle,       \* the idle-line flag of the status register
    sem,        \* m_data_available_semaphore
    holder,     \* the owner of m_read_lock
    rpos,       \* m_read_buffer_position
    pc,         \* where each task is in read()
    left,       \* the bytes of its span still to be filled
    tmo,        \* the timeout it was called with
    polls,      \* begin, in polls of 40 ms
    index,      \* index, the slot it is about to copy
    last,       \* history: the last byte of the line that was delivered
    lost,       \* history: the DMA overwrote a byte nobody had read
    phantoms    \* history: the copies made from behind the buffer's end

line   == <<buf, wpos, written, irq, idle>>
reader == <<holder, rpos, pc, left, tmo, polls, index>>
ghosts == <<last, lost, phantoms>>
vars   == <<line, sem, reader, ghosts>>

Slots  == 0..(N - 1)
Unread == written - 1 - last

Init == /\ buf = [i \in Slots |-> i - N]
        /\ wpos = 0 /\ written = 0
        /\ irq = FALSE /\ idle = FALSE /\ sem = FALSE
        /\ holder = NoReader
        /\ rpos = 0
        /\ pc = [r \in Readers |-> "idle"]
        /\ left = [r \in Readers |-> 0]
        /\ tmo = [r \in Readers |-> 0]
        /\ polls = [r \in Readers |-> 0]
        /\ index = [r \in Readers |-> 0]
        /\ last = -1 /\ lost = FALSE /\ phantoms = 0

-----------------------------------------------------------------------------
(* The hardware. *)

(* The DMA moves a received byte to memory and reloads its counter at the  *)
(* end of the buffer, whether or not the old byte was read.                *)
DmaStore ==
    /\ written < MaxBytes
    /\ buf' = [buf EXCEPT ![wpos] = written]
    /\ wpos' = IF wpos + 1 = N THEN 0 ELSE wpos + 1
    /\ written' = written + 1
    /\ irq' = TRUE
    /\ lost' = (lost \/ buf[wpos] > last)
    /\ UNCHANGED <<idle, sem, reader, last, phantoms>>

(* The line stays quiet for one frame after a byte. *)
LineIdle ==
    /\ written > 0 /\ ~idle
    /\ idle' = TRUE
    /\ UNCHANGED <<buf, wpos, written, irq, sem, reader, ghosts>>

(* interrupt_handler(): only the receive interrupt is enabled, so an idle  *)
(* line is noticed no earlier than with the byte that follows it.          *)
InterruptHandler ==
    /\ irq
    /\ irq' = FALSE
    /\ sem' = (sem \/ idle)
    /\ idle' = FALSE
    /\ UNCHANGED <<buf, wpos, written, reader, ghosts>>

-----------------------------------------------------------------------------
(* read() *)

(* Mutant of Empty: compares with the DMA's own counter, which runs down. *)
EmptyByCounter == rpos = N - wpos \/ (rpos = 0 /\ wpos = N - 1)

(* receiver::empty() *)
Empty == rpos = wpos \/ (rpos = 0 /\ wpos = N - 1)

Call(r) ==
    /\ pc[r] = "idle"
    /\ \E n \in Lengths : left' = [left EXCEPT ![r] = n]
    /\ \E t \in Timeouts : tmo' = [tmo EXCEPT ![r] = t]
    /\ pc' = [pc EXCEPT ![r] = "lock"]
    /\ UNCHANGED <<line, sem, holder, rpos, polls, index, ghosts>>

(* Mutant of Lock: does not wait for the lock. *)
LockUnguarded(r) ==
    /\ pc[r] = "lock"
    /\ IF tmo[r] = 0 /\ Empty
       THEN pc' = [pc EXCEPT ![r] = "idle"] /\ UNCHANGED holder
       ELSE pc' = [pc EXCEPT ![r] = "check"] /\ holder' = r
    /\ polls' = [polls EXCEPT ![r] = 0]
    /\ UNCHANGED <<line, sem, rpos, left, tmo, index, ghosts>>

(* Takes m_read_lock; a call that may not wait gives up at once. *)
Lock(r) ==
    /\ pc[r] = "lock"
    /\ holder = NoReader
    /\ IF tmo[r] = 0 /\ Empty
       THEN pc' = [pc EXCEPT ![r] = "idle"] /\ UNCHANGED holder
       ELSE pc' = [pc EXCEPT ![r] = "check"] /\ holder' = r
    /\ polls' = [polls EXCEPT ![r] = 0]
    /\ UNCHANGED <<line, sem, rpos, left, tmo, index, ghosts>>

(* The condition of the while loop in next(). *)
Check(r) ==
    /\ pc[r] = "check"
    /\ pc' = [pc EXCEPT ![r] = IF Empty THEN "wait" ELSE "take"]
    /\ UNCHANGED <<line, sem, holder, rpos, left, tmo, polls, index, ghosts>>

Woken(r) ==
    /\ pc[r] = "wait"
    /\ sem
    /\ sem' = FALSE
    /\ pc' = [pc EXCEPT ![r] = "check"]
    /\ UNCHANGED <<line, holder, rpos, left, tmo, polls, index, ghosts>>

(* Mutants of PollAgain: polls without looking at the buffer again, and    *)
(* forgets to count the time.                                              *)
PollAgainAsleep(r) ==
    /\ pc[r] = "wait"
    /\ ~sem
    /\ tmo[r] # Forever => polls[r] + 1 <= tmo[r]
    /\ polls' = [polls EXCEPT ![r] = IF tmo[r] = Forever THEN 0 ELSE @ + 1]
    /\ UNCHANGED <<pc, line, sem, holder, rpos, left, tmo, index, ghosts>>

PollAgainUncounted(r) ==
    /\ pc[r] = "wait"
    /\ ~sem
    /\ tmo[r] # Forever => polls[r] + 1 <= tmo[r]
    /\ pc' = [pc EXCEPT ![r] = "check"]
    /\ UNCHANGED <<line, sem, holder, rpos, left, tmo, polls, index, ghosts>>

(* try_acquire_for(40ms) fails and the timeout is not used up yet. *)
PollAgain(r) ==
    /\ pc[r] = "wait"
    /\ ~sem
    /\ tmo[r] # Forever => polls[r] + 1 <= tmo[r]
    /\ polls' = [polls EXCEPT ![r] = IF tmo[r] = Forever THEN 0 ELSE @ + 1]
    /\ pc' = [pc EXCEPT ![r] = "check"]
    /\ UNCHANGED <<line, sem, holder, rpos, left, tmo, index, ghosts>>

(* ... and when it is, read() returns what it has. *)
TimedOut(r) ==
    /\ pc[r] = "wait"
    /\ ~sem
    /\ tmo[r] # Forever /\ polls[r] + 1 > tmo[r]
    /\ pc' = [pc EXCEPT ![r] = "idle"]
    /\ holder' = NoReader
    /\ UNCHANGED <<line, sem, rpos, left, tmo, polls, index, ghosts>>

(* m_read_buffer_position runs from 0 to N: it is reset one step too late. *)
Take(r) ==
    /\ pc[r] = "take"
    /\ index' = [index EXCEPT ![r] = rpos]
    /\ rpos' = IF rpos >= N THEN 0 ELSE rpos + 1
    /\ pc' = [pc EXCEPT ![r] = "load"]
    /\ UNCHANGED <<line, sem, holder, left, tmo, polls, ghosts>>

(* Copies the slot.  Slot N is the memory behind the buffer. *)
Load(r) ==
    /\ pc[r] = "load"
    /\ IF index[r] = N
       THEN phantoms' = phantoms + 1 /\ UNCHANGED last
       ELSE last' = buf[index[r]] /\ UNCHANGED phantoms
    /\ left' = [left EXCEPT ![r] = @ - 1]
    /\ polls' = [polls EXCEPT ![r] = 0]
    /\ IF left[r] = 1
       THEN pc' = [pc EXCEPT ![r] = "idle"] /\ holder' = NoReader
       ELSE pc' = [pc EXCEPT ![r] = "check"] /\ UNCHANGED holder
    /\ UNCHANGED <<line, sem, rpos, tmo, index, lost>>

Read(r) == \/ Lock(r) \/ Check(r) \/ Woken(r) \/ PollAgain(r) \/ TimedOut(r)
           \/ Take(r) \/ Load(r)

Next == \/ DmaStore \/ LineIdle \/ InterruptHandler
        \/ \E r \in Readers : Call(r) \/ Read(r)

Spec == Init /\ [][Next]_vars

(* A task inside read() keeps running and its 40 ms timer keeps expiring;  *)
(* the line and the callers owe nothing.                                   *)
FairSpec == Spec /\ \A r \in Readers : WF_vars(Read(r))

-----------------------------------------------------------------------------
TypeOK ==
    /\ buf \in [Slots -> Int]
    /\ wpos \in Slots /\ written \in 0..MaxBytes
    /\ irq \in BOOLEAN /\ idle \in BOOLEAN /\ sem \in BOOLEAN
    /\ holder \in Readers \cup {NoReader}
    /\ rpos \in 0..N
    /\ pc \in [Readers -> {"idle", "lock", "check", "wait", "take", "load"}]
    /\ left \in [Readers -> Nat]
    /\ tmo \in [Readers -> Nat \cup {Forever}]
    /\ polls \in [Readers -> Nat]
    /\ index \in [Readers -> 0..N]
    /\ last \in Int /\ lost \in BOOLEAN /\ phantoms \in Nat

(***************************************************************************)
(* The inductive invariant behind the properties below.                    *)
(***************************************************************************)

(* How many stores ago slot i was written: 1 for the newest, N for the     *)
(* oldest, which the next store replaces.                                  *)
Age(i) == IF i < wpos THEN wpos - i ELSE wpos - i + N

(* The slot the reader goes to next, the phantom slot N skipped. *)
Front == IF rpos = N THEN 0 ELSE rpos

Copying(r) == pc[r] = "load" /\ index[r] # N

LeftInv == \A r \in Readers : pc[r] # "idle" => left[r] >= 1

LockInv == \A r \in Readers : pc[r] \notin {"idle", "lock"} => holder = r

IndexInv == \A r \in Readers :
    pc[r] = "load" => rpos = IF index[r] = N THEN 0 ELSE index[r] + 1

BufferInv == \A i \in Slots : buf[i] = written - Age(i)

(* What the reader will copy is newer than all it copied: for the slot a   *)
(* reader is about to copy, and for all slots between Front and the DMA.   *)
OrderInv ==
    /\ last \in -1..(written - 1)
    /\ Front # wpos => last < written - Age(Front)
    /\ \A r \in Readers :
        /\ pc[r] = "take" /\ rpos # N => last < written - Age(rpos)
        /\ Copying(r) => last < written - Age(index[r])

(* Until a byte is lost, the slot to be read next holds byte last + 1. *)
GapInv ==
    ~lost => /\ Unread <= N
             /\ (\A r \in Readers : ~Copying(r))
                    => Age(Front) = IF Unread = 0 THEN N ELSE Unread
             /\ \A r \in Readers : Copying(r) => Age(index[r]) = Unread

(* Copies so far: N of the buffer and one from behind it on every lap. *)
LapInv ==
    ~lost => /\ (\A r \in Readers : pc[r] # "load") => last + 1 = N * phantoms + rpos
             /\ \A r \in Readers :
                    pc[r] = "load" => last + 1 = N * phantoms + index[r]

Inv == /\ TypeOK /\ LeftInv /\ LockInv /\ IndexInv /\ BufferInv
       /\ OrderInv /\ GapInv /\ LapInv

-----------------------------------------------------------------------------
(* What read() promises its callers: the bytes of the line in order, none  *)
(* twice, and none skipped until the DMA laps the reader (LossyStream).    *)
Stream == INSTANCE LossyStream WITH Capacity <- N, arrived <- written
ImplementsStream == Stream!Spec

(* empty() turns a reader away with bytes unread only when the buffer is   *)
(* full, or one short of full with the reader at its start: the two cases  *)
(* in which the positions do not tell a full buffer from an empty one.     *)
EmptyMeansDrainedOrFull ==
    \A r \in Readers :
        pc[r] = "wait" /\ Empty /\ ~lost
            => \/ Unread = 0 \/ Unread = N
               \/ Unread = N - 1 /\ rpos = 0

(* The late reset of the read position costs exactly one byte from behind  *)
(* the buffer per lap of N bytes, no more and no fewer.                    *)
OnePhantomPerLap ==
    (\A r \in Readers : pc[r] # "load") /\ ~lost
        => last + 1 = N * phantoms + rpos

(* A reader asleep on the semaphore wakes up to an unread byte without     *)
(* help from the interrupt handler (the 40 ms poll covers a wakeup that    *)
(* never comes), unless the buffer fills up to where empty() is fooled.    *)
WaitingReaderServed ==
    \A r \in Readers :
        (pc[r] = "wait" /\ Unread > 0)
            ~> (pc[r] \notin {"wait", "check"} \/ Unread >= N - 1)

(* A read with a finite timeout returns, whatever the line does. *)
FiniteReadReturns ==
    \A r \in Readers :
        (pc[r] = "check" /\ tmo[r] # Forever) ~> pc[r] = "idle"
=============================================================================

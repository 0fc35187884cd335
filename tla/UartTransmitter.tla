-------------------------- MODULE UartTransmitter --------------------------
(***************************************************************************)
(* The send side of the UART driver (stm32l4_uart.hpp): tasks write under  *)
(* m_write_lock, an interrupt writes without it but with interrupts off,   *)
(* and both poll the flags of the transmitter, which the handler of the    *)
(* receive interrupt clears along with its own.                            *)
(*                                                                         *)
(* A byte is the one who wrote it and its place in what was written.       *)
(***************************************************************************)
EXTENDS Naturals

CONSTANTS Writers,      \* the tasks that call write()
          Sizes,        \* the sizes of the spans it is given
          MaxWrites,    \* bound: the calls of each
          MaxReceived   \* bound: the bytes that arrive meanwhile

ASSUME TransmitterAssumption ==
    /\ Sizes \subseteq Nat \ {0} /\ {MaxWrites, MaxReceived} \subseteq Nat
    /\ {"interrupt", "nobody"} \cap Writers = {}   \* these are no tasks

VARIABLES tdr,       \* the data register of the transmitter
          shift,     \* the byte that is going out on the line
          complete,  \* TransmissionComplete
          arrived,   \* received: how many bytes; rx: the interrupt of one is pending
          lock,      \* the owner of m_write_lock
          writer,    \* each writer: pc and, of its last call, the size of the span,
                     \* how many were stored, how many went out, and the result
          spoilt     \* history: a byte got lost or came in between others

sendVars == <<tdr, shift, complete, arrived, lock, writer, spoilt>>

Isr     == "interrupt"
Senders == Writers \cup {Isr}
NoWriter  == "nobody"
Nothing == [by |-> NoWriter, n |-> 0]

SendInit ==
    /\ tdr = Nothing /\ shift = Nothing /\ complete \in BOOLEAN
    /\ arrived = [received |-> 0, rx |-> FALSE]
    /\ lock = NoWriter /\ spoilt = FALSE
    /\ writer = [a \in Senders |->
                    [pc |-> "idle", calls |-> 0, size |-> 0, stored |-> 0, out |-> 0, told |-> "none"]]

-----------------------------------------------------------------------------
(* The hardware.  A byte stored while the shift register is free goes      *)
(* there at once; the transmission is complete when none follows a byte.   *)
Begin == /\ shift = Nothing /\ tdr # Nothing
         /\ shift' = tdr /\ tdr' = Nothing
         /\ UNCHANGED <<complete, arrived, lock, writer, spoilt>>

(* A task in the middle of its span: others that put a byte there spoil it. *)
Halfway(t) == 0 < writer[t].out /\ writer[t].out < writer[t].size

GoOut == /\ shift # Nothing
         /\ shift' = tdr /\ tdr' = Nothing
         /\ complete' = (complete \/ tdr = Nothing)
         /\ writer' = [writer EXCEPT ![shift.by].out = @ + 1]
         /\ spoilt' = (\/ spoilt
                       \/ shift.n # writer[shift.by].out + 1
                       \/ shift.by # Isr /\ \E t \in Writers \ {shift.by} : Halfway(t))
         /\ UNCHANGED <<arrived, lock>>

ByteArrives == /\ arrived.received < MaxReceived
               /\ arrived' = [received |-> arrived.received + 1, rx |-> TRUE]
               /\ UNCHANGED <<tdr, shift, complete, lock, writer, spoilt>>

(* An interrupt keeps the tasks from running, and with interrupts off the  *)
(* other interrupt too.                                                    *)
InTasks == writer[Isr].pc = "idle"
Runs(a) == a = Isr \/ InTasks

(* interrupt_handler(): clear() writes all ones to the clear register. *)
ReceiveInterrupt ==
    /\ arrived.rx /\ InTasks
    /\ arrived' = [arrived EXCEPT !.rx = FALSE]
    /\ complete' = FALSE
    /\ UNCHANGED <<tdr, shift, lock, writer, spoilt>>

-----------------------------------------------------------------------------
(* write() *)
CallWrite(a) ==
    /\ Runs(a) /\ writer[a].pc = "idle" /\ writer[a].calls < MaxWrites
    /\ \E n \in Sizes :
          writer' = [writer EXCEPT ![a] =
              [pc |-> IF a = Isr THEN "empty" ELSE "lock", calls |-> @.calls + 1,
               size |-> n, stored |-> 0, out |-> 0, told |-> "none"]]
    /\ UNCHANGED <<tdr, shift, complete, arrived, lock, spoilt>>

(* Mutant of LockWrite: a writer that finds the lock taken goes on. *)
LockWriteAnyway(a) ==
    /\ Runs(a) /\ writer[a].pc = "lock"
    /\ lock' = a
    /\ writer' = [writer EXCEPT ![a].pc = "empty"]
    /\ UNCHANGED <<tdr, shift, complete, arrived, spoilt>>

LockWrite(a) ==
    /\ Runs(a) /\ writer[a].pc = "lock" /\ lock = NoWriter
    /\ lock' = a
    /\ writer' = [writer EXCEPT ![a].pc = "empty"]
    /\ UNCHANGED <<tdr, shift, complete, arrived, spoilt>>

(* is_tx_empty() *)
SeeEmpty(a) ==
    /\ Runs(a) /\ writer[a].pc = "empty" /\ tdr = Nothing
    /\ writer' = [writer EXCEPT ![a].pc = "store"]
    /\ UNCHANGED <<tdr, shift, complete, arrived, lock, spoilt>>

(* A byte that is stored takes the transmission-complete flag back. *)
StoreByte(a) ==
    /\ Runs(a) /\ writer[a].pc = "store"
    /\ tdr' = [by |-> a, n |-> writer[a].stored + 1]
    /\ complete' = FALSE
    /\ spoilt' = (spoilt \/ tdr # Nothing)
    /\ writer' = [writer EXCEPT ![a].stored = @ + 1,
                     ![a].pc = IF writer[a].stored + 1 = writer[a].size THEN "complete" ELSE "empty"]
    /\ UNCHANGED <<shift, arrived, lock>>

Returns(a, told) ==
    /\ writer' = [writer EXCEPT ![a].pc = "idle", ![a].told = told]
    /\ lock' = IF a = Isr THEN lock ELSE NoWriter

(* is_tx_complete() *)
SeeComplete(a) ==
    /\ Runs(a) /\ writer[a].pc = "complete" /\ complete
    /\ complete' = FALSE
    /\ Returns(a, "all")
    /\ UNCHANGED <<tdr, shift, arrived, spoilt>>

(* Mutant of WriteTimeout: the time starts again instead of running out. *)
WriteTimeoutAnew(a) ==
    /\ a # Isr /\ Runs(a) /\ writer[a].pc = "complete" /\ ~complete
    /\ tdr = Nothing /\ shift = Nothing
    /\ UNCHANGED sendVars

(* A second is thousands of bytes long: what runs out is only the wait for *)
(* a flag that will not come.  With interrupts off the clock stands still. *)
WriteTimeout(a) ==
    /\ a # Isr /\ Runs(a) /\ writer[a].pc = "complete" /\ ~complete
    /\ tdr = Nothing /\ shift = Nothing
    /\ Returns(a, "nothing")
    /\ UNCHANGED <<tdr, shift, complete, arrived, spoilt>>

WriteStep(a) == \/ LockWrite(a) \/ SeeEmpty(a) \/ StoreByte(a) \/ SeeComplete(a) \/ WriteTimeout(a)

(* What the hardware and the writers owe; nobody has to write, and no byte *)
(* has to arrive.                                                          *)
SendWork == Begin \/ GoOut \/ \E a \in Senders : WriteStep(a)

SendNext == SendWork \/ ByteArrives \/ ReceiveInterrupt \/ \E a \in Senders : CallWrite(a)

SendSpec == SendInit /\ [][SendNext]_sendVars

-----------------------------------------------------------------------------
SendTypeOK ==
    /\ {tdr, shift} \subseteq [by : Senders \cup {NoWriter}, n : Nat]
    /\ complete \in BOOLEAN /\ spoilt \in BOOLEAN
    /\ arrived \in [received : 0..MaxReceived, rx : BOOLEAN]
    /\ lock \in Writers \cup {NoWriter}
    /\ writer \in [Senders -> [pc : {"idle", "lock", "empty", "store", "complete"}, calls : 0..MaxWrites,
                               size : Sizes \cup {0}, stored : Nat, out : Nat, told : {"none", "all", "nothing"}]]

(* The bytes of a write leave in order, none is lost to another writer,    *)
(* and no other task's byte is among them; and the write says so only when *)
(* the last of them has left.                                              *)
LineCarriesWrites ==
    /\ SendTypeOK
    /\ ~spoilt
    /\ \A a \in Senders : writer[a].told = "all" => writer[a].out = writer[a].size

(* No write hangs: a task's although the flag it waits for was taken by an *)
(* interrupt, and an interrupt's although no clock runs meanwhile.  There  *)
(* is always work that can be done, and as none of it can be done over and *)
(* over again, the write returns.                                          *)
NoWriteHangs == \A a \in Senders : writer[a].pc # "idle" => ENABLED <<SendWork>>_sendVars

(* debug_assert(n == buffer.size_bytes()) in platform::stdio::write().     *)
WriteSaysAll == \A t \in Writers : writer[t].told # "nothing"
=============================================================================

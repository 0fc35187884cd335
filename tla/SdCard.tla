------------------------------- MODULE SdCard -------------------------------
(***************************************************************************)
(* The SD card behind the SDMMC peripheral and the tasks that use it: FAT  *)
(* through diskio, the USB task through the mass storage callbacks.  A     *)
(* call asks the card whether it is ready, takes the lock of its kind      *)
(* (reading and writing have one each), starts a DMA transfer through the  *)
(* one handle of the HAL and waits up to 30 s for the semaphore of its     *)
(* kind, which the interrupt at the end of the transfer releases.          *)
(* Where the card is not ready debug_assert(false) stops a build without   *)
(* NDEBUG; here the call returns, as in a build with it.                   *)
(***************************************************************************)
EXTENDS Naturals, FiniteSets

CONSTANTS CardUsers,     \* the tasks that read and write blocks
          MaxTransfers   \* bound: the calls of all tasks together

ASSUME CardAssumption == IsFiniteSet(CardUsers) /\ MaxTransfers \in Nat

VARIABLES ready,      \* m_initialized, since init() ran before the scheduler
          card,       \* the state of the card itself
          dma,        \* who started the transfer of the handle, what for, or
                      \* "ready"
          complete,   \* m_read_complete_semaphore, m_write_complete_semaphore
          locked,     \* m_read_lock, m_write_lock
          access,     \* what each task is doing; moved: its transfer ended
          transfers,  \* the number of calls begun
          late        \* history: the time of a call passed while its
                      \* transfer was still under way

sdVars == <<ready, card, dma, complete, locked, access, transfers, late>>

Kinds == {"read", "write"}
NoTransfer == [by |-> "nobody", kind |-> "read", at |-> 0]
Away == [pc |-> "away", kind |-> "read", at |-> 0, moved |-> FALSE]

SdInit == /\ ready \in BOOLEAN
          /\ card = "transfer" /\ dma = NoTransfer
          /\ complete = [k \in Kinds |-> FALSE]
          /\ locked = [k \in Kinds |-> FALSE]
          /\ access = [u \in CardUsers |-> Away]
          /\ transfers = 0 /\ late = FALSE

-----------------------------------------------------------------------------
Kind(u) == access[u].kind
AtCard(u, pc) == access[u].pc = pc
GoAt(u, pc) == access' = [access EXCEPT ![u].pc = pc]
Busy == dma # NoTransfer

(* read_blocks() or write_blocks(): is_ready() before the lock. *)
CallCard(u) ==
    /\ AtCard(u, "away") /\ transfers < MaxTransfers
    /\ transfers' = transfers + 1
    /\ \E k \in Kinds :
          access' = [access EXCEPT ![u] =
              [pc |-> IF ready /\ card = "transfer" THEN "lock" ELSE "failed",
               kind |-> k, at |-> transfers', moved |-> FALSE]]
    /\ UNCHANGED <<ready, card, dma, complete, locked, late>>

TakeLock(u) ==
    /\ AtCard(u, "lock") /\ ~locked[Kind(u)]
    /\ locked' = [locked EXCEPT ![Kind(u)] = TRUE]
    /\ GoAt(u, "start")
    /\ UNCHANGED <<ready, card, dma, complete, transfers, late>>

(* HAL_SD_ReadBlocks_DMA(), HAL_SD_WriteBlocks_DMA(): the handle must be   *)
(* free and the card accept the command.                                   *)
StartDma(u) ==
    /\ AtCard(u, "start")
    /\ \/ /\ ~Busy /\ card = "transfer"
          /\ dma' = [by |-> u, kind |-> Kind(u), at |-> access[u].at]
          /\ card' = "data" /\ GoAt(u, "wait")
       \/ GoAt(u, "unlock") /\ UNCHANGED <<card, dma>>
    /\ UNCHANGED <<ready, complete, locked, transfers, late>>

Acquire(u) ==
    /\ AtCard(u, "wait") /\ complete[Kind(u)]
    /\ complete' = [complete EXCEPT ![Kind(u)] = FALSE]
    /\ GoAt(u, "done")
    /\ UNCHANGED <<ready, card, dma, locked, transfers, late>>

(* Nobody aborts the transfer when the 30 s are over. *)
GiveUp(u) ==
    /\ AtCard(u, "wait") /\ ~complete[Kind(u)]
    /\ late' = (late \/ dma.at = access[u].at)
    /\ GoAt(u, "unlock")
    /\ UNCHANGED <<ready, card, dma, complete, locked, transfers>>

(* Mutant of Unlock: the failed call keeps the lock. *)
UnlockDone(u) ==
    /\ access[u].pc \in {"done", "unlock"}
    /\ locked' = [locked EXCEPT ![Kind(u)] = AtCard(u, "unlock")]
    /\ access' = [access EXCEPT ![u] = Away]
    /\ UNCHANGED <<ready, card, dma, complete, transfers, late>>

Unlock(u) ==
    /\ access[u].pc \in {"done", "unlock"}
    /\ locked' = [locked EXCEPT ![Kind(u)] = FALSE]
    /\ access' = [access EXCEPT ![u] = Away]
    /\ UNCHANGED <<ready, card, dma, complete, transfers, late>>

CallFails(u) ==
    /\ AtCard(u, "failed")
    /\ access' = [access EXCEPT ![u] = Away]
    /\ UNCHANGED <<ready, card, dma, complete, locked, transfers, late>>

-----------------------------------------------------------------------------
(* Mutant of DataEnd: always the readers' semaphore. *)
DataEndForReader ==
    /\ Busy
    /\ complete' = [complete EXCEPT !["read"] = TRUE]
    /\ card' = IF dma.kind = "write" THEN "programming" ELSE "transfer"
    /\ access' = [u \in CardUsers |->
          [access[u] EXCEPT !.moved = @ \/ dma.at = access[u].at]]
    /\ dma' = NoTransfer
    /\ UNCHANGED <<ready, locked, transfers, late>>

(* The interrupt: DATAEND releases the semaphore of the kind, and the HAL  *)
(* frees the handle.  After a write the card is not ready for a while.     *)
DataEnd ==
    /\ Busy
    /\ complete' = [complete EXCEPT ![dma.kind] = TRUE]
    /\ card' = IF dma.kind = "write" THEN "programming" ELSE "transfer"
    /\ access' = [u \in CardUsers |->
          [access[u] EXCEPT !.moved = @ \/ dma.at = access[u].at]]
    /\ dma' = NoTransfer
    /\ UNCHANGED <<ready, locked, transfers, late>>

(* An error interrupt: the handle is free, and nobody is told. *)
DataError ==
    /\ Busy
    /\ dma' = NoTransfer /\ card' = "transfer"
    /\ UNCHANGED <<ready, complete, locked, access, transfers, late>>

CardProgrammed ==
    /\ card = "programming"
    /\ card' = "transfer"
    /\ UNCHANGED <<ready, dma, complete, locked, access, transfers, late>>

Card == DataEnd \/ DataError \/ CardProgrammed
Access(u) == \/ TakeLock(u) \/ StartDma(u) \/ Acquire(u) \/ GiveUp(u)
             \/ Unlock(u) \/ CallFails(u)

SdNext == Card \/ \E u \in CardUsers : CallCard(u) \/ Access(u)

SdSpec == SdInit /\ [][SdNext]_sdVars

(* The tasks run, and a mutex goes to a task that waits for it. *)
SdFairness == \A u \in CardUsers : WF_sdVars(Access(u)) /\ SF_sdVars(TakeLock(u))
SdFairSpec == SdSpec /\ SdFairness

-----------------------------------------------------------------------------
SdTypeOK ==
    /\ ready \in BOOLEAN /\ late \in BOOLEAN
    /\ card \in {"transfer", "data", "programming"}
    /\ card = "data" <=> Busy
    /\ dma.by \in CardUsers \cup {"nobody"} /\ dma.kind \in Kinds
    /\ complete \in [Kinds -> BOOLEAN] /\ locked \in [Kinds -> BOOLEAN]
    /\ access \in [CardUsers ->
           [pc : {"away", "lock", "start", "wait", "done", "unlock", "failed"},
            kind : Kinds, at : 0..MaxTransfers, moved : BOOLEAN]]
    /\ transfers \in 0..MaxTransfers

(* Readers and writers have different locks over one handle; it is the     *)
(* handle that keeps them apart.  Until a call ran out of time during its  *)
(* transfer, the DMA only moves data of a call that is still waiting for   *)
(* it, and a call that succeeds has moved its data; for no semaphore is    *)
(* left released behind a call (a late end leaves it so for good, and each *)
(* later call of the kind returns with the end of the one before it).      *)
DoneMeansMoved ==
    ~late => /\ Busy => /\ AtCard(dma.by, "wait")
                        /\ access[dma.by].at = dma.at
             /\ \A u \in CardUsers : AtCard(u, "done") => access[u].moved
             /\ \A k \in Kinds :
                    complete[k] <=> \E u \in CardUsers :
                        AtCard(u, "wait") /\ Kind(u) = k /\ access[u].moved

(* Every call returns, whatever the card and the other task do. *)
CallsReturn ==
    \A u \in CardUsers : AtCard(u, "lock") ~> AtCard(u, "away")
=============================================================================

------------------------------ MODULE NorFlash ------------------------------
(***************************************************************************)
(* The NOR flash behind the OCTOSPI peripheral: the chip, and the calls of *)
(* its driver as the tasks run them (the filesystem task through littlefs, *)
(* the shell through littlefs and the flash-* commands), with no lock      *)
(* between them.  A call of the HAL takes two steps: it tests the state of *)
(* its handle (a command is let in when it is ready, a transfer after a    *)
(* command that announced data) and, when the peripheral has done the      *)
(* work, sets the next one.  In between another task passes the same test. *)
(* What the chip makes of the commands of calls that overlap is not        *)
(* followed: it answers anything then, and only the handle and the tasks   *)
(* go on.  A page stands for one write of the granularity.                 *)
(***************************************************************************)
EXTENDS Naturals, FiniteSets

CONSTANTS Clients,       \* the tasks
          Mounters,      \* those that only mount: the filesystem task
          Sectors,       \* the number of sectors of the chip
          PerSector,     \* the pages of a sector
          Worn,       \* the pages that are not blank at the start
          MaxFlashCalls  \* bound: the calls of all tasks together

ASSUME FlashAssumption ==
    /\ IsFiniteSet(Clients) /\ Mounters \subseteq Clients
    /\ Sectors \in Nat \ {0} /\ PerSector \in Nat \ {0} /\ MaxFlashCalls \in Nat
    /\ Worn \subseteq 0..(Sectors * PerSector - 1)

VARIABLES driver,      \* init: m_initialized; known: m_geometry was read
          hal,         \* the state of the HAL's handle
          chip,        \* wel, wip: the bits of the status register
          data,        \* what the pages hold
          caller,      \* what each client is doing
          flashCalls,  \* the number of calls begun
          overlapped   \* history: two calls ran at the same time

norVars == <<driver, hal, chip, data, caller, flashCalls, overlapped>>

Pages == 0..(Sectors * PerSector - 1)
SectorOf(p) == p \div PerSector

(* A page is blank, or holds what it held at the start, the data of one    *)
(* client, or the bits that two programs of it left of each other.         *)
Contents == {"blank", "old", "mixed"} \cup Clients
Programmed(before, v) == IF before \in {"blank", v} THEN v ELSE "mixed"
Erased(pages, s) == [p \in Pages |-> IF SectorOf(p) = s THEN "blank" ELSE pages[p]]

AtRest == [op |-> "none", pc |-> "idle", first |-> 0, page |-> 0, end |-> 0,
           want |-> "wel", passed |-> FALSE, before |-> <<>>]

NorInit == /\ driver = [init |-> FALSE, known |-> FALSE]
           /\ hal = "reset"
           /\ chip = [wel |-> FALSE, wip |-> FALSE]
           /\ data = [p \in Pages |-> IF p \in Worn THEN "old" ELSE "blank"]
           /\ caller = [c \in Clients |-> AtRest]
           /\ flashCalls = 0 /\ overlapped = FALSE

-----------------------------------------------------------------------------
(* The HAL and the chip. *)

At(c, pc) == caller[c].pc = pc
Go(c, pc) == caller' = [caller EXCEPT ![c].pc = pc, ![c].passed = FALSE]
GoOn(c, page, pc) ==
    caller' = [caller EXCEPT ![c].page = page, ![c].pc = pc, ![c].passed = FALSE]
Poll(c, want) ==
    caller' = [caller EXCEPT ![c].want = want, ![c].pc = "poll", ![c].passed = FALSE]

Commanding   == {"enable", "poll", "act", "look", "sfdp"}
Transferring == {"polled", "data", "looked", "table", "map"}

(* Whether the HAL refuses the next step of a call. *)
Misfit(c) == \/ caller[c].pc \in Commanding /\ hal # "ready"
             \/ caller[c].pc \in Transferring /\ hal # "command"

(* The HAL lets a call in; the rest of it is another step. *)
Admit(c) ==
    /\ caller[c].pc \in Commanding \cup Transferring
    /\ ~caller[c].passed /\ ~Misfit(c)
    /\ caller' = [caller EXCEPT ![c].passed = TRUE]
    /\ UNCHANGED <<driver, hal, chip, data, flashCalls, overlapped>>

Order(c)    == caller[c].passed /\ UNCHANGED hal
Announce(c) == caller[c].passed /\ hal' = "command"
Transfer(c) == caller[c].passed /\ hal' = "ready"

(* A call fails where the HAL refuses a step, or where the peripheral does *)
(* not react in time: that puts the handle into its error state.           *)
Fail(c) ==
    /\ caller[c].pc \in Commanding \cup Transferring
    /\ \/ ~caller[c].passed /\ Misfit(c) /\ UNCHANGED hal
       \/ caller[c].passed /\ hal' = "error"
    /\ driver' = [driver EXCEPT !.init = @ /\ caller[c].op # "init"]
    /\ Go(c, "failed")
    /\ UNCHANGED <<chip, data, flashCalls, overlapped>>

(* The chip completes a program or an erase. *)
Complete ==
    /\ chip.wip
    /\ chip' = [wel |-> FALSE, wip |-> FALSE]
    /\ UNCHANGED <<driver, hal, data, caller, flashCalls, overlapped>>

(* It carries out what changes it only when enabled and not busy.          *)
Alter(new) ==
    IF chip.wel /\ ~chip.wip /\ ~overlapped
    THEN chip' = [chip EXCEPT !.wip = TRUE] /\ data' = new
    ELSE UNCHANGED <<chip, data>>

-----------------------------------------------------------------------------
(* A client calls the driver for the pages from first to end - 1. *)
Begin(c, op, first, end, pc) ==
    /\ At(c, "idle") /\ flashCalls < MaxFlashCalls
    /\ flashCalls' = flashCalls + 1
    /\ overlapped' = (overlapped \/ \E d \in Clients : ~At(d, "idle"))
    /\ caller' = [caller EXCEPT ![c] =
          [op |-> op, pc |-> pc, first |-> first, page |-> first, end |-> end,
           want |-> "wel", passed |-> FALSE,
           before |-> IF overlapped' THEN <<>> ELSE data]]
    /\ UNCHANGED <<chip, data>>

CallInit(c) ==
    /\ Begin(c, "init", 0, 0, IF driver.init THEN "ok" ELSE "setup")
    /\ driver' = [driver EXCEPT !.init = TRUE]
    /\ UNCHANGED hal

CallRead(c) ==
    /\ \E p \in Pages :
          Begin(c, "read", p, p + 1, IF driver.init THEN "look" ELSE "failed")
    /\ UNCHANGED <<driver, hal>>

CallWrite(c) ==
    /\ \E p, e \in Pages :
          p <= e /\ Begin(c, "write", p, e + 1,
                          IF driver.init THEN "enable" ELSE "failed")
    /\ UNCHANGED <<driver, hal>>

CallErase(c) ==
    /\ \E s \in 0..(Sectors - 1) :
          Begin(c, "erase", s * PerSector, s * PerSector + 1, "enable")
    /\ UNCHANGED <<driver, hal>>

(* erase_chip() finds no sectors while the geometry is unknown. *)
CallWipe(c) ==
    /\ Begin(c, "wipe", 0, Sectors * PerSector,
             IF ~driver.known THEN "ok"
             ELSE IF driver.init THEN "look" ELSE "failed")
    /\ UNCHANGED <<driver, hal>>

CallMap(c) == Begin(c, "map", 0, 0, "map") /\ UNCHANGED <<driver, hal>>

Return(c) ==
    /\ caller[c].pc \in {"ok", "failed"}
    /\ caller' = [caller EXCEPT ![c] = AtRest]
    /\ UNCHANGED <<driver, hal, chip, data, flashCalls, overlapped>>

-----------------------------------------------------------------------------
(* init(): the HAL, and the chip's own table of parameters, which may not  *)
(* be valid.                                                               *)
SetUp(c) ==
    /\ At(c, "setup")
    /\ hal' = IF hal = "reset" THEN "ready" ELSE hal
    /\ Go(c, "sfdp")
    /\ UNCHANGED <<driver, chip, data, flashCalls, overlapped>>

AskTable(c) ==
    /\ At(c, "sfdp") /\ Announce(c) /\ Go(c, "table")
    /\ UNCHANGED <<driver, chip, data, flashCalls, overlapped>>

ReadTable(c) ==
    /\ At(c, "table") /\ Transfer(c)
    /\ \/ driver' = [driver EXCEPT !.known = TRUE] /\ Go(c, "ok")
       \/ driver' = [driver EXCEPT !.init = FALSE] /\ Go(c, "failed")
    /\ UNCHANGED <<chip, data, flashCalls, overlapped>>

(* Mutant of WriteEnable: forgotten. *)
WriteEnableNot(c) ==
    /\ At(c, "enable") /\ Order(c)
    /\ Poll(c, "wel")
    /\ UNCHANGED <<driver, chip, data, flashCalls, overlapped>>

WriteEnable(c) ==
    /\ At(c, "enable") /\ Order(c)
    /\ chip' = [chip EXCEPT !.wel = @ \/ ~chip.wip]
    /\ Poll(c, "wel")
    /\ UNCHANGED <<driver, data, flashCalls, overlapped>>

(* wait_status(): reads the status register until it shows what is wanted. *)
AskStatus(c) ==
    /\ At(c, "poll") /\ Announce(c) /\ Go(c, "polled")
    /\ UNCHANGED <<driver, chip, data, flashCalls, overlapped>>

(* A page is programmed: on to the next, the first page of the next sector *)
(* for erase_chip().                                                       *)
NextPage(c) ==
    LET q    == caller[c]
        next == IF q.op = "wipe" THEN (SectorOf(q.page) + 1) * PerSector ELSE q.page + 1
        pc   == IF next = q.end THEN "ok"
                ELSE IF q.op = "wipe" THEN "look" ELSE "enable"
    IN  GoOn(c, next, pc)

(* Mutant of ReadStatus: takes any answer for the end of the operation. *)
ReadStatusOnce(c) ==
    /\ At(c, "polled") /\ Transfer(c)
    /\ \/ caller[c].want = "wel" /\ chip.wel /\ Go(c, "act")
       \/ caller[c].want = "wel" /\ ~chip.wel /\ Go(c, "poll")
       \/ caller[c].want = "ready" /\ NextPage(c)
    /\ UNCHANGED <<driver, chip, data, flashCalls, overlapped>>

ReadStatus(c) ==
    /\ At(c, "polled") /\ Transfer(c)
    /\ \/ caller[c].want = "wel" /\ (chip.wel \/ overlapped) /\ Go(c, "act")
       \/ caller[c].want = "ready" /\ (~chip.wip \/ overlapped) /\ NextPage(c)
       \/ /\ overlapped \/ IF caller[c].want = "wel" THEN ~chip.wel ELSE chip.wip
          /\ Go(c, "poll")
    /\ UNCHANGED <<driver, chip, data, flashCalls, overlapped>>

(* write(): the page program command and its data. *)
AskProgram(c) ==
    /\ At(c, "act") /\ caller[c].op = "write"
    /\ Announce(c) /\ Go(c, "data")
    /\ UNCHANGED <<driver, chip, data, flashCalls, overlapped>>

ProgramPage(c) ==
    /\ At(c, "data") /\ Transfer(c)
    /\ Alter([data EXCEPT ![caller[c].page] = Programmed(@, c)])
    /\ Poll(c, "ready")
    /\ UNCHANGED <<driver, flashCalls, overlapped>>

(* erase_sector(): without the geometry the command is no command at all.  *)
EraseSector(c) ==
    /\ At(c, "act") /\ caller[c].op \in {"erase", "wipe"}
    /\ Order(c)
    /\ IF driver.known
       THEN Alter(Erased(data, SectorOf(caller[c].page)))
       ELSE UNCHANGED <<chip, data>>
    /\ Poll(c, "ready")
    /\ UNCHANGED <<driver, flashCalls, overlapped>>

(* Mutant of AskPage: nothing to read, and back without the transfer. *)
AskPageOnly(c) ==
    /\ At(c, "look") /\ Announce(c) /\ Go(c, "ok")
    /\ UNCHANGED <<driver, chip, data, flashCalls, overlapped>>

(* read(): a busy chip answers with anything. *)
AskPage(c) ==
    /\ At(c, "look") /\ Announce(c) /\ Go(c, "looked")
    /\ UNCHANGED <<driver, chip, data, flashCalls, overlapped>>

LookAtPage(c) ==
    /\ At(c, "looked") /\ Transfer(c)
    /\ \E seen \in IF chip.wip \/ overlapped THEN {"blank", "old"}
                                             ELSE {data[caller[c].page]} :
          IF caller[c].op = "wipe" /\ seen # "blank" THEN Go(c, "enable")
          ELSE LET next == caller[c].page + 1
               IN  GoOn(c, next, IF next = caller[c].end THEN "ok" ELSE "look")
    /\ UNCHANGED <<driver, chip, data, flashCalls, overlapped>>

(* memorymapped_mode(): the HAL lets it in only where data was announced,  *)
(* that is in the middle of somebody else's call, and nobody leads it out. *)
MapMemory(c) ==
    /\ At(c, "map") /\ caller[c].passed /\ hal' = "mapped" /\ Go(c, "ok")
    /\ UNCHANGED <<driver, chip, data, flashCalls, overlapped>>

NorRun(c) == \/ Admit(c) \/ MapMemory(c) \/ SetUp(c) \/ AskTable(c) \/ ReadTable(c) \/ WriteEnable(c)
             \/ AskStatus(c) \/ ReadStatus(c) \/ AskProgram(c) \/ ProgramPage(c)
             \/ EraseSector(c) \/ AskPage(c) \/ LookAtPage(c) \/ Return(c)

NorCall(c) == \/ CallInit(c) \/ CallRead(c)
              \/ /\ c \notin Mounters
                 /\ CallWrite(c) \/ CallErase(c) \/ CallWipe(c) \/ CallMap(c)

NorNext == \/ Complete
           \/ \E c \in Clients : NorCall(c) \/ NorRun(c) \/ Fail(c)

NorSpec == NorInit /\ [][NorNext]_norVars

(* The chip completes what it began, and the tasks run. *)
NorFairness == /\ WF_norVars(Complete)
               /\ \A c \in Clients : WF_norVars(NorRun(c) \/ Fail(c))
NorFairSpec == NorSpec /\ NorFairness

-----------------------------------------------------------------------------
NorTypeOK ==
    /\ driver \in [init : BOOLEAN, known : BOOLEAN]
    /\ hal \in {"reset", "ready", "command", "mapped", "error"}
    /\ chip \in [wel : BOOLEAN, wip : BOOLEAN]
    /\ data \in [Pages -> Contents]
    /\ \A c \in Clients :
          /\ caller[c].op \in {"none", "init", "read", "write", "erase", "wipe", "map"}
          /\ caller[c].pc \in {"idle", "setup", "ok", "failed"} \cup Commanding \cup Transferring
          /\ caller[c].want \in {"wel", "ready"} /\ caller[c].passed \in BOOLEAN
          /\ caller[c].end \in 0..(Sectors * PerSector)
          /\ caller[c].page \in caller[c].first..caller[c].end
          /\ caller[c].page = caller[c].end => caller[c].pc \notin {"act", "data", "look", "looked"}
          /\ caller[c].before \in {<<>>} \cup [Pages -> Contents]
    /\ flashCalls \in 0..MaxFlashCalls
    /\ overlapped \in BOOLEAN

(* However the calls of two tasks interleave, and although nothing keeps   *)
(* one from passing the test of the HAL that the other is past: the handle *)
(* is not left between a command and its transfer.  When it is there, some *)
(* call is still to make its transfer, or to be refused it by the HAL; so  *)
(* once every call has returned none of the next is refused for that.      *)
NeverLeftAnnounced ==
    hal = "command" => \E c \in Clients : caller[c].pc \in Transferring \ {"map"}

(* As long as no calls overlap, what a call reports is what it did: write() *)
(* has programmed the pages it counts, no others, each on top of what it    *)
(* held; erase_sector() and erase_chip() leave blank what they say, once    *)
(* the geometry is known; and read() never meets a busy chip.               *)
ReportsTrue ==
    ~overlapped => \A c \in Clients :
        LET q == caller[c] IN
        /\ q.pc = "looked" => ~chip.wip
        /\ q.op = "write" /\ q.pc \in {"ok", "failed"} =>
              \A p \in Pages :
                  \/ data[p] = IF p \in q.first..(q.page - 1)
                               THEN Programmed(q.before[p], c) ELSE q.before[p]
                  \/ q.pc = "failed" /\ p = q.page /\ data[p] = Programmed(q.before[p], c)
        /\ q.op = "erase" /\ q.pc = "ok" /\ driver.known =>
              data = Erased(q.before, SectorOf(q.first))
        /\ q.op = "wipe" /\ q.pc = "ok" /\ driver.known =>
              \A p \in Pages : data[p] = "blank"

(* As long as no calls overlap every call returns: the loops that poll the *)
(* status register have no other way out.                                  *)
LoneCallsReturn ==
    \A c \in Clients : ~At(c, "idle") ~> (At(c, "idle") \/ overlapped)
=============================================================================

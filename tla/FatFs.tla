------------------------------- MODULE FatFs -------------------------------
(***************************************************************************)
(* The FAT file system on the SD card: fatfs::filesystem, its file handles *)
(* and the tasks that use it.  The filesystem task mounts the card at the  *)
(* start; the shell prints a file (cat), makes a directory or formats the  *)
(* card; the sensor task appends a line to joystick.txt when the centre of *)
(* the joystick is pressed.  Neither cat nor the sensor task ever closes   *)
(* its file.                                                               *)
(*                                                                         *)
(* The library is FatFs: it counts the mounts to tell the files of one     *)
(* from those of another, mounts a registered volume by itself when it has *)
(* to, and keeps a table of _FS_LOCK open files.  It is built without its  *)
(* lock: two calls at once are undefined, and end a behaviour.             *)
(*                                                                         *)
(* debug_assert() stops a build without NDEBUG: __assert_func() ends in a  *)
(* loop, in which the sensor task keeps the tasks of lower priority from   *)
(* running.  A build with NDEBUG goes on.                                  *)
(***************************************************************************)
EXTENDS Integers, FiniteSets

CONSTANTS FatHandles,    \* k_max_file_handles
          FsLock,        \* _FS_LOCK
          Debug,         \* whether debug_assert() asserts
          Papers,        \* the files on the card other than joystick.txt
          MaxOrders      \* bound: the commands given and the keys pressed

ASSUME FatFsAssumption ==
    /\ FatHandles \in Nat \ {0} /\ FsLock \in Nat /\ MaxOrders \in Nat
    /\ Debug \in BOOLEAN

Journal  == "joystick.txt"
FatNames == Papers \cup {Journal}
FatUsers == {"filesystem", "shell", "sensor"}

NoFile == [volume |-> 0, name |-> Journal]

VARIABLES medium,    \* whether it holds a file system
          names,     \* the files on it
          flag,      \* m_mounted
          volume,    \* the library: registered: f_mount() was given m_fatfs_context;
                     \* id: the mount it is in, or 0; mounts: their number;
                     \* locks: open file |-> whether for writing
          handles,   \* m_file_handles: the mount and the file each was opened
                     \* in, NoFile if m_open is FALSE
          task,      \* what each task does
          orders,    \* the commands given and the keys pressed
          past       \* history: together: the library was entered twice;
                     \* hasty: an order was given during the mount at the
                     \* start; lines: the lines the library took

fatVars == <<medium, names, flag, volume, handles, task, orders, past>>

Asleep == [pc |-> "idle", name |-> Journal, handle |-> 1, was |-> FALSE]

FatInit ==
    /\ medium \in BOOLEAN
    /\ names \in {{}, Papers} /\ (medium \/ names = {})
    /\ flag = FALSE
    /\ volume = [registered |-> FALSE, id |-> 0, mounts |-> 0, locks |-> << >>]
    /\ handles = [h \in 1..FatHandles |-> NoFile]
    /\ task = [t \in FatUsers |-> IF t = "filesystem" THEN [Asleep EXCEPT !.pc = "claim"]
                                                      ELSE Asleep]
    /\ orders = 0
    /\ past = [together |-> FALSE, hasty |-> FALSE, lines |-> 0]

-----------------------------------------------------------------------------
Does(t, pc) == task[t].pc = pc
GoTo(t, pc) == task' = [task EXCEPT ![t].pc = pc]

InLibrary == {"mounting", "opening", "reading", "writing", "making",
              "unmounting", "formatting"}

(* A task that went through a null pointer or failed an assertion keeps    *)
(* every other from running.                                               *)
Halted == task["sensor"].pc \in {"crashed", "stopped"}

(* A call of the library begins, and takes time. *)
Call(t, pc) ==
    /\ GoTo(t, pc)
    /\ past' = [past EXCEPT !.together =
           \E u \in FatUsers \ {t} : task[u].pc \in InLibrary]

(* find_volume(): mounts a registered volume that is not. *)
Found(v) ==
    IF v.id # 0 \/ ~v.registered \/ ~medium THEN v
    ELSE [v EXCEPT !.id = v.mounts + 1, !.mounts = @ + 1, !.locks = << >>]

(* chk_lock(): a file open for writing is open once, one open for reading  *)
(* any number of times; a new one takes an entry of the table.             *)
Lockable(v, name, writing) ==
    IF name \in DOMAIN v.locks THEN ~writing /\ ~v.locks[name]
                               ELSE Cardinality(DOMAIN v.locks) < FsLock

Locked(v, name, writing) ==
    [v EXCEPT !.locks = [n \in DOMAIN @ \cup {name} |->
                             IF n = name THEN writing ELSE @[n]]]

Current(h) == handles[h].volume = volume.id /\ volume.id # 0

-----------------------------------------------------------------------------
(* mount() *)

FatClaim(t) ==
    /\ Does(t, "claim")
    /\ flag' = TRUE
    /\ GoTo(t, IF flag THEN "idle" ELSE "f_mount")
    /\ UNCHANGED <<medium, names, volume, handles, orders, past>>

EnterFatMount(t) ==
    /\ Does(t, "f_mount") /\ Call(t, "mounting")
    /\ UNCHANGED <<medium, names, flag, volume, handles, orders>>

(* The volume is registered even when it cannot be mounted. *)
LeaveFatMount(t) ==
    LET v == [volume EXCEPT !.registered = TRUE, !.id = 0, !.locks = << >>]
    IN  /\ Does(t, "mounting") /\ GoTo(t, "idle")
        /\ volume' \in {v, Found(v)}
        /\ flag' = (flag /\ volume'.id # 0)
        /\ UNCHANGED <<medium, names, handles, orders, past>>

-----------------------------------------------------------------------------
(* An order is obeyed when the last one of its task is done. *)
Given(t, pc, name) ==
    /\ Does(t, "idle") /\ orders < MaxOrders /\ ~past.together /\ ~Halted
    /\ orders' = orders + 1
    /\ task' = [task EXCEPT ![t] = [Asleep EXCEPT !.pc = pc, !.name = name, !.was = flag]]
    /\ past' = [past EXCEPT !.hasty = @ \/ ~Does("filesystem", "idle")]
    /\ UNCHANGED <<medium, names, flag, volume, handles>>

CatCommand   == \E name \in FatNames : Given("shell", "scan", name)
MkdirCommand == Given("shell", IF flag THEN "f_mkdir" ELSE "idle", Journal)
FormatCard   == Given("shell", IF flag THEN "unmount" ELSE "f_mkfs", Journal)
PressCentre  == Given("sensor", "scan", Journal)

FreeHandles == {h \in DOMAIN handles : handles[h] = NoFile}

(* filesystem::open() looks for a handle that is not open.  Without one    *)
(* cat gives up, and log::fatfs() goes through the null pointer.           *)
PickHandle(t) ==
    /\ Does(t, "scan")
    /\ IF FreeHandles = {}
       THEN GoTo(t, IF t = "sensor" THEN "crashed" ELSE "idle")
       ELSE task' = [task EXCEPT
                ![t].pc = "open",
                ![t].handle = CHOOSE h \in FreeHandles : \A g \in FreeHandles : h <= g]
    /\ UNCHANGED <<medium, names, flag, volume, handles, orders, past>>

Use(t) == IF t = "sensor" THEN "write" ELSE "read"

(* file::open() refuses a handle another task has opened meanwhile; the    *)
(* result is ignored.                                                      *)
OpenHandle(t) ==
    /\ Does(t, "open")
    /\ IF handles[task[t].handle] = NoFile
       THEN Call(t, "opening")
       ELSE GoTo(t, Use(t)) /\ UNCHANGED past
    /\ UNCHANGED <<medium, names, flag, volume, handles, orders>>

(* f_open(): cat reads a file that is there, the journal is made if it is  *)
(* not.                                                                    *)
HandleOpened(t) ==
    LET v       == Found(volume)
        name    == task[t].name
        writing == t = "sensor"
    IN  /\ Does(t, "opening") /\ GoTo(t, Use(t))
        /\ \/ /\ v.id # 0 /\ Lockable(v, name, writing)
              /\ name \in names \/ writing
              /\ volume' = Locked(v, name, writing)
              /\ handles' = [handles EXCEPT ![task[t].handle] =
                                 [volume |-> v.id, name |-> name]]
              /\ names' = names \cup {name}
           \/ volume' \in {volume, v} /\ UNCHANGED <<handles, names>>
        /\ UNCHANGED <<medium, flag, orders, past>>

(* The calls on a handle do nothing and return 0 unless it is open. *)
UseHandle(t, pc, inside, refused) ==
    /\ Does(t, pc)
    /\ IF handles[task[t].handle] = NoFile
       THEN GoTo(t, refused) /\ UNCHANGED past
       ELSE Call(t, inside)
    /\ UNCHANGED <<medium, names, flag, volume, handles, orders>>

(* file_stream_sink asserts that write() took all it was given. *)
Unwritten == IF Debug THEN "stopped" ELSE "idle"

CatReads(t)     == UseHandle(t, "read", "reading", "idle")
JournalLine(t)  == UseHandle(t, "write", "writing", Unwritten)

CatDone(t) == /\ Does(t, "reading") /\ GoTo(t, "idle")
              /\ UNCHANGED <<medium, names, flag, volume, handles, orders, past>>

(* f_write(): takes the line if the file is of this mount and for writing, *)
(* and the card has room and works.                                        *)
LineWritten(t) ==
    /\ Does(t, "writing")
    /\ \/ /\ Current(task[t].handle) /\ volume.locks[handles[task[t].handle].name]
          /\ past' = [past EXCEPT !.lines = @ + 1] /\ GoTo(t, "idle")
       \/ GoTo(t, Unwritten) /\ UNCHANGED past
    /\ UNCHANGED <<medium, names, flag, volume, handles, orders>>

-----------------------------------------------------------------------------
EnterMkdir(t) ==
    /\ Does(t, "f_mkdir") /\ Call(t, "making")
    /\ UNCHANGED <<medium, names, flag, volume, handles, orders>>

LeaveMkdir(t) ==
    /\ Does(t, "making") /\ GoTo(t, "idle")
    /\ volume' \in {volume, Found(volume)}
    /\ UNCHANGED <<medium, names, flag, handles, orders, past>>

(* unmount(), which the library never refuses. *)
FatUnclaim(t) ==
    /\ Does(t, "unmount")
    /\ flag' = FALSE
    /\ GoTo(t, IF flag THEN "f_unmount" ELSE "f_mkfs")
    /\ UNCHANGED <<medium, names, volume, handles, orders, past>>

EnterFatUnmount(t) ==
    /\ Does(t, "f_unmount") /\ Call(t, "unmounting")
    /\ UNCHANGED <<medium, names, flag, volume, handles, orders>>

LeaveFatUnmount(t) ==
    /\ Does(t, "unmounting") /\ GoTo(t, "f_mkfs")
    /\ volume' = [volume EXCEPT !.registered = FALSE, !.id = 0, !.locks = << >>]
    /\ UNCHANGED <<medium, names, flag, handles, orders, past>>

EnterMkfs(t) ==
    /\ Does(t, "f_mkfs") /\ Call(t, "formatting")
    /\ UNCHANGED <<medium, names, flag, volume, handles, orders>>

(* f_mkfs() takes the volume out of use; format() mounts again only what   *)
(* had been mounted.                                                       *)
LeaveMkfs(t) ==
    /\ Does(t, "formatting")
    /\ medium' \in BOOLEAN /\ names' = {}
    /\ volume' = [volume EXCEPT !.id = 0]
    /\ GoTo(t, IF medium' /\ task[t].was THEN "claim" ELSE "idle")
    /\ UNCHANGED <<flag, handles, orders, past>>

-----------------------------------------------------------------------------
FatMounting(t) == FatClaim(t) \/ EnterFatMount(t) \/ LeaveFatMount(t)

Filing(t) == \/ PickHandle(t) \/ OpenHandle(t) \/ HandleOpened(t)

FatFormatting(t) == \/ FatUnclaim(t) \/ EnterFatUnmount(t) \/ LeaveFatUnmount(t)
                    \/ EnterMkfs(t) \/ LeaveMkfs(t)

FatNext ==
    \/ CatCommand \/ MkdirCommand \/ FormatCard \/ PressCentre
    \/ /\ ~past.together /\ ~Halted
       /\ \/ \E t \in {"filesystem", "shell"} : FatMounting(t)
          \/ \E t \in {"shell", "sensor"} : Filing(t)
          \/ CatReads("shell") \/ CatDone("shell")
          \/ JournalLine("sensor") \/ LineWritten("sensor")
          \/ EnterMkdir("shell") \/ LeaveMkdir("shell")
          \/ FatFormatting("shell")

FatSpec == FatInit /\ [][FatNext]_fatVars

-----------------------------------------------------------------------------
FatTypeOK ==
    /\ medium \in BOOLEAN /\ names \subseteq FatNames /\ flag \in BOOLEAN
    /\ volume.registered \in BOOLEAN /\ volume.mounts \in Nat
    /\ volume.id \in {0, volume.mounts}
    /\ DOMAIN volume.locks \subseteq FatNames
    /\ handles \in [1..FatHandles -> [volume : 0..volume.mounts, name : FatNames]]
    /\ orders \in 0..MaxOrders
    /\ past \in [together : BOOLEAN, hasty : BOOLEAN, lines : 0..MaxOrders]

(* Unless an order was given during the mount at the start, the flag means *)
(* a mounted volume while neither the filesystem task nor the shell works. *)
VolumeBehindFlag ==
    /\ ~past.together /\ ~past.hasty
    /\ Does("filesystem", "idle") /\ Does("shell", "idle") /\ flag
    => volume.registered /\ volume.id # 0

(* A journal that took a line takes the next: what file_stream_sink asserts *)
(* of every write() (debug_assert(n == buffer.size())) holds for the later  *)
(* presses of the key as it held for the first.                             *)
JournalGoesOn == past.lines > 0 => ~Does("sensor", "stopped")

(* log::fatfs() asserts that open() has given it a handle. *)
HandleForJournal == ~Does("sensor", "crashed")
=============================================================================

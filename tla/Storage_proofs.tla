--------------------------- MODULE Storage_proofs ---------------------------
(***************************************************************************)
(* Proofs about the FAT file system, the two drivers below the file        *)
(* systems, and the composition.  The FAT file system, for any number of   *)
(* file handles, table entries, files and orders, with and without         *)
(* assertions: the types, and the volume behind m_mounted.  The flash, for *)
(* any tasks, any geometry and any number of calls: however the calls      *)
(* interleave, the handle of the HAL is not left between a command and its *)
(* transfer; and as long as no two calls overlap, what a call reports is   *)
(* what it did.                                                            *)
(* The SD card, for every set of tasks and every number of calls: a call   *)
(* that succeeded has moved its own block as long as no transfer outlasts  *)
(* the time of its call.  And the theorems of the four storage components, *)
(* carried over to their composition.                                      *)
(***************************************************************************)
EXTENDS Storage, LittleFs_proofs, WellFoundedInduction, TLAPS

(*--------------------------- The FAT file system --------------------------*)
(* That the flag tells the truth is not inductive: it rests on who may     *)
(* take it and give it back in the middle of mount(), unmount() and        *)
(* format() (BehindInv), and that in turn on where each task can be        *)
(* (TaskInv).                                                              *)

FatPlaces == {"idle", "claim", "f_mount", "scan", "open", "read", "write", "f_mkdir", "unmount",
              "f_unmount", "f_mkfs", "crashed", "stopped"} \cup InLibrary

TaskStates == [pc : FatPlaces, name : FatNames, handle : 1..FatHandles, was : BOOLEAN]

FatFlags ==
    /\ medium \in BOOLEAN /\ flag \in BOOLEAN /\ volume.registered \in BOOLEAN
    /\ past.together \in BOOLEAN /\ past.hasty \in BOOLEAN

(* The records have their fields, and the locks those of files.            *)
FatTypes ==
    /\ names \subseteq FatNames
    /\ volume = [registered |-> volume.registered, id |-> volume.id,
                 mounts |-> volume.mounts, locks |-> volume.locks]
    /\ volume.mounts \in Nat /\ volume.id \in {0, volume.mounts}
    /\ DOMAIN volume.locks \subseteq FatNames
    /\ handles \in [1..FatHandles -> [volume : 0..volume.mounts, name : FatNames]]
    /\ task \in [FatUsers -> TaskStates]
    /\ orders \in 0..MaxOrders
    /\ past = [together |-> past.together, hasty |-> past.hasty, lines |-> past.lines]
    /\ past.lines \in Nat

(* A line is taken for an order at most.                                   *)
Writing    == task["sensor"].pc \in {"scan", "open", "opening", "write", "writing"}
OrdersInv  == past.lines + (IF Writing THEN 1 ELSE 0) <= orders

(* Who works on what; the filesystem task only mounts.                     *)
TaskInv ==
    /\ task["filesystem"].pc \in {"idle", "claim", "f_mount", "mounting"}
    /\ task["sensor"].pc \in {"idle", "scan", "open", "opening", "write", "writing", "crashed", "stopped"}
    /\ task["sensor"].name = Journal
    /\ task["shell"].pc \notin {"write", "writing", "crashed", "stopped"}

(* The flag is set by who mounts, and taken back before the volume goes.   *)
BehindInv ==
    ~past.together /\ ~past.hasty =>
        /\ ~Does("filesystem", "idle") => Does("shell", "idle") /\ Does("sensor", "idle")
        /\ Does("filesystem", "claim") => ~flag
        /\ task["shell"].pc \in {"f_unmount", "unmounting", "f_mkfs", "formatting", "claim"} => ~flag
        /\ Does("filesystem", "idle") /\ flag /\ task["shell"].pc \notin {"f_mount", "mounting"} =>
               volume.registered /\ volume.id # 0

FatInv == FatFlags /\ FatTypes /\ OrdersInv /\ TaskInv /\ BehindInv

-----------------------------------------------------------------------------
(* A set of numbers that is not empty has a least one. *)
LEMMA Least ==
    ASSUME NEW S \in SUBSET Nat, S # {} PROVE \E h \in S : \A g \in S : h <= g
<1> DEFINE R == OpToRel(<, Nat)
<1>1. R = {ss \in Nat \X Nat : ss[1] < ss[2]}
  BY Zenon DEF OpToRel
<1>2. IsWellFoundedOn(R, Nat)
  BY NatLessThanWellFounded, Zenon
<1> HIDE DEF R
<1>3. \E h \in S : \A g \in S : ~(<<g, h>> \in R)
  BY <1>2, WFMin
<1>4. ASSUME NEW g \in Nat, NEW h \in Nat, g < h PROVE <<g, h>> \in R
  <2>1. <<g, h>> \in Nat \X Nat /\ <<g, h>>[1] < <<g, h>>[2]
    BY <1>4
  <2> QED
    BY <1>1, <2>1, Zenon
<1>5. PICK h \in S : \A g \in S : ~(<<g, h>> \in R)
  BY <1>3
<1>6. \A g \in S : ~(g < h)
  BY <1>4, <1>5, Zenon
<1> QED
  BY <1>6

LEMMA AsleepType ==
    Asleep \in TaskStates /\ \A pc \in FatPlaces : [Asleep EXCEPT !.pc = pc] \in TaskStates
<1>1. 1 \in 1..FatHandles /\ Journal \in FatNames /\ "idle" \in FatPlaces
  BY FatFsAssumption DEF FatPlaces, FatNames
<1>2. Asleep \in TaskStates
  BY <1>1 DEF Asleep, TaskStates
<1>3. ASSUME NEW pc \in FatPlaces PROVE [Asleep EXCEPT !.pc = pc] \in TaskStates
  BY <1>1 DEF Asleep, TaskStates
<1> QED
  BY <1>2, <1>3

LEMMA FatInitInv == FatInit => FatInv
<1> SUFFICES ASSUME FatInit PROVE FatInv
  OBVIOUS
<1> USE FatFsAssumption DEF FatInit, Asleep, NoFile
<1>1. FatFlags
  BY DEF FatFlags
<1>2. FatTypes
  <2>1. /\ volume = [registered |-> FALSE, id |-> 0, mounts |-> 0, locks |-> << >>]
        /\ DOMAIN volume.locks = {}
    OBVIOUS
  <2>2. handles \in [1..FatHandles -> [volume : 0..volume.mounts, name : FatNames]]
    BY DEF FatNames
  <2>3. task \in [FatUsers -> TaskStates]
    BY AsleepType DEF FatPlaces
  <2>4. names \subseteq FatNames /\ orders \in 0..MaxOrders
    BY DEF FatNames
  <2>5. past = [together |-> past.together, hasty |-> past.hasty, lines |-> past.lines] /\ past.lines \in Nat
    OBVIOUS
  <2> QED
    <3>1. /\ volume = [registered |-> volume.registered, id |-> volume.id,
                 mounts |-> volume.mounts, locks |-> volume.locks]
          /\ volume.mounts \in Nat /\ volume.id \in {0, volume.mounts}
          /\ DOMAIN volume.locks \subseteq FatNames
      BY <2>1
    <3> QED
      BY <2>2, <2>3, <2>4, <2>5, <3>1 DEF FatTypes
<1>3. OrdersInv /\ TaskInv
  BY DEF OrdersInv, Writing, TaskInv, FatUsers
<1>4. BehindInv
  BY DEF BehindInv, Does, FatUsers
<1> QED
  BY <1>1, <1>2, <1>3, <1>4 DEF FatInv

(* What the library does to the volume when it looks for it. *)
IsVolume(v) == v = [registered |-> v.registered, id |-> v.id, mounts |-> v.mounts, locks |-> v.locks]

LEMMA FoundVolume ==
    ASSUME NEW v, IsVolume(v), v.mounts \in Nat, v.id \in {0, v.mounts}
    PROVE  /\ IsVolume(Found(v)) /\ Found(v).registered = v.registered
           /\ \/ Found(v) = v
              \/ /\ v.id = 0 /\ Found(v).id = v.mounts + 1 /\ Found(v).mounts = v.mounts + 1
                 /\ DOMAIN Found(v).locks = {}
<1>1. CASE Found(v) = v
  BY <1>1
<1>2. CASE v.id = 0 /\ Found(v) = [v EXCEPT !.id = v.mounts + 1, !.mounts = v.mounts + 1, !.locks = << >>]
  <2>1. /\ IsVolume(Found(v)) /\ Found(v).registered = v.registered
        /\ Found(v).id = v.mounts + 1 /\ Found(v).mounts = v.mounts + 1 /\ Found(v).locks = << >>
    BY <1>2 DEF IsVolume
  <2> QED
    BY <1>2, <2>1
<1>3. \/ Found(v) = v
      \/ v.id = 0 /\ Found(v) = [v EXCEPT !.id = v.mounts + 1, !.mounts = v.mounts + 1, !.locks = << >>]
  BY DEF Found
<1> QED
  BY <1>1, <1>2, <1>3

LEMMA LockedVolume ==
    ASSUME NEW v, IsVolume(v), NEW name, NEW writing
    PROVE  LET w == Locked(v, name, writing) IN
           /\ IsVolume(w) /\ w.registered = v.registered /\ w.id = v.id /\ w.mounts = v.mounts
           /\ DOMAIN w.locks = DOMAIN v.locks \cup {name}
           /\ \A n \in DOMAIN w.locks : w.locks[n] = IF n = name THEN writing ELSE v.locks[n]
BY DEF Locked, IsVolume

LEMMA EmptiedVolume ==
    ASSUME IsVolume(volume), NEW r \in BOOLEAN,
           NEW v, v = [volume EXCEPT !.registered = r, !.id = 0, !.locks = << >>]
    PROVE  /\ IsVolume(v) /\ v.registered = r /\ v.id = 0 /\ v.mounts = volume.mounts
           /\ DOMAIN v.locks = {}
<1>1. IsVolume(v)
  BY DEF IsVolume
<1>2. v.registered = r /\ v.id = 0 /\ v.mounts = volume.mounts
  BY DEF IsVolume
<1>3. DOMAIN v.locks = {}
  BY DEF IsVolume
<1> QED
  BY <1>1, <1>2, <1>3

LEMMA FatNextFlags == FatTypes /\ FatFlags /\ [FatNext]_fatVars => FatFlags'
<1> SUFFICES ASSUME FatTypes, FatFlags, [FatNext]_fatVars PROVE FatFlags'
  OBVIOUS
<1> USE DEF FatFlags
<1>1. medium' \in BOOLEAN
  BY DEF FatNext, CatCommand, MkdirCommand, FormatCard, PressCentre, Given, FatMounting, FatClaim,
         EnterFatMount, LeaveFatMount, Filing, PickHandle, OpenHandle, HandleOpened, CatReads, CatDone,
         JournalLine, UseHandle, LineWritten, EnterMkdir, LeaveMkdir, FatFormatting, FatUnclaim,
         EnterFatUnmount, LeaveFatUnmount, EnterMkfs, LeaveMkfs, fatVars
<1>2. flag' \in BOOLEAN
  BY DEF FatNext, CatCommand, MkdirCommand, FormatCard, PressCentre, Given, FatMounting, FatClaim,
         EnterFatMount, LeaveFatMount, Filing, PickHandle, OpenHandle, HandleOpened, CatReads, CatDone,
         JournalLine, UseHandle, LineWritten, EnterMkdir, LeaveMkdir, FatFormatting, FatUnclaim,
         EnterFatUnmount, LeaveFatUnmount, EnterMkfs, LeaveMkfs, fatVars
<1>3. volume'.registered \in BOOLEAN
  <2>1. \/ volume' = volume \/ volume' = Found(volume) \/ volume' = [volume EXCEPT !.id = 0]
        \/ volume' = [volume EXCEPT !.registered = FALSE, !.id = 0, !.locks = << >>]
        \/ volume' = [volume EXCEPT !.registered = TRUE, !.id = 0, !.locks = << >>]
        \/ volume' = Found([volume EXCEPT !.registered = TRUE, !.id = 0, !.locks = << >>])
        \/ \E n, w : volume' = Locked(Found(volume), n, w)
    BY DEF FatNext, CatCommand, MkdirCommand, FormatCard, PressCentre, Given, FatMounting, FatClaim,
         EnterFatMount, LeaveFatMount, Filing, PickHandle, OpenHandle, HandleOpened, CatReads, CatDone,
         JournalLine, UseHandle, LineWritten, EnterMkdir, LeaveMkdir, FatFormatting, FatUnclaim,
         EnterFatUnmount, LeaveFatUnmount, EnterMkfs, LeaveMkfs, fatVars
  <2>2. IsVolume(volume) /\ volume.mounts \in Nat /\ volume.id \in {0, volume.mounts}
    BY DEF FatTypes, IsVolume
  <2>3. Found(volume).registered = volume.registered /\ IsVolume(Found(volume))
    BY <2>2, FoundVolume
  <2>4. ASSUME NEW r \in BOOLEAN, NEW v, v = [volume EXCEPT !.registered = r, !.id = 0, !.locks = << >>]
        PROVE  v.registered = r /\ Found(v).registered = r
    <3>1. IsVolume(v) /\ v.registered = r /\ v.mounts \in Nat /\ v.id \in {0, v.mounts}
      BY <2>2, <2>4 DEF IsVolume
    <3> QED
      BY <3>1, FoundVolume
  <2>5. ASSUME NEW n, NEW w PROVE Locked(Found(volume), n, w).registered = volume.registered
    BY <2>3, LockedVolume
  <2>6. [volume EXCEPT !.id = 0].registered = volume.registered
    BY <2>2 DEF IsVolume
  <2>7. volume'.registered \in {volume.registered, TRUE, FALSE}
    <3>1. CASE volume' = [volume EXCEPT !.registered = FALSE, !.id = 0, !.locks = << >>]
      BY <2>4, <3>1
    <3>2. CASE \/ volume' = [volume EXCEPT !.registered = TRUE, !.id = 0, !.locks = << >>]
               \/ volume' = Found([volume EXCEPT !.registered = TRUE, !.id = 0, !.locks = << >>])
      BY <2>4, <3>2
    <3>3. CASE \E n, w : volume' = Locked(Found(volume), n, w)
      BY <2>5, <3>3
    <3> QED
      BY <2>1, <2>3, <2>6, <3>1, <3>2, <3>3
  <2> QED
    BY <2>7
<1>4. past'.together \in BOOLEAN /\ past'.hasty \in BOOLEAN
  <2>1. past = [together |-> past.together, hasty |-> past.hasty, lines |-> past.lines]
    BY DEF FatTypes
  <2>2. CASE UNCHANGED past
    BY <2>2
  <2>3. ASSUME NEW b \in BOOLEAN, past' = [past EXCEPT !.together = b] PROVE past'.together = b /\ past'.hasty = past.hasty
    BY <2>1, <2>3
  <2>4. ASSUME NEW b \in BOOLEAN, past' = [past EXCEPT !.hasty = b] PROVE past'.hasty = b /\ past'.together = past.together
    BY <2>1, <2>4
  <2>5. CASE past' = [past EXCEPT !.lines = past.lines + 1]
    BY <2>1, <2>5
  <2>6. \/ UNCHANGED past \/ past' = [past EXCEPT !.lines = past.lines + 1]
        \/ \E b \in BOOLEAN : past' = [past EXCEPT !.together = b]
        \/ \E b \in BOOLEAN : past' = [past EXCEPT !.hasty = b]
    <3>1. \/ UNCHANGED past \/ past' = [past EXCEPT !.lines = past.lines + 1]
          \/ past' = [past EXCEPT !.hasty = past.hasty \/ ~Does("filesystem", "idle")]
          \/ \E t, pc : Call(t, pc)
      BY DEF FatNext, CatCommand, MkdirCommand, FormatCard, PressCentre, Given, FatMounting, FatClaim,
         EnterFatMount, LeaveFatMount, Filing, PickHandle, OpenHandle, HandleOpened, CatReads, CatDone,
         JournalLine, UseHandle, LineWritten, EnterMkdir, LeaveMkdir, FatFormatting, FatUnclaim,
         EnterFatUnmount, LeaveFatUnmount, EnterMkfs, LeaveMkfs, fatVars
    <3> QED
      BY <3>1 DEF Call
  <2> QED
    BY <2>2, <2>3, <2>4, <2>5, <2>6
<1> QED
  BY <1>1, <1>2, <1>3, <1>4

(* What a step does to the volume: nothing, it goes, it is mounted anew,   *)
(* or a file is opened on a volume kept or mounted anew.                   *)
Gone  == /\ IsVolume(volume') /\ volume'.id = 0 /\ volume'.mounts = volume.mounts
         /\ volume'.locks = volume.locks \/ DOMAIN volume'.locks = {}
Fresh == /\ IsVolume(volume') /\ volume'.id = volume.mounts + 1 /\ volume'.mounts = volume.mounts + 1
         /\ DOMAIN volume'.locks = {}

Took(t) ==
    LET name == task[t].name IN
    /\ IsVolume(volume') /\ volume'.id # 0
    /\ \/ /\ volume'.id = volume.id /\ volume'.mounts = volume.mounts
          /\ DOMAIN volume'.locks = DOMAIN volume.locks \cup {name}
          /\ name \in DOMAIN volume.locks => t # "sensor" /\ ~volume.locks[name]
          /\ \A n \in DOMAIN volume.locks \ {name} : volume'.locks[n] = volume.locks[n]
       \/ /\ volume'.id = volume.mounts + 1 /\ volume'.mounts = volume.mounts + 1
          /\ DOMAIN volume'.locks = {name}
    /\ volume'.locks[name] = (t = "sensor")
    /\ handles' = [handles EXCEPT ![task[t].handle] = [volume |-> volume'.id, name |-> name]]

LEMMA FoundStep ==
    ASSUME FatTypes, volume' \in {volume, Found(volume)} PROVE UNCHANGED volume \/ Fresh
<1>1. IsVolume(volume) /\ volume.mounts \in Nat /\ volume.id \in {0, volume.mounts}
  BY DEF FatTypes, IsVolume
<1> QED
  BY <1>1, FoundVolume DEF Fresh

LEMMA MountStep ==
    ASSUME FatTypes, NEW t, LeaveFatMount(t) PROVE Gone \/ Fresh
<1>a. PICK v : v = [volume EXCEPT !.registered = TRUE, !.id = 0, !.locks = << >>]
  OBVIOUS
<1>0. IsVolume(volume) /\ volume.mounts \in Nat
  BY DEF FatTypes, IsVolume
<1>1. /\ IsVolume(v) /\ v.mounts \in Nat /\ v.id = 0 /\ v.mounts = volume.mounts /\ DOMAIN v.locks = {}
      /\ v.id \in {0, v.mounts}
  <2>1. IsVolume(v) /\ v.id = 0 /\ v.mounts = volume.mounts /\ DOMAIN v.locks = {}
    BY <1>0, <1>a, EmptiedVolume
  <2> QED
    BY <1>0, <2>1
<1>2. volume' \in {v, Found(v)}
  BY <1>a DEF LeaveFatMount
<1>3. /\ IsVolume(Found(v))
      /\ \/ Found(v) = v
         \/ /\ Found(v).id = v.mounts + 1 /\ Found(v).mounts = v.mounts + 1 /\ DOMAIN Found(v).locks = {}
  BY <1>1, FoundVolume
<1> QED
  BY <1>1, <1>2, <1>3 DEF Gone, Fresh

LEMMA OpenedStep ==
    ASSUME FatTypes, NEW t \in {"shell", "sensor"}, HandleOpened(t)
    PROVE  \/ UNCHANGED <<volume, handles>>
           \/ Fresh /\ UNCHANGED handles
           \/ Took(t)
<1> DEFINE v == Found(volume)  name == task[t].name
<1>1. IsVolume(volume) /\ volume.mounts \in Nat /\ volume.id \in {0, volume.mounts}
  BY DEF FatTypes, IsVolume
<1>2. CASE volume' \in {volume, v} /\ UNCHANGED handles
  BY <1>2, FoundStep
<1>3. CASE /\ v.id # 0 /\ Lockable(v, name, t = "sensor") /\ volume' = Locked(v, name, t = "sensor")
           /\ handles' = [handles EXCEPT ![task[t].handle] = [volume |-> v.id, name |-> name]]
  <2>1. /\ IsVolume(v)
        /\ \/ v = volume
           \/ v.id = volume.mounts + 1 /\ v.mounts = volume.mounts + 1 /\ DOMAIN v.locks = {}
    BY <1>1, FoundVolume
  <2> HIDE DEF v
  <2>2. name \in DOMAIN v.locks => t # "sensor" /\ ~v.locks[name]
    BY <1>3 DEF Lockable
  <2>3. /\ IsVolume(volume') /\ volume'.id = v.id /\ volume'.mounts = v.mounts
        /\ DOMAIN volume'.locks = DOMAIN v.locks \cup {name}
        /\ \A n \in DOMAIN volume'.locks : volume'.locks[n] = IF n = name THEN t = "sensor" ELSE v.locks[n]
    BY <1>3, <2>1, LockedVolume
  <2>4. volume'.locks[name] = (t = "sensor")
    BY <2>3
  <2>5. \A n \in DOMAIN v.locks \ {name} : volume'.locks[n] = v.locks[n]
    BY <2>3
  <2>6. CASE v = volume
    BY <1>3, <2>2, <2>3, <2>4, <2>5, <2>6 DEF Took
  <2>7. CASE v.id = volume.mounts + 1 /\ v.mounts = volume.mounts + 1 /\ DOMAIN v.locks = {}
    BY <1>3, <2>3, <2>4, <2>7 DEF Took
  <2> QED
    BY <2>1, <2>6, <2>7
<1> QED
  BY <1>2, <1>3 DEF HandleOpened

LEMMA VolumeStep ==
    ASSUME FatTypes, [FatNext]_fatVars
    PROVE  \/ UNCHANGED <<volume, handles>>
           \/ (Gone \/ Fresh) /\ UNCHANGED handles
           \/ \E t \in {"shell", "sensor"} : HandleOpened(t) /\ Took(t)
<1>1. ASSUME NEW t, LeaveFatMount(t) PROVE (Gone \/ Fresh) /\ UNCHANGED handles
  BY <1>1, MountStep DEF LeaveFatMount
<1>2. ASSUME NEW t \in {"shell", "sensor"}, HandleOpened(t)
      PROVE  UNCHANGED <<volume, handles>> \/ (Fresh /\ UNCHANGED handles) \/ Took(t)
  BY <1>2, OpenedStep
<1>3. CASE LeaveMkdir("shell")
  BY <1>3, FoundStep DEF LeaveMkdir
<1>0. IsVolume(volume)
  BY DEF FatTypes, IsVolume
<1>4. CASE LeaveFatUnmount("shell")
  <2>1. IsVolume(volume') /\ volume'.id = 0 /\ volume'.mounts = volume.mounts /\ DOMAIN volume'.locks = {}
    BY <1>0, <1>4, EmptiedVolume DEF LeaveFatUnmount
  <2> QED
    BY <1>4, <2>1 DEF LeaveFatUnmount, Gone
<1>5. CASE LeaveMkfs("shell")
  BY <1>5 DEF LeaveMkfs, Gone, FatTypes, IsVolume
<1>6. \/ UNCHANGED <<volume, handles>> \/ (\E t : LeaveFatMount(t))
      \/ (\E t \in {"shell", "sensor"} : HandleOpened(t))
      \/ LeaveMkdir("shell") \/ LeaveFatUnmount("shell") \/ LeaveMkfs("shell")
  BY DEF FatNext, CatCommand, MkdirCommand, FormatCard, PressCentre, Given, FatMounting, FatClaim,
         EnterFatMount, Filing, PickHandle, OpenHandle, CatReads, CatDone,
         JournalLine, UseHandle, LineWritten, EnterMkdir, FatFormatting, FatUnclaim,
         EnterFatUnmount, EnterMkfs, fatVars
<1> QED
  BY <1>1, <1>2, <1>3, <1>4, <1>5, <1>6

LEMMA GoToType ==
    ASSUME task \in [FatUsers -> TaskStates], NEW t \in FatUsers, NEW pc \in FatPlaces, GoTo(t, pc)
    PROVE  task' \in [FatUsers -> TaskStates]
BY DEF GoTo, TaskStates

LEMMA FatNextTask ==
    ASSUME FatTypes, FatFlags, [FatNext]_fatVars
    PROVE  task' \in [FatUsers -> TaskStates]
<1> USE DEF FatUsers
<1>0. task \in [FatUsers -> TaskStates] /\ handles \in [1..FatHandles -> [volume : 0..volume.mounts, name : FatNames]]
  BY DEF FatTypes
<1>1. ASSUME NEW t \in FatUsers, NEW pc \in FatPlaces, NEW name \in FatNames, Given(t, pc, name)
      PROVE  task' \in [FatUsers -> TaskStates]
  <2>1. Asleep \in TaskStates /\ flag \in BOOLEAN
    BY AsleepType DEF FatFlags
  <2>2. [Asleep EXCEPT !.pc = pc, !.name = name, !.was = flag] \in TaskStates
    BY <2>1, AsleepType DEF TaskStates
  <2> QED
    BY <1>0, <1>1, <2>2 DEF Given
<1>2. ASSUME NEW t \in FatUsers, PickHandle(t)
      PROVE  task' \in [FatUsers -> TaskStates]
  <2>1. CASE FreeHandles = {}
    BY <1>0, <1>2, <2>1, GoToType DEF PickHandle, FatPlaces
  <2>2. CASE FreeHandles # {}
    <3> DEFINE g == CHOOSE h \in FreeHandles : \A g \in FreeHandles : h <= g
    <3>1. g \in 1..FatHandles
      <4>1. FreeHandles \subseteq 1..FatHandles
        BY <1>0 DEF FreeHandles
      <4>2. \E h \in FreeHandles : \A f \in FreeHandles : h <= f
        BY <4>1, <2>2, Least
      <4> QED
        BY <4>1, <4>2
    <3>2. task' = [task EXCEPT ![t].pc = "open", ![t].handle = g]
      BY <1>2, <2>2 DEF PickHandle
    <3> HIDE DEF g
    <3> QED
      BY <1>0, <3>1, <3>2 DEF TaskStates, FatPlaces
  <2> QED
    BY <2>1, <2>2
<1>3. Journal \in FatNames /\ FatNames \subseteq FatNames
  BY DEF FatNames
<1>4. CASE \/ UNCHANGED task \/ \E t \in FatUsers, pc \in FatPlaces : GoTo(t, pc)
  BY <1>0, <1>4, GoToType
<1>5. \/ UNCHANGED task
      \/ \E t \in FatUsers, pc \in FatPlaces : GoTo(t, pc)
      \/ \E t \in FatUsers : PickHandle(t)
      \/ \E t \in FatUsers, pc \in FatPlaces, name \in FatNames : Given(t, pc, name)
  <2>1. CASE UNCHANGED fatVars
    BY <2>1 DEF fatVars
  <2>2. CASE CatCommand
    BY <2>2 DEF CatCommand, FatPlaces
  <2>3. CASE MkdirCommand
    BY <2>3, <1>3 DEF MkdirCommand, FatPlaces
  <2>4. CASE FormatCard
    BY <2>4, <1>3 DEF FormatCard, FatPlaces
  <2>5. CASE PressCentre
    BY <2>5, <1>3 DEF PressCentre, FatPlaces
  <2>6. ASSUME NEW t \in FatUsers, FatMounting(t) PROVE \E pc \in FatPlaces : GoTo(t, pc)
    BY <2>6 DEF FatMounting, FatClaim, EnterFatMount, LeaveFatMount, Call, FatPlaces, InLibrary
  <2>7. ASSUME NEW t \in FatUsers, Filing(t) PROVE PickHandle(t) \/ \E pc \in FatPlaces : GoTo(t, pc)
    BY <2>7 DEF Filing, OpenHandle, HandleOpened, Use, Call, FatPlaces, InLibrary
  <2>8. CASE CatReads("shell") \/ CatDone("shell")
    BY <2>8 DEF CatReads, CatDone, UseHandle, Call, FatPlaces, InLibrary
  <2>9. CASE JournalLine("sensor") \/ LineWritten("sensor")
    BY <2>9 DEF JournalLine, LineWritten, UseHandle, Unwritten, Call, FatPlaces, InLibrary
  <2>10. CASE EnterMkdir("shell") \/ LeaveMkdir("shell")
    BY <2>10 DEF EnterMkdir, LeaveMkdir, Call, FatPlaces, InLibrary
  <2>11. CASE FatFormatting("shell")
    BY <2>11 DEF FatFormatting, FatUnclaim, EnterFatUnmount, LeaveFatUnmount, EnterMkfs, LeaveMkfs,
                 Call, FatPlaces, InLibrary
  <2> QED
    BY <2>1, <2>2, <2>3, <2>4, <2>5, <2>6, <2>7, <2>8, <2>9, <2>10, <2>11 DEF FatNext
<1> QED
  BY <1>1, <1>2, <1>4, <1>5

(* The handles stay files of mounts there have been. *)
LEMMA FatNextVolume ==
    ASSUME FatTypes, [FatNext]_fatVars
    PROVE  /\ IsVolume(volume') /\ volume'.mounts \in Nat /\ volume'.id \in {0, volume'.mounts}
           /\ volume'.mounts >= volume.mounts
           /\ DOMAIN volume'.locks \subseteq FatNames
           /\ handles' \in [1..FatHandles -> [volume : 0..volume'.mounts, name : FatNames]]
<1>1. /\ IsVolume(volume) /\ volume.mounts \in Nat /\ volume.id \in {0, volume.mounts}
      /\ DOMAIN volume.locks \subseteq FatNames
      /\ handles \in [1..FatHandles -> [volume : 0..volume.mounts, name : FatNames]]
      /\ task \in [FatUsers -> TaskStates]
  BY DEF FatTypes, IsVolume
<1>2. CASE UNCHANGED <<volume, handles>>
  BY <1>1, <1>2
<1>3. CASE Gone /\ UNCHANGED handles
  BY <1>1, <1>3 DEF Gone
<1>4. CASE Fresh /\ UNCHANGED handles
  <2>1. handles \in [1..FatHandles -> [volume : 0..volume.mounts + 1, name : FatNames]]
    BY <1>1
  <2> QED
    BY <1>1, <1>4, <2>1 DEF Fresh
<1>5. ASSUME NEW t \in {"shell", "sensor"}, Took(t)
      PROVE  /\ IsVolume(volume') /\ volume'.mounts \in Nat /\ volume'.id \in {0, volume'.mounts}
             /\ volume'.mounts >= volume.mounts
             /\ DOMAIN volume'.locks \subseteq FatNames
             /\ handles' \in [1..FatHandles -> [volume : 0..volume'.mounts, name : FatNames]]
  <2>1. task[t].name \in FatNames /\ task[t].handle \in 1..FatHandles
    BY <1>1 DEF TaskStates, FatUsers
  <2>2. /\ IsVolume(volume') /\ volume'.mounts \in Nat /\ volume'.id = volume'.mounts
        /\ volume'.mounts >= volume.mounts
    BY <1>1, <1>5 DEF Took
  <2>3. DOMAIN volume'.locks \subseteq FatNames
    BY <1>1, <1>5, <2>1 DEF Took
  <2>4. handles' = [handles EXCEPT ![task[t].handle] = [volume |-> volume'.id, name |-> task[t].name]]
    BY <1>5 DEF Took
  <2>5. handles \in [1..FatHandles -> [volume : 0..volume'.mounts, name : FatNames]]
    BY <1>1, <2>2
  <2>6. volume'.id \in 0..volume'.mounts
    BY <2>2
  <2>7. [volume |-> volume'.id, name |-> task[t].name] \in [volume : 0..volume'.mounts, name : FatNames]
    BY <2>1, <2>6
  <2> QED
    BY <2>1, <2>2, <2>3, <2>4, <2>5, <2>7
<1> QED
  BY <1>2, <1>3, <1>4, <1>5, VolumeStep

(* A line is taken for an order at most. *)
LEMMA FatNextPast ==
    ASSUME FatTypes, [FatNext]_fatVars
    PROVE  /\ past' = [together |-> past'.together, hasty |-> past'.hasty, lines |-> past'.lines]
           /\ \/ past'.lines = past.lines
              \/ LineWritten("sensor") /\ past'.lines = past.lines + 1
<1>1. past = [together |-> past.together, hasty |-> past.hasty, lines |-> past.lines]
  BY DEF FatTypes
<1>2. CASE UNCHANGED past
  BY <1>1, <1>2
<1>3. ASSUME NEW b, past' = [past EXCEPT !.together = b]
      PROVE  past' = [together |-> b, hasty |-> past.hasty, lines |-> past.lines]
  BY <1>1, <1>3
<1>4. ASSUME NEW b, past' = [past EXCEPT !.hasty = b]
      PROVE  past' = [together |-> past.together, hasty |-> b, lines |-> past.lines]
  BY <1>1, <1>4
<1>5. ASSUME past' = [past EXCEPT !.lines = past.lines + 1]
      PROVE  past' = [together |-> past.together, hasty |-> past.hasty, lines |-> past.lines + 1]
  BY <1>1, <1>5
<1>6. \/ UNCHANGED past
      \/ LineWritten("sensor") /\ past' = [past EXCEPT !.lines = past.lines + 1]
      \/ past' = [past EXCEPT !.hasty = past.hasty \/ ~Does("filesystem", "idle")]
      \/ \E t, pc : Call(t, pc)
  BY DEF FatNext, CatCommand, MkdirCommand, FormatCard, PressCentre, Given, FatMounting, FatClaim,
         EnterFatMount, LeaveFatMount, Filing, PickHandle, OpenHandle, HandleOpened, CatReads, CatDone,
         JournalLine, UseHandle, LineWritten, EnterMkdir, LeaveMkdir, FatFormatting, FatUnclaim,
         EnterFatUnmount, LeaveFatUnmount, EnterMkfs, LeaveMkfs, fatVars
<1>7. CASE \E t, pc : Call(t, pc)
  <2>1. PICK b : past' = [past EXCEPT !.together = b]
    BY <1>7 DEF Call
  <2> QED
    BY <1>3, <2>1
<1>8. CASE past' = [past EXCEPT !.hasty = past.hasty \/ ~Does("filesystem", "idle")]
  <2>1. PICK b : past' = [past EXCEPT !.hasty = b]
    BY <1>8
  <2> QED
    BY <1>4, <2>1
<1> QED
  BY <1>2, <1>5, <1>6, <1>7, <1>8

LEMMA FatNextOrders ==
    ASSUME [FatNext]_fatVars
    PROVE  orders' = orders \/ (orders < MaxOrders /\ orders' = orders + 1)
<1>1. UNCHANGED orders \/ \E t, pc, name : Given(t, pc, name)
  <2>1. CASE CatCommand
    BY <2>1 DEF CatCommand
  <2>2. CASE MkdirCommand
    BY <2>2 DEF MkdirCommand
  <2>3. CASE FormatCard
    BY <2>3 DEF FormatCard
  <2>4. CASE PressCentre
    BY <2>4 DEF PressCentre
  <2>5. CatCommand \/ MkdirCommand \/ FormatCard \/ PressCentre \/ UNCHANGED orders
    BY DEF FatNext, FatMounting, FatClaim,
       EnterFatMount, LeaveFatMount, Filing, PickHandle, OpenHandle, HandleOpened, CatReads, CatDone,
       JournalLine, UseHandle, LineWritten, EnterMkdir, LeaveMkdir, FatFormatting, FatUnclaim,
       EnterFatUnmount, LeaveFatUnmount, EnterMkfs, LeaveMkfs, fatVars
  <2> QED
    BY <2>1, <2>2, <2>3, <2>4, <2>5
<1> QED
  BY <1>1 DEF Given

LEMMA FatNextTypes ==
    ASSUME FatTypes, FatFlags, [FatNext]_fatVars PROVE FatTypes'
<1>1. names' \subseteq FatNames
  <2>1. names \subseteq FatNames /\ \A t \in FatUsers : task[t].name \in FatNames
    BY DEF FatTypes, TaskStates
  <2>2. \/ UNCHANGED names \/ names' = {} \/ \E t \in FatUsers : names' = names \cup {task[t].name}
    BY DEF FatNext, CatCommand, MkdirCommand, FormatCard, PressCentre, Given, FatMounting, FatClaim,
         EnterFatMount, LeaveFatMount, Filing, PickHandle, OpenHandle, HandleOpened, CatReads, CatDone,
         JournalLine, UseHandle, LineWritten, EnterMkdir, LeaveMkdir, FatFormatting, FatUnclaim,
         EnterFatUnmount, LeaveFatUnmount, EnterMkfs, LeaveMkfs, fatVars, FatUsers
  <2> QED
    BY <2>1, <2>2
<1>2. orders' \in 0..MaxOrders
  BY FatNextOrders, FatFsAssumption DEF FatTypes
<1>3. past.lines \in Nat
  BY DEF FatTypes
<1>4. past'.lines \in Nat
  BY <1>3, FatNextPast
<1> QED
  BY <1>1, <1>2, <1>4, FatNextPast, FatNextVolume, FatNextTask DEF FatTypes, IsVolume

(* The program counters of the tasks change as these say. *)
LEMMA Went ==
    ASSUME task \in [FatUsers -> TaskStates], NEW t \in FatUsers, NEW pc, GoTo(t, pc)
    PROVE  /\ task'[t].pc = pc /\ task'[t].name = task[t].name /\ task'[t].handle = task[t].handle
           /\ \A u \in FatUsers \ {t} : task'[u] = task[u]
BY DEF GoTo, TaskStates

LEMMA WasGiven ==
    ASSUME task \in [FatUsers -> TaskStates], NEW t \in FatUsers, NEW pc, NEW name, Given(t, pc, name)
    PROVE  /\ task'[t].pc = pc /\ task'[t].name = name /\ task'[t].handle = 1
           /\ \A u \in FatUsers \ {t} : task'[u] = task[u]
BY DEF Given, Asleep

LEMMA Picked ==
    ASSUME task \in [FatUsers -> TaskStates], DOMAIN handles = 1..FatHandles,
           NEW t \in FatUsers, PickHandle(t)
    PROVE  /\ task'[t].name = task[t].name
           /\ \/ task'[t].pc = IF t = "sensor" THEN "crashed" ELSE "idle"
              \/ task'[t].pc = "open" /\ handles[task'[t].handle] = NoFile /\ task'[t].handle \in 1..FatHandles
           /\ \A u \in FatUsers \ {t} : task'[u] = task[u]
<1>1. CASE FreeHandles = {}
  <2>1. GoTo(t, IF t = "sensor" THEN "crashed" ELSE "idle")
    BY <1>1 DEF PickHandle
  <2> QED
    BY <2>1, Went
<1>2. CASE FreeHandles # {}
  <2>1. PICK h : /\ task' = [task EXCEPT ![t].pc = "open", ![t].handle = h]
                 /\ h = CHOOSE g \in FreeHandles : \A f \in FreeHandles : g <= f
    BY <1>2 DEF PickHandle
  <2>2. h \in FreeHandles
    <3>1. FreeHandles \subseteq 1..FatHandles
      BY DEF FreeHandles
    <3>2. \E g \in FreeHandles : \A f \in FreeHandles : g <= f
      BY <3>1, <1>2, Least
    <3> QED
      BY <2>1, <3>2
  <2>3. h \in 1..FatHandles /\ handles[h] = NoFile
    BY <2>2 DEF FreeHandles
  <2>4. /\ task'[t].pc = "open" /\ task'[t].handle = h /\ task'[t].name = task[t].name
        /\ \A u \in FatUsers \ {t} : task'[u] = task[u]
    BY <2>1 DEF TaskStates
  <2> QED
    BY <2>3, <2>4
<1> QED
  BY <1>1, <1>2

LEMMA TaskMoves ==
    ASSUME FatTypes, TaskInv, [FatNext]_fatVars
    PROVE  TaskInv'
<1>0. task \in [FatUsers -> TaskStates] /\ DOMAIN handles = 1..FatHandles
  BY DEF FatTypes
<1>u. {"filesystem", "shell", "sensor"} \subseteq FatUsers
  BY DEF FatUsers
<1> USE DEF TaskInv
<1>1. CASE UNCHANGED task
  BY <1>1
<1>2. ASSUME NEW pc \in {"scan", "f_mkdir", "idle", "unmount", "f_mkfs"}, NEW name, Given("shell", pc, name)
      PROVE  TaskInv'
  BY <1>2, <1>0, <1>u, WasGiven
<1>3. CASE PressCentre
  BY <1>3, <1>0, <1>u, WasGiven DEF PressCentre
<1>4. ASSUME NEW t \in {"filesystem", "shell"}, FatMounting(t) PROVE TaskInv'
  <2>1. PICK pc \in {"idle", "f_mount", "mounting"} : GoTo(t, pc)
    BY <1>4 DEF FatMounting, FatClaim, EnterFatMount, LeaveFatMount, Call
  <2> QED
    BY <2>1, <1>0, <1>u, Went
<1>5. ASSUME NEW t \in {"shell", "sensor"}, PickHandle(t) PROVE TaskInv'
  BY <1>5, <1>0, <1>u, Picked
<1>6. ASSUME NEW t \in {"shell", "sensor"}, OpenHandle(t) \/ HandleOpened(t) PROVE TaskInv'
  <2>1. GoTo(t, "opening") \/ GoTo(t, Use(t))
    BY <1>6 DEF OpenHandle, HandleOpened, Call
  <2> QED
    BY <2>1, <1>0, <1>u, Went DEF Use
<1>7. CASE CatReads("shell") \/ CatDone("shell") \/ EnterMkdir("shell") \/ LeaveMkdir("shell") \/ FatFormatting("shell")
  <2>1. PICK pc \in {"idle", "reading", "making", "f_unmount", "f_mkfs", "unmounting", "formatting", "claim"} : GoTo("shell", pc)
    BY <1>7 DEF CatReads, CatDone, UseHandle, EnterMkdir, LeaveMkdir, FatFormatting, FatUnclaim, EnterFatUnmount,
                LeaveFatUnmount, EnterMkfs, LeaveMkfs, Call
  <2> QED
    BY <2>1, <1>0, <1>u, Went
<1>8. CASE JournalLine("sensor") \/ LineWritten("sensor")
  <2>1. PICK pc \in {"idle", "writing", "stopped"} : GoTo("sensor", pc)
    BY <1>8 DEF JournalLine, LineWritten, UseHandle, Unwritten, Call
  <2> QED
    BY <2>1, <1>0, <1>u, Went
<1>9. CatCommand \/ MkdirCommand \/ FormatCard =>
      \E pc \in {"scan", "f_mkdir", "idle", "unmount", "f_mkfs"} : \E name : Given("shell", pc, name)
  BY DEF CatCommand, MkdirCommand, FormatCard
<1> QED
  BY <1>1, <1>2, <1>3, <1>4, <1>5, <1>6, <1>7, <1>8, <1>9 DEF FatNext, Filing, fatVars

(* What the sensor task does. *)
LEMMA SensorMoves ==
    ASSUME FatTypes, [FatNext]_fatVars
    PROVE  \/ task'["sensor"] = task["sensor"]
           \/ PressCentre /\ task["sensor"].pc = "idle" /\ task'["sensor"].pc = "scan"
           \/ PickHandle("sensor") /\ task["sensor"].pc = "scan"
                  /\ task'["sensor"].pc \in {"crashed", "open"} /\ UNCHANGED <<orders, past, volume, handles>>
           \/ /\ OpenHandle("sensor") /\ task["sensor"].pc = "open"
              /\ task'["sensor"].handle = task["sensor"].handle
              /\ UNCHANGED <<orders, volume, handles>>
              /\ \/ task'["sensor"].pc = "opening" /\ handles[task["sensor"].handle] = NoFile
                 \/ task'["sensor"].pc = "write" /\ handles[task["sensor"].handle] # NoFile /\ UNCHANGED past
           \/ /\ HandleOpened("sensor") /\ task["sensor"].pc = "opening" /\ task'["sensor"].pc = "write"
              /\ task'["sensor"].handle = task["sensor"].handle /\ UNCHANGED <<orders, past>>
           \/ JournalLine("sensor") /\ task["sensor"].pc = "write" /\ task'["sensor"].pc \in {"idle", "writing", "stopped"}
                  /\ task'["sensor"].handle = task["sensor"].handle /\ UNCHANGED <<orders, volume, handles>>
           \/ LineWritten("sensor") /\ task["sensor"].pc = "writing" /\ task'["sensor"].pc \in {"idle", "stopped"}
                  /\ UNCHANGED <<orders, volume, handles>>
<1>0. task \in [FatUsers -> TaskStates] /\ DOMAIN handles = 1..FatHandles
  BY DEF FatTypes
<1>u. "sensor" \in FatUsers /\ "shell" \in FatUsers /\ "filesystem" \in FatUsers
  BY DEF FatUsers
<1>1. CASE UNCHANGED task
  BY <1>1
<1>2. ASSUME NEW pc, NEW name, Given("shell", pc, name)
      PROVE  task'["sensor"] = task["sensor"]
  BY <1>2, <1>0, <1>u, WasGiven
<1>3. CASE PressCentre
  BY <1>3, <1>0, <1>u, WasGiven DEF PressCentre, Given, Does
<1>4. ASSUME NEW t \in {"filesystem", "shell"}, NEW pc, GoTo(t, pc) PROVE task'["sensor"] = task["sensor"]
  BY <1>4, <1>0, <1>u, Went
<1>5. CASE PickHandle("sensor")
  BY <1>5, <1>0, <1>u, Picked DEF PickHandle, Does
<1>6. CASE PickHandle("shell")
  BY <1>6, <1>0, <1>u, Picked
<1>7. CASE OpenHandle("sensor")
  <2>1. CASE handles[task["sensor"].handle] = NoFile
    <3>1. GoTo("sensor", "opening")
      BY <1>7, <2>1 DEF OpenHandle, Call
    <3> QED
      BY <1>0, <1>u, <1>7, <2>1, <3>1, Went DEF OpenHandle, Does
  <2>2. CASE handles[task["sensor"].handle] # NoFile
    <3>1. GoTo("sensor", "write") /\ UNCHANGED past
      BY <1>7, <2>2 DEF OpenHandle, Use
    <3> QED
      BY <1>0, <1>u, <1>7, <2>2, <3>1, Went DEF OpenHandle, Does
  <2> QED
    BY <2>1, <2>2
<1>8. CASE HandleOpened("sensor")
  <2>1. GoTo("sensor", "write") /\ task["sensor"].pc = "opening" /\ UNCHANGED <<orders, past>>
    BY <1>8 DEF HandleOpened, Use, Does
  <2> QED
    BY <1>0, <1>u, <1>8, <2>1, Went
<1>9. CASE JournalLine("sensor")
  <2>1. PICK pc \in {"idle", "writing", "stopped"} : GoTo("sensor", pc)
    BY <1>9 DEF JournalLine, UseHandle, Unwritten, Call
  <2> QED
    BY <1>0, <1>u, <1>9, <2>1, Went DEF JournalLine, UseHandle, Does
<1>10. CASE LineWritten("sensor")
  <2>1. /\ task["sensor"].pc = "writing" /\ UNCHANGED <<orders, volume, handles>>
        /\ \E pc \in {"idle", "stopped"} : GoTo("sensor", pc)
    BY <1>10 DEF LineWritten, Unwritten, Does
  <2> QED
    BY <1>0, <1>u, <1>10, <2>1, Went
<1>11. CASE CatReads("shell") \/ CatDone("shell") \/ EnterMkdir("shell") \/ LeaveMkdir("shell") \/ FatFormatting("shell")
  <2>1. PICK pc : GoTo("shell", pc)
    BY <1>11 DEF CatReads, CatDone, UseHandle, EnterMkdir, LeaveMkdir, FatFormatting, FatUnclaim, EnterFatUnmount,
                LeaveFatUnmount, EnterMkfs, LeaveMkfs, Call
  <2> QED
    BY <2>1, <1>4
<1>12. ASSUME NEW t \in {"filesystem", "shell"}, FatMounting(t) PROVE \E pc : GoTo(t, pc)
  BY <1>12 DEF FatMounting, FatClaim, EnterFatMount, LeaveFatMount, Call
<1>13. CASE OpenHandle("shell") \/ HandleOpened("shell")
  <2>1. PICK pc : GoTo("shell", pc)
    BY <1>13 DEF OpenHandle, HandleOpened, Call
  <2> QED
    BY <2>1, <1>4
<1>14. CatCommand \/ MkdirCommand \/ FormatCard => \E pc, name : Given("shell", pc, name)
  BY DEF CatCommand, MkdirCommand, FormatCard
<1>15. \/ UNCHANGED task
       \/ PressCentre \/ CatCommand \/ MkdirCommand \/ FormatCard
       \/ \E t \in {"filesystem", "shell"} : FatMounting(t)
       \/ PickHandle("sensor") \/ OpenHandle("sensor") \/ HandleOpened("sensor")
       \/ JournalLine("sensor") \/ LineWritten("sensor")
       \/ PickHandle("shell") \/ OpenHandle("shell") \/ HandleOpened("shell")
       \/ CatReads("shell") \/ CatDone("shell") \/ EnterMkdir("shell") \/ LeaveMkdir("shell")
       \/ FatFormatting("shell")
  BY DEF FatNext, Filing, fatVars
<1>16. CASE CatCommand \/ MkdirCommand \/ FormatCard
  BY <1>2, <1>14, <1>16
<1>17. CASE \E t \in {"filesystem", "shell"} : FatMounting(t)
  BY <1>4, <1>12, <1>17
<1> QED
  BY <1>1, <1>3, <1>5, <1>6, <1>7, <1>8, <1>9, <1>10, <1>11, <1>13, <1>15, <1>16, <1>17

LEMMA OrdersStep ==
    ASSUME FatTypes, OrdersInv, [FatNext]_fatVars
    PROVE  OrdersInv'
<1>1. orders \in Nat /\ past.lines \in Nat /\ past'.lines \in Nat
  BY FatNextPast DEF FatTypes
<1>2. CASE LineWritten("sensor")
  <2>1. orders' = orders /\ Writing
    BY <1>2 DEF LineWritten, Does, Writing
  <2>2. ~Writing'
    <3>1. /\ task \in [FatUsers -> TaskStates] /\ "sensor" \in FatUsers
          /\ \E pc \in {"idle", "stopped"} : GoTo("sensor", pc)
      BY <1>2 DEF FatTypes, FatUsers, LineWritten, Unwritten
    <3> QED
      BY <3>1, Went DEF Writing
  <2>3. past'.lines <= past.lines + 1
    BY <1>1, FatNextPast
  <2> QED
    BY <1>1, <2>1, <2>2, <2>3 DEF OrdersInv
<1>3. CASE ~LineWritten("sensor")
  <2>1. past'.lines = past.lines
    BY <1>3, FatNextPast
  <2>2. orders' = orders \/ orders' = orders + 1
    BY FatNextOrders
  <2>3. orders' = orders => (Writing' => Writing)
    <3>1. CASE PressCentre
      BY <1>1, <3>1 DEF PressCentre, Given
    <3>2. CASE ~PressCentre
      BY <1>3, <3>2, SensorMoves DEF Writing
    <3> QED
      BY <3>1, <3>2
  <2> QED
    BY <1>1, <2>1, <2>2, <2>3 DEF OrdersInv
<1> QED
  BY <1>2, <1>3

(* Once two tasks are in the library nothing moves. *)
LEMMA TogetherStays ==
    ASSUME [FatNext]_fatVars, ~past'.together PROVE ~past.together
<1>1. UNCHANGED past \/ ~past.together
  BY DEF FatNext, CatCommand, MkdirCommand, FormatCard, PressCentre, Given, fatVars
<1> QED
  BY <1>1

(* A volume that is mounted stays so when the library looks for it. *)
LEMMA StaysMounted ==
    ASSUME FatTypes, volume.id # 0, NEW n, NEW w,
           volume' \in {volume, Found(volume), Locked(Found(volume), n, w)}
    PROVE  volume'.id = volume.id /\ volume'.registered = volume.registered
<1>1. Found(volume) = volume
  BY DEF Found
<1>2. IsVolume(volume)
  BY DEF FatTypes, IsVolume
<1> QED
  BY <1>1, <1>2, LockedVolume

(* What mount() leaves when it ends. *)
LEMMA LeftMounted ==
    ASSUME FatTypes, NEW t, LeaveFatMount(t)
    PROVE  volume'.registered /\ (flag' => volume'.id # 0)
<1>1. PICK v : v = [volume EXCEPT !.registered = TRUE, !.id = 0, !.locks = << >>]
  OBVIOUS
<1>2. IsVolume(volume) /\ volume.mounts \in Nat
  BY DEF FatTypes, IsVolume
<1>3. IsVolume(v) /\ v.id = 0 /\ v.mounts = volume.mounts
  BY <1>1, <1>2, EmptiedVolume
<1>4. v.registered = TRUE
  BY <1>1, <1>2, EmptiedVolume
<1>5. Found(v).registered = v.registered
  BY <1>2, <1>3, FoundVolume
<1>6. volume' \in {v, Found(v)}
  BY <1>1 DEF LeaveFatMount
<1>7. volume'.registered
  BY <1>4, <1>5, <1>6
<1>8. flag' => volume'.id # 0
  BY DEF LeaveFatMount
<1> QED
  BY <1>7, <1>8

Sound == volume.registered /\ volume.id # 0

Behind ==
    /\ task["filesystem"].pc # "idle" => task["shell"].pc = "idle" /\ task["sensor"].pc = "idle"
    /\ task["filesystem"].pc = "claim" => ~flag
    /\ task["shell"].pc \in {"f_unmount", "unmounting", "f_mkfs", "formatting", "claim"} => ~flag
    /\ task["filesystem"].pc = "idle" /\ flag /\ task["shell"].pc \notin {"f_mount", "mounting"} => Sound

LEMMA BehindStep ==
    ASSUME FatTypes, FatFlags, TaskInv, BehindInv, [FatNext]_fatVars
    PROVE  BehindInv'
<1> SUFFICES ASSUME ~past'.together, ~past'.hasty PROVE Behind'
  BY DEF BehindInv, Behind, Does, Sound
<1>t. task \in [FatUsers -> TaskStates] /\ DOMAIN handles = 1..FatHandles
  BY DEF FatTypes
<1>u. "sensor" \in FatUsers /\ "shell" \in FatUsers /\ "filesystem" \in FatUsers
  BY DEF FatUsers
<1>h. /\ ~past.hasty
      /\ \A t, pc, name : Given(t, pc, name) => task["filesystem"].pc = "idle"
  <2>1. past = [together |-> past.together, hasty |-> past.hasty, lines |-> past.lines]
    BY DEF FatTypes
  <2>2. ASSUME NEW b, past' = [past EXCEPT !.hasty = b] PROVE ~b
    BY <2>1, <2>2
  <2>3. ASSUME NEW b, past' = [past EXCEPT !.together = b] PROVE past'.hasty = past.hasty
    BY <2>1, <2>3
  <2>4. past' = [past EXCEPT !.lines = past.lines + 1] => past'.hasty = past.hasty
    BY <2>1
  <2>5. ASSUME NEW t, NEW pc, NEW name, Given(t, pc, name)
        PROVE  ~past.hasty /\ task["filesystem"].pc = "idle"
    <3>1. PICK b : past' = [past EXCEPT !.hasty = b] /\ b = (past.hasty \/ ~Does("filesystem", "idle"))
      BY <2>5 DEF Given
    <3> QED
      BY <3>1, <2>2 DEF Does
  <2>6. \/ UNCHANGED past \/ past' = [past EXCEPT !.lines = past.lines + 1]
        \/ (\E t, pc, name : Given(t, pc, name)) \/ \E t, pc : Call(t, pc)
    <3>1. CASE CatCommand
      BY <3>1 DEF CatCommand
    <3>2. CASE MkdirCommand
      BY <3>2 DEF MkdirCommand
    <3>3. CASE FormatCard
      BY <3>3 DEF FormatCard
    <3>4. CASE PressCentre
      BY <3>4 DEF PressCentre
    <3>5. \/ CatCommand \/ MkdirCommand \/ FormatCard \/ PressCentre
          \/ UNCHANGED past \/ past' = [past EXCEPT !.lines = past.lines + 1] \/ \E t, pc : Call(t, pc)
      BY DEF FatNext, FatMounting, FatClaim, EnterFatMount, LeaveFatMount, Filing, PickHandle, OpenHandle,
             HandleOpened, CatReads, CatDone, JournalLine, UseHandle, LineWritten, EnterMkdir, LeaveMkdir,
             FatFormatting, FatUnclaim, EnterFatUnmount, LeaveFatUnmount, EnterMkfs, LeaveMkfs, fatVars
    <3> QED
      BY <3>1, <3>2, <3>3, <3>4, <3>5
  <2>7. CASE \E t, pc : Call(t, pc)
    <3>1. PICK b : past' = [past EXCEPT !.together = b]
      BY <2>7 DEF Call
    <3> QED
      BY <2>3, <2>5, <3>1
  <2> QED
    BY <2>4, <2>5, <2>6, <2>7
<1>0. Behind
  BY <1>h, TogetherStays DEF BehindInv, Behind, Does, Sound
<1>1. ASSUME UNCHANGED <<flag, volume>>, task'["filesystem"] = task["filesystem"],
             task["filesystem"].pc = "idle",
             task'["shell"].pc \in {"f_unmount", "unmounting", "f_mkfs", "formatting", "claim"} =>
                 task["shell"].pc \in {"f_unmount", "unmounting", "f_mkfs", "formatting", "claim"} \/ ~flag,
             task["shell"].pc \in {"f_mount", "mounting"} => task'["shell"].pc \in {"f_mount", "mounting"}
      PROVE  Behind'
  BY <1>0, <1>1 DEF Behind, Sound
<1>2. ASSUME NEW t \in {"shell", "sensor"}, NEW pc \in {"scan", "f_mkdir", "idle", "unmount", "f_mkfs"}, NEW name,
             Given(t, pc, name), t = "shell" /\ pc = "f_mkfs" => ~flag
      PROVE  Behind'
  <2>1. /\ UNCHANGED <<flag, volume>> /\ task["filesystem"].pc = "idle"
        /\ task[t].pc = "idle"
    BY <1>2, <1>h DEF Given, Does
  <2>2. task'[t].pc = pc /\ \A u \in FatUsers \ {t} : task'[u] = task[u]
    BY <1>2, <1>t, <1>u, WasGiven
  <2> QED
    BY <1>1, <1>2, <1>u, <2>1, <2>2
<1>3. CASE CatCommand \/ MkdirCommand \/ FormatCard \/ PressCentre
  <2>1. CASE CatCommand
    BY <2>1, <1>2 DEF CatCommand
  <2>2. CASE MkdirCommand
    BY <2>2, <1>2 DEF MkdirCommand
  <2>3. CASE FormatCard
    BY <2>3, <1>2 DEF FormatCard
  <2>4. CASE PressCentre
    BY <2>4, <1>2 DEF PressCentre
  <2> QED
    BY <1>3, <2>1, <2>2, <2>3, <2>4
<1>4. ASSUME NEW t \in {"filesystem", "shell"}, FatClaim(t) PROVE Behind'
  <2>1. task[t].pc = "claim" /\ ~flag
    BY <1>0, <1>4 DEF FatClaim, Does, Behind
  <2>2. GoTo(t, "f_mount")
    BY <1>4, <2>1 DEF FatClaim
  <2>3. task'[t].pc = "f_mount" /\ \A u \in FatUsers \ {t} : task'[u] = task[u]
    BY <1>t, <1>u, <2>2, Went
  <2> QED
    BY <1>0, <1>u, <2>1, <2>3 DEF Behind
<1>5. ASSUME NEW t \in {"filesystem", "shell"}, EnterFatMount(t) PROVE Behind'
  <2>1. task[t].pc = "f_mount" /\ GoTo(t, "mounting") /\ UNCHANGED <<flag, volume>>
    BY <1>5 DEF EnterFatMount, Does, Call
  <2>3. task'[t].pc = "mounting" /\ \A u \in FatUsers \ {t} : task'[u] = task[u]
    BY <1>t, <1>u, <2>1, Went
  <2> QED
    BY <1>0, <1>u, <2>1, <2>3 DEF Behind, Sound
<1>6. ASSUME NEW t \in {"filesystem", "shell"}, LeaveFatMount(t) PROVE Behind'
  <2>1. task[t].pc = "mounting" /\ GoTo(t, "idle")
    BY <1>6 DEF LeaveFatMount, Does
  <2>2. flag' => Sound'
    BY <1>6, LeftMounted DEF Sound
  <2>3. task'[t].pc = "idle" /\ \A u \in FatUsers \ {t} : task'[u] = task[u]
    BY <1>t, <1>u, <2>1, Went
  <2>4. flag' => flag
    BY <1>6 DEF LeaveFatMount
  <2> QED
    BY <1>0, <1>u, <2>1, <2>2, <2>3, <2>4 DEF Behind
<1>7. ASSUME NEW t \in {"shell", "sensor"}, NEW n, NEW w, UNCHANGED flag,
             volume' \in {volume, Found(volume), Locked(Found(volume), n, w)},
             \A u \in FatUsers \ {t} : task'[u] = task[u],
             task[t].pc \notin {"idle", "f_mount", "mounting"},
             task'[t].pc \in {"idle", "open", "opening", "read", "write", "crashed", "stopped", "reading",
                              "writing", "making"}
      PROVE  Behind'
  <2>1. task["filesystem"].pc = "idle" /\ task'["filesystem"].pc = "idle"
    BY <1>0, <1>7, <1>u DEF Behind
  <2>2. task'["shell"].pc \in {"f_unmount", "unmounting", "f_mkfs", "formatting", "claim"} => ~flag'
    BY <1>0, <1>7, <1>u DEF Behind
  <2>3. Sound => Sound'
    <3>1. volume.id # 0 => volume'.id = volume.id /\ volume'.registered = volume.registered
      BY <1>7, StaysMounted
    <3> QED
      BY <3>1, Zenon DEF Sound
  <2>4. flag' /\ task'["shell"].pc \notin {"f_mount", "mounting"} => Sound
    BY <1>0, <1>7, <1>u, <2>1 DEF Behind
  <2> QED
    BY <2>1, <2>2, <2>3, <2>4 DEF Behind
<1>8. ASSUME NEW t \in {"shell", "sensor"}, Filing(t) PROVE Behind'
  <2>1. CASE PickHandle(t)
    <3>1. task[t].pc = "scan" /\ UNCHANGED <<flag, volume>>
      BY <2>1 DEF PickHandle, Does
    <3> QED
      BY <1>7, <1>t, <1>u, <2>1, <3>1, Picked
  <2>2. CASE OpenHandle(t)
    <3>1. /\ task[t].pc = "open" /\ UNCHANGED <<flag, volume>>
          /\ \E pc \in {"opening", "read", "write"} : GoTo(t, pc)
      BY <2>2 DEF OpenHandle, Does, Call, Use
    <3> QED
      BY <1>7, <1>t, <1>u, <3>1, Went
  <2>3. CASE HandleOpened(t)
    <3>1. /\ task[t].pc = "opening" /\ UNCHANGED flag
          /\ \E pc \in {"read", "write"} : GoTo(t, pc)
      BY <2>3 DEF HandleOpened, Does, Use
    <3>2. volume' \in {volume, Found(volume), Locked(Found(volume), task[t].name, t = "sensor")}
      BY <2>3 DEF HandleOpened
    <3> QED
      BY <1>7, <1>t, <1>u, <3>1, <3>2, Went
  <2> QED
    BY <1>8, <2>1, <2>2, <2>3 DEF Filing
<1>9. ASSUME NEW t \in {"shell", "sensor"}, NEW pc \in {"read", "write"}, NEW inside \in {"reading", "writing"},
             NEW refused \in {"idle", "stopped"}, UseHandle(t, pc, inside, refused)
      PROVE Behind'
  <2>1. /\ task[t].pc = pc /\ UNCHANGED <<flag, volume>>
        /\ \E place \in {"idle", "stopped", "reading", "writing"} : GoTo(t, place)
    BY <1>9 DEF UseHandle, Does, Call
  <2> QED
    BY <1>7, <1>t, <1>u, <2>1, Went
<1>10. CASE CatDone("shell") \/ LineWritten("sensor")
  <2>1. \E t \in {"shell", "sensor"} : /\ task[t].pc \in {"reading", "writing"} /\ UNCHANGED <<flag, volume>>
                                       /\ \E pc \in {"idle", "stopped"} : GoTo(t, pc)
    BY <1>10 DEF CatDone, LineWritten, Unwritten, Does
  <2> QED
    BY <1>7, <1>t, <1>u, <2>1, Went
<1>11. CASE EnterMkdir("shell") \/ LeaveMkdir("shell")
  <2>1. /\ task["shell"].pc \in {"f_mkdir", "making"} /\ UNCHANGED flag
        /\ \E pc \in {"idle", "making"} : GoTo("shell", pc)
        /\ volume' \in {volume, Found(volume)}
    BY <1>11 DEF EnterMkdir, LeaveMkdir, Does, Call
  <2> QED
    BY <1>7, <1>t, <1>u, <2>1, Went
<1>12. ASSUME FatFormatting("shell")
       PROVE  Behind'
  <2>1. PICK pc \in {"f_unmount", "f_mkfs", "unmounting", "formatting", "claim", "idle"} : GoTo("shell", pc)
    BY <1>12 DEF FatFormatting, FatUnclaim, EnterFatUnmount, LeaveFatUnmount, EnterMkfs, LeaveMkfs, Call
  <2>2. task'["shell"].pc = pc /\ task'["filesystem"] = task["filesystem"]
    BY <1>t, <1>u, <2>1, Went
  <2>3. task["shell"].pc \in {"unmount", "f_unmount", "unmounting", "f_mkfs", "formatting"}
    BY <1>12 DEF FatFormatting, FatUnclaim, EnterFatUnmount, LeaveFatUnmount, EnterMkfs, LeaveMkfs, Does
  <2>4. ~flag'
    <3>1. CASE FatUnclaim("shell")
      BY <3>1 DEF FatUnclaim
    <3>2. CASE ~FatUnclaim("shell")
      <4>1. UNCHANGED flag /\ task["shell"].pc \in {"f_unmount", "unmounting", "f_mkfs", "formatting"}
        BY <1>12, <3>2 DEF FatFormatting, EnterFatUnmount, LeaveFatUnmount, EnterMkfs, LeaveMkfs, Does
      <4> QED
        BY <1>0, <4>1 DEF Behind
    <3> QED
      BY <3>1, <3>2
  <2> QED
    BY <1>0, <2>2, <2>3, <2>4 DEF Behind
<1>13. CASE UNCHANGED fatVars
  BY <1>0, <1>13 DEF Behind, Sound, fatVars
<1>14. CASE CatReads("shell") \/ JournalLine("sensor")
  BY <1>9, <1>14 DEF CatReads, JournalLine, Unwritten
<1>15. ASSUME NEW t \in {"filesystem", "shell"}, FatMounting(t) PROVE Behind'
  BY <1>4, <1>5, <1>6, <1>15 DEF FatMounting
<1> QED
  <2>1. CASE \E t \in {"filesystem", "shell"} : FatMounting(t)
    BY <2>1, <1>15
  <2>2. CASE \E t \in {"shell", "sensor"} : Filing(t)
    BY <2>2, <1>8
  <2> QED
    BY <2>1, <2>2, <1>3, <1>10, <1>11, <1>12, <1>13, <1>14 DEF FatNext

(* The invariant holds; what the properties say of it follows. *)
LEMMA FatInvariant == FatSpec => []FatInv
<1>1. FatInit => FatInv
  BY FatInitInv
<1>2. FatInv /\ [FatNext]_fatVars => FatInv'
  <2> SUFFICES ASSUME FatInv, [FatNext]_fatVars PROVE FatInv'
    OBVIOUS
  <2>1. FatTypes' /\ FatFlags'
    BY FatNextTypes, FatNextFlags DEF FatInv
  <2>2. OrdersInv' /\ TaskInv'
    BY OrdersStep, TaskMoves DEF FatInv
  <2>3. BehindInv'
    BY <2>1, BehindStep DEF FatInv
  <2> QED
    BY <2>1, <2>2, <2>3 DEF FatInv
<1> QED
  BY <1>1, <1>2, PTL DEF FatSpec

(* The variables of the FAT file system have their types: the names on the *)
(* card and in the table of locks are names of files, each handle is of a  *)
(* mount there has been, and no more lines are taken than orders given.    *)
THEOREM FatTypeCorrect == FatSpec => []FatTypeOK
<1>1. FatInv => FatTypeOK
  <2> SUFFICES ASSUME FatInv PROVE FatTypeOK
    OBVIOUS
  <2>1. past.lines \in 0..MaxOrders
    BY FatFsAssumption DEF FatInv, FatTypes, OrdersInv
  <2>2. past \in [together : BOOLEAN, hasty : BOOLEAN, lines : 0..MaxOrders]
    <3>1. past = [together |-> past.together, hasty |-> past.hasty, lines |-> past.lines]
      BY DEF FatInv, FatTypes
    <3>2. past.together \in BOOLEAN /\ past.hasty \in BOOLEAN
      BY DEF FatInv, FatFlags
    <3> QED
      BY <2>1, <3>1, <3>2, Zenon
  <2>3. medium \in BOOLEAN /\ flag \in BOOLEAN /\ volume.registered \in BOOLEAN
    BY DEF FatInv, FatFlags
  <2>4. /\ names \subseteq FatNames /\ volume.mounts \in Nat /\ volume.id \in {0, volume.mounts}
        /\ DOMAIN volume.locks \subseteq FatNames
        /\ handles \in [1..FatHandles -> [volume : 0..volume.mounts, name : FatNames]]
        /\ orders \in 0..MaxOrders
    BY DEF FatInv, FatTypes
  <2> QED
    BY <2>2, <2>3, <2>4, Zenon DEF FatTypeOK
<1> QED
  BY <1>1, FatInvariant, PTL

(* Unless an order is given during the mount at the start, m_mounted means *)
(* a registered and mounted volume whenever the filesystem task and the    *)
(* shell are idle: filesystem::format() and mount() keep the two together. *)
THEOREM VolumeCorrect == FatSpec => []VolumeBehindFlag
<1>1. FatInv => VolumeBehindFlag
  BY DEF FatInv, BehindInv, VolumeBehindFlag, Does
<1> QED
  BY <1>1, FatInvariant, PTL

(*---------------------------- The NOR flash ------------------------------*)

Working(c) == caller[c].pc \in Commanding \cup Transferring
Awaits(c)  == caller[c].pc \in {"poll", "polled"} /\ caller[c].want = "ready"
Moving     == Transferring \ {"map"}
Ops        == {"none", "init", "read", "write", "erase", "wipe", "map"}
Places     == {"ok", "failed"} \cup Commanding \cup Transferring

CallStates == [op : Ops, pc : Places \cup {"idle", "setup"}, first : Nat, page : Nat, end : Nat,
               want : {"wel", "ready"}, passed : BOOLEAN, before : {<<>>} \cup [Pages -> Contents]]

NorFlags == /\ driver \in [init : BOOLEAN, known : BOOLEAN]
            /\ chip \in [wel : BOOLEAN, wip : BOOLEAN]
            /\ overlapped \in BOOLEAN

NorTypes ==
    /\ hal \in {"reset", "ready", "command", "mapped", "error"}
    /\ data \in [Pages -> Contents]
    /\ caller \in [Clients -> CallStates]
    /\ flashCalls \in 0..MaxFlashCalls

(* Where a call stands, and the page it is at. *)
CallInv ==
    \A c \in Clients :
        LET q == caller[c] IN
        /\ q.pc = "idle" <=> q.op = "none"
        /\ q.pc \in {"setup", "sfdp", "table"} => q.op = "init"
        /\ q.pc \in {"enable", "poll", "polled", "act"} => q.op \in {"write", "erase", "wipe"}
        /\ q.pc = "data" => q.op = "write"
        /\ q.pc \in {"look", "looked"} => q.op \in {"read", "wipe"}
        /\ q.pc = "map" => q.op = "map"
        /\ q.passed => Working(c)
        /\ q.first <= q.page /\ q.page <= q.end /\ q.end <= Sectors * PerSector
        /\ Working(c) /\ q.op \notin {"init", "map"} => q.page < q.end
        /\ q.op = "wipe" => q.first = 0 /\ q.end = Sectors * PerSector
        /\ q.op = "erase" => q.end = q.first + 1 /\ (Working(c) => q.page = q.first)

(* Calls that do not overlap come one after the other; the handle is as    *)
(* the call that is past its test found it, and a busy chip is one the     *)
(* call is waiting for, unless the handle failed.                          *)
LoneInv ==
    /\ hal = "reset" => ~chip.wip /\ \A c \in Clients : ~caller[c].passed
    /\ ~overlapped =>
        /\ \A c, d \in Clients : ~At(c, "idle") /\ ~At(d, "idle") => c = d
        /\ hal # "mapped"
        /\ \A c \in Clients : /\ caller[c].pc \in Moving => hal = "command"
                              /\ caller[c].passed => ~Misfit(c)
        /\ chip.wip => hal = "error" \/ \E c \in Clients : Awaits(c)
        /\ \A c \in Clients : caller[c].pc \in {"act", "data"} => chip.wel /\ hal # "error"

(* What a call that does not overlap another has done so far. *)
WriteSoFar(c) ==
    LET q == caller[c] IN
    q.op = "write" =>
        /\ Working(c) =>
              \A p \in Pages :
                  data[p] = IF p \in q.first..(q.page - 1) \/ (Awaits(c) /\ p = q.page)
                            THEN Programmed(q.before[p], c) ELSE q.before[p]
        /\ q.pc \in {"ok", "failed"} =>
              \A p \in Pages :
                  \/ data[p] = IF p \in q.first..(q.page - 1)
                               THEN Programmed(q.before[p], c) ELSE q.before[p]
                  \/ q.pc = "failed" /\ p = q.page /\ data[p] = Programmed(q.before[p], c)

EraseSoFar(c) ==
    LET q == caller[c] IN
    q.op = "erase" /\ driver.known =>
        /\ Working(c) /\ ~Awaits(c) => data = q.before
        /\ Awaits(c) \/ q.pc = "ok" => data = Erased(q.before, SectorOf(q.first))

WipeSoFar(c) ==
    LET q == caller[c] IN
    q.op = "wipe" /\ driver.known =>
        /\ Working(c) => \A p \in Pages : p < q.page => data[p] = "blank"
        /\ Awaits(c) => \A p \in Pages : p < (SectorOf(q.page) + 1) * PerSector => data[p] = "blank"
        /\ q.pc = "ok" => \A p \in Pages : data[p] = "blank"

DoneInv == ~overlapped => \A c \in Clients : WriteSoFar(c) /\ EraseSoFar(c) /\ WipeSoFar(c)

NorInv == NorFlags /\ NorTypes /\ CallInv /\ NeverLeftAnnounced /\ LoneInv /\ DoneInv

-----------------------------------------------------------------------------
(* The geometry: pages and their sectors. *)

LEMMA ProductPositive == Sectors * PerSector \in Nat \ {0}
BY FlashAssumption

LEMMA Times == ASSUME NEW a \in Nat, NEW b \in Nat, a <= b PROVE a * PerSector <= b * PerSector
<1>1. b - a \in Nat /\ b = a + (b - a)
  OBVIOUS
<1>2. (b - a) * PerSector \in Nat
  BY <1>1, FlashAssumption
<1>3. b * PerSector = a * PerSector + (b - a) * PerSector
  BY <1>1, FlashAssumption
<1> QED BY <1>2, <1>3, FlashAssumption
LEMMA SectorStart == ASSUME NEW s \in 0..(Sectors - 1) PROVE s * PerSector \in Pages
<1>1. (s + 1) * PerSector <= Sectors * PerSector
  BY Times, FlashAssumption
<1>2. (s + 1) * PerSector = s * PerSector + PerSector /\ s * PerSector \in Nat
  BY FlashAssumption
<1> QED
  BY <1>1, <1>2, FlashAssumption DEF Pages

LEMMA Division == ASSUME NEW p \in Nat PROVE /\ SectorOf(p) \in Nat
   /\ SectorOf(p) * PerSector <= p /\ p < (SectorOf(p) + 1) * PerSector
 BY FlashAssumption DEF SectorOf
LEMMA SectorEnd == ASSUME NEW p \in Pages PROVE (SectorOf(p) + 1) * PerSector \in (p+1)..(Sectors * PerSector)
<1>1. SectorOf(p) \in Nat /\ SectorOf(p) * PerSector <= p /\ p < (SectorOf(p) + 1) * PerSector
  BY Division DEF Pages
<1>2. SectorOf(p) < Sectors
  <2>1. CASE Sectors <= SectorOf(p)
    <3>1. Sectors * PerSector <= SectorOf(p) * PerSector
      BY <1>1, <2>1, Times, FlashAssumption
    <3> QED BY <1>1, <3>1, FlashAssumption DEF Pages
  <2> QED BY <2>1, <1>1, FlashAssumption
<1>3. (SectorOf(p) + 1) * PerSector <= Sectors * PerSector
  BY <1>1, <1>2, Times, FlashAssumption
<1> QED BY <1>1, <1>3, FlashAssumption DEF Pages
LEMMA SameSector == ASSUME NEW p \in Pages, NEW q \in Pages, p <= q, q < (SectorOf(p) + 1) * PerSector PROVE SectorOf(q) = SectorOf(p)
<1>1. SectorOf(p) \in Nat /\ SectorOf(p) * PerSector <= p
  BY Division DEF Pages
<1>2. SectorOf(q) \in Nat /\ SectorOf(q) * PerSector <= q /\ q < (SectorOf(q) + 1) * PerSector
  BY Division DEF Pages
<1>3. SectorOf(q) <= SectorOf(p)
  <2>1. CASE SectorOf(p) + 1 <= SectorOf(q)
    <3>1. (SectorOf(p) + 1) * PerSector <= SectorOf(q) * PerSector
      BY <1>1, <1>2, <2>1, Times
    <3> QED BY <1>1, <1>2, <3>1, FlashAssumption DEF Pages
  <2> QED BY <2>1, <1>1, <1>2
<1>4. SectorOf(p) <= SectorOf(q)
  <2>1. CASE SectorOf(q) + 1 <= SectorOf(p)
    <3>1. (SectorOf(q) + 1) * PerSector <= SectorOf(p) * PerSector
      BY <1>1, <1>2, <2>1, Times
    <3> QED BY <1>1, <1>2, <3>1, FlashAssumption DEF Pages
  <2> QED BY <2>1, <1>1, <1>2
<1> QED BY <1>1, <1>2, <1>3, <1>4

LEMMA NorInitInv == NorInit => NorInv
<1> SUFFICES ASSUME NorInit PROVE NorInv
  OBVIOUS
<1> USE FlashAssumption DEF NorInit, AtRest
<1>1. NorFlags
  BY DEF NorFlags
<1>2. NorTypes
  BY DEF NorTypes, CallStates, Places, Contents, Ops, Pages
<1>3. CallInv
  BY ProductPositive DEF CallInv, Working, Commanding, Transferring
<1>4. NeverLeftAnnounced
  BY DEF NeverLeftAnnounced
<1>5. LoneInv
  BY DEF LoneInv, At, Moving, Transferring
<1>6. DoneInv
  BY DEF DoneInv, WriteSoFar, EraseSoFar, WipeSoFar, Working, Awaits, Commanding, Transferring
<1> QED
  BY <1>1, <1>2, <1>3, <1>4, <1>5, <1>6 DEF NorInv

LEMMA NorNextFlags == NorFlags /\ [NorNext]_norVars => NorFlags'
<1> SUFFICES ASSUME NorFlags, [NorNext]_norVars PROVE NorFlags'
  OBVIOUS
<1> USE DEF NorFlags, NorNext, NorCall, NorRun, CallInit, CallRead, CallWrite, CallErase,
        CallWipe, CallMap, Begin, Admit, MapMemory, SetUp, AskTable, ReadTable, WriteEnable, AskStatus,
        ReadStatus, AskProgram, ProgramPage, EraseSector, AskPage, LookAtPage, Return,
        Fail, Complete, Alter, norVars
<1>1. driver' \in [init : BOOLEAN, known : BOOLEAN]
  OBVIOUS
<1>2. chip' \in [wel : BOOLEAN, wip : BOOLEAN]
  <2>1. ASSUME NEW c \in Clients, WriteEnable(c) PROVE chip' \in [wel : BOOLEAN, wip : BOOLEAN]
    <3>1. (chip.wel \/ ~chip.wip) \in BOOLEAN
      OBVIOUS
    <3> QED
      BY <2>1, <3>1
  <2>2. \/ UNCHANGED chip \/ chip' = [wel |-> FALSE, wip |-> FALSE]
        \/ chip' = [chip EXCEPT !.wip = TRUE] \/ \E c \in Clients : WriteEnable(c)
    OBVIOUS
  <2>3. CASE chip' = [chip EXCEPT !.wip = TRUE]
    BY <2>3
  <2>4. CASE chip' = [wel |-> FALSE, wip |-> FALSE]
    BY <2>4
  <2>5. CASE UNCHANGED chip
    BY <2>5
  <2> QED
    BY <2>1, <2>2, <2>3, <2>4, <2>5
<1>3. overlapped' \in BOOLEAN
  OBVIOUS
<1> QED
  BY <1>1, <1>2, <1>3

LEMMA NorNextData == NorTypes /\ [NorNext]_norVars => data' \in [Pages -> Contents]
<1> SUFFICES ASSUME NorTypes, [NorNext]_norVars PROVE data' \in [Pages -> Contents]
  OBVIOUS
<1>1. data \in [Pages -> Contents]
  BY DEF NorTypes
<1>2. ASSUME NEW c \in Clients, ProgramPage(c) PROVE data' \in [Pages -> Contents]
  <2>1. \A b \in Contents : Programmed(b, c) \in Contents
    BY DEF Programmed, Contents
  <2>2. data' = data \/ data' = [data EXCEPT ![caller[c].page] = Programmed(@, c)]
    BY <1>2 DEF ProgramPage, Alter
  <2> QED
    BY <1>1, <2>1, <2>2
<1>3. ASSUME NEW c \in Clients, EraseSector(c) PROVE data' \in [Pages -> Contents]
  BY <1>1, <1>3 DEF EraseSector, Alter, Erased, Contents
<1>4. \/ UNCHANGED data \/ \E c \in Clients : ProgramPage(c) \/ EraseSector(c)
  BY DEF NorNext, NorCall, NorRun, CallInit, CallRead, CallWrite, CallErase,
         CallWipe, CallMap, Begin, Admit, MapMemory, SetUp, AskTable, ReadTable, WriteEnable, AskStatus,
         ReadStatus, AskProgram, AskPage, LookAtPage, Return, Fail, Complete, norVars
<1> QED
  BY <1>1, <1>2, <1>3, <1>4

(* What a step does to the calls and to the handle. *)
Control == NorTypes /\ CallInv /\ NeverLeftAnnounced

LEMMA BeginControl ==
    ASSUME Control, NEW c \in Clients, NEW op \in Ops \ {"none"}, NEW pc, NEW first \in Nat,
           NEW end \in Nat, Begin(c, op, first, end, pc),
           pc \in {"setup", "enable", "look", "map", "ok", "failed"},
           first <= end /\ end <= Sectors * PerSector,
           pc = "setup" => op = "init",
           pc = "enable" => op \in {"write", "erase"},
           pc = "look" => op \in {"read", "wipe"},
           pc = "map" => op = "map",
           pc \in {"enable", "look"} => first < end,
           op = "wipe" => first = 0 /\ end = Sectors * PerSector,
           op = "erase" => end = first + 1,
           data' \in [Pages -> Contents], hal' = hal
    PROVE  Control'
<1> USE FlashAssumption DEF Control, NorTypes, CallInv, NeverLeftAnnounced, CallStates, Places, Ops,
        Commanding, Transferring, Working, At
<1>1. flashCalls' \in 0..MaxFlashCalls
  BY DEF Begin
<1>2. caller[c].pc = "idle"
  BY DEF Begin
<1>3. PICK b \in {<<>>} \cup [Pages -> Contents] :
          caller' = [caller EXCEPT ![c] = [op |-> op, pc |-> pc, first |-> first,
                         page |-> first, end |-> end, want |-> "wel", passed |-> FALSE,
                         before |-> b]]
  BY DEF Begin
<1>4. NorTypes'
  BY <1>1, <1>3
<1>5. CallInv'
  BY <1>3, ProductPositive
<1>6. NeverLeftAnnounced'
  BY <1>2, <1>3
<1> QED
  BY <1>4, <1>5, <1>6

LEMMA NorCallControl == ASSUME Control, NEW c \in Clients, NorCall(c) PROVE Control'
<1> USE FlashAssumption DEF Ops
<1>1. data' = data /\ data \in [Pages -> Contents]
  BY DEF NorCall, CallInit, CallRead, CallWrite, CallErase, CallWipe, CallMap, Begin,
         Control, NorTypes
<1>2. CASE CallInit(c)
  <2>1. PICK pc \in {"ok", "setup"} : Begin(c, "init", 0, 0, pc)
    BY <1>2 DEF CallInit
  <2> QED
    BY <1>1, <1>2, <2>1, BeginControl, ProductPositive DEF CallInit
<1>3. CASE CallRead(c)
  <2>1. PICK p \in Pages, pc \in {"look", "failed"} : Begin(c, "read", p, p + 1, pc)
    BY <1>3 DEF CallRead
  <2> QED
    BY <1>1, <1>3, <2>1, BeginControl, ProductPositive DEF CallRead, Pages
<1>4. CASE CallWrite(c)
  <2>1. PICK p \in Pages, e \in Pages, pc \in {"enable", "failed"} :
             p <= e /\ Begin(c, "write", p, e + 1, pc)
    BY <1>4 DEF CallWrite
  <2> QED
    BY <1>1, <1>4, <2>1, BeginControl, ProductPositive DEF CallWrite, Pages
<1>5. CASE CallErase(c)
  <2>1. PICK s \in 0..(Sectors - 1) :
             Begin(c, "erase", s * PerSector, s * PerSector + 1, "enable")
    BY <1>5 DEF CallErase
  <2>2. s * PerSector \in Pages
    BY <2>1, SectorStart
  <2> QED
    BY <1>1, <1>5, <2>1, <2>2, BeginControl, ProductPositive DEF CallErase, Pages
<1>6. CASE CallWipe(c)
  <2>1. PICK pc \in {"ok", "look", "failed"} : Begin(c, "wipe", 0, Sectors * PerSector, pc)
    BY <1>6 DEF CallWipe
  <2> QED
    BY <1>1, <1>6, <2>1, BeginControl, ProductPositive DEF CallWipe
<1>7. CASE CallMap(c)
  BY <1>1, <1>7, BeginControl, ProductPositive DEF CallMap
<1> QED
  BY <1>2, <1>3, <1>4, <1>5, <1>6, <1>7 DEF NorCall

(* A step of a call takes its client to another place; while it works on   *)
(* its pages, it stays at one or goes on.                                  *)
Legal(c, pc, page) ==
    LET q == caller[c] IN
    /\ q.pc # "idle" /\ pc \in Places
    /\ q.page <= page /\ page <= q.end
    /\ pc \in {"sfdp", "table"} => q.op = "init"
    /\ pc \in {"enable", "poll", "polled", "act"} => q.op \in {"write", "erase", "wipe"}
    /\ pc = "data" => q.op = "write"
    /\ pc \in {"look", "looked"} => q.op \in {"read", "wipe"}
    /\ pc # "map" /\ (pc \in Commanding \cup Transferring /\ q.op # "init" => page < q.end)
    /\ pc \in Commanding \cup Transferring /\ q.op = "erase" => page = q.first

(* The handle is in the middle of a command only for a call that goes on   *)
(* to its transfer, or for another's.                                      *)
HalStep(c, pc) ==
    /\ hal' \in {"reset", "ready", "command", "mapped", "error"}
    /\ hal' = "command" => pc \in Moving \/ (hal = "command" /\ caller[c].pc \notin Moving)

LEMMA GoControl ==
    ASSUME Control, NEW c \in Clients, NEW r \in CallStates, caller' = [caller EXCEPT ![c] = r],
           r.op = caller[c].op, r.first = caller[c].first, r.end = caller[c].end, ~r.passed,
           data' \in [Pages -> Contents], flashCalls' = flashCalls,
           Legal(c, r.pc, r.page), HalStep(c, r.pc)
    PROVE  Control'
<1> USE FlashAssumption DEF Control, NorTypes, CallInv, NeverLeftAnnounced, Ops, Commanding, Transferring,
        Working, At, Legal, HalStep, Places, Moving
<1>1. /\ caller'[c] = r /\ \A d \in Clients \ {c} : caller'[d] = caller[d]
      /\ caller[c].op # "none" /\ r.pc # "setup"
  OBVIOUS
<1>2. NorTypes'
  OBVIOUS
<1>3. CallInv'
  <2>1. ASSUME NEW d \in Clients \ {c} PROVE CallInv!(d)'
    BY <1>1
  <2>2. CallInv!(c)'
    BY <1>1, ProductPositive DEF CallStates
  <2> QED
    BY <2>1, <2>2
<1>4. NeverLeftAnnounced'
  BY <1>1
<1> QED
  BY <1>2, <1>3, <1>4

LEMMA MoveControl ==
    ASSUME Control, NEW c \in Clients, NEW pc, Go(c, pc),
           data' \in [Pages -> Contents], flashCalls' = flashCalls,
           Legal(c, pc, caller[c].page), HalStep(c, pc)
    PROVE  Control'
<1> DEFINE r == [caller[c] EXCEPT !.pc = pc, !.passed = FALSE]
<1>1. caller \in [Clients -> CallStates]
  BY DEF Control, NorTypes
<1>2. r \in CallStates /\ r.pc = pc /\ r.page = caller[c].page /\ ~r.passed
      /\ r.op = caller[c].op /\ r.first = caller[c].first /\ r.end = caller[c].end
  BY <1>1 DEF CallStates, Legal
<1>3. caller' = [caller EXCEPT ![c] = r]
  BY <1>1 DEF Go
<1> QED
  BY <1>2, <1>3, GoControl

LEMMA PollControl ==
    ASSUME Control, NEW c \in Clients, NEW want \in {"wel", "ready"}, Poll(c, want),
           data' \in [Pages -> Contents], flashCalls' = flashCalls,
           Legal(c, "poll", caller[c].page), HalStep(c, "poll")
    PROVE  Control'
<1> DEFINE r == [caller[c] EXCEPT !.want = want, !.pc = "poll", !.passed = FALSE]
<1>1. caller \in [Clients -> CallStates]
  BY DEF Control, NorTypes
<1>2. r \in CallStates /\ r.pc = "poll" /\ r.page = caller[c].page /\ ~r.passed
      /\ r.op = caller[c].op /\ r.first = caller[c].first /\ r.end = caller[c].end
  BY <1>1 DEF CallStates, Legal
<1>3. caller' = [caller EXCEPT ![c] = r]
  BY <1>1 DEF Poll
<1> QED
  BY <1>2, <1>3, GoControl

LEMMA PageControl ==
    ASSUME Control, NEW c \in Clients, NEW page \in Nat, NEW pc, GoOn(c, page, pc),
           data' \in [Pages -> Contents], flashCalls' = flashCalls,
           Legal(c, pc, page), HalStep(c, pc)
    PROVE  Control'
<1> DEFINE r == [caller[c] EXCEPT !.page = page, !.pc = pc, !.passed = FALSE]
<1>1. caller \in [Clients -> CallStates]
  BY DEF Control, NorTypes
<1>2. r \in CallStates /\ r.pc = pc /\ r.page = page /\ ~r.passed
      /\ r.op = caller[c].op /\ r.first = caller[c].first /\ r.end = caller[c].end
  BY <1>1 DEF CallStates, Legal
<1>3. caller' = [caller EXCEPT ![c] = r]
  BY <1>1 DEF GoOn
<1> QED
  BY <1>2, <1>3, GoControl

(* The place of a client that is not at rest, as CallInv says.             *)
LEMMA Place ==
    ASSUME Control, NEW c \in Clients
    PROVE  /\ hal \in {"reset", "ready", "command", "mapped", "error"}
           /\ caller[c].op \in Ops /\ caller[c].pc \in Places \cup {"idle", "setup"}
           /\ caller[c].page \in Nat /\ caller[c].end \in Nat /\ caller[c].first \in Nat
           /\ caller[c].pc \in {"setup"} \cup Places => Legal(c, "failed", caller[c].page)
           /\ caller[c].pc \in Places \ {"map"} => Legal(c, caller[c].pc, caller[c].page)
           /\ caller[c].pc = "setup" => caller[c].op = "init"
           /\ caller[c].op = "wipe" => caller[c].end = Sectors * PerSector
           /\ caller[c].op = "erase" => caller[c].end = caller[c].first + 1
           /\ caller[c].end <= Sectors * PerSector
BY DEF Control, NorTypes, CallStates, CallInv, Ops, Legal, Places, Commanding, Transferring, Working

LEMMA NorRunControl ==
    ASSUME Control, NEW c \in Clients, NorRun(c) \/ Fail(c), data' \in [Pages -> Contents]
    PROVE  Control'
<1> USE DEF Commanding, Transferring, Moving, At, Places
<1>1. CASE SetUp(c)
  <2>1. Legal(c, "sfdp", caller[c].page) /\ HalStep(c, "sfdp")
    BY <1>1, Place DEF SetUp, Legal, HalStep
  <2> QED
    BY <1>1, <2>1, MoveControl DEF SetUp
<1>2. CASE AskTable(c)
  <2>1. Legal(c, "table", caller[c].page) /\ HalStep(c, "table")
    BY <1>2, Place DEF AskTable, Announce, Legal, HalStep
  <2> QED
    BY <1>2, <2>1, MoveControl DEF AskTable
<1>3. CASE ReadTable(c)
  <2>1. ASSUME NEW pc \in {"ok", "failed"} PROVE Legal(c, pc, caller[c].page) /\ HalStep(c, pc)
    BY <1>3, Place DEF ReadTable, Transfer, Legal, HalStep
  <2> QED
    BY <1>3, <2>1, MoveControl DEF ReadTable
<1>4. CASE WriteEnable(c)
  <2>1. Legal(c, "poll", caller[c].page) /\ HalStep(c, "poll")
    BY <1>4, Place DEF WriteEnable, Order, Legal, HalStep
  <2> QED
    BY <1>4, <2>1, PollControl DEF WriteEnable
<1>5. CASE AskStatus(c)
  <2>1. Legal(c, "polled", caller[c].page) /\ HalStep(c, "polled")
    BY <1>5, Place DEF AskStatus, Announce, Legal, HalStep
  <2> QED
    BY <1>5, <2>1, MoveControl DEF AskStatus
<1>6. CASE ReadStatus(c)
  <2>1. ASSUME NEW pc \in {"act", "poll"} PROVE Legal(c, pc, caller[c].page) /\ HalStep(c, pc)
    BY <1>6, Place DEF ReadStatus, Transfer, Legal, HalStep
  <2>2. CASE NextPage(c)
    <3>1. Legal(c, "polled", caller[c].page) /\ caller[c].page \in Pages
      <4>1. caller[c].pc = "polled" /\ Legal(c, "polled", caller[c].page)
        BY <1>6, Place DEF ReadStatus
      <4>2. caller[c].page < caller[c].end
        BY <4>1 DEF Legal
      <4> QED
        BY <4>1, <4>2, Place, ProductPositive DEF Pages
    <3> DEFINE next == IF caller[c].op = "wipe" THEN (SectorOf(caller[c].page) + 1) * PerSector
                       ELSE caller[c].page + 1
    <3>2. next \in (caller[c].page + 1)..(IF caller[c].op = "wipe" THEN Sectors * PerSector
                                         ELSE caller[c].page + 1)
      BY <3>1, SectorEnd, Place
    <3>3. PICK pc \in {"ok", "look", "enable"} :
              /\ GoOn(c, next, pc)
              /\ pc = "ok" <=> next = caller[c].end
              /\ pc = "look" => caller[c].op = "wipe"
      BY <2>2 DEF NextPage
    <3>4. next \in Nat /\ Legal(c, pc, next)
      BY <3>1, <3>2, <3>3, Place, ProductPositive DEF Legal
    <3>5. HalStep(c, pc)
      BY <1>6, <3>3 DEF ReadStatus, Transfer, HalStep
    <3> QED
      BY <1>6, <3>3, <3>4, <3>5, PageControl DEF ReadStatus
  <2> QED
    BY <1>6, <2>1, <2>2, MoveControl DEF ReadStatus
<1>7. CASE AskProgram(c)
  <2>1. Legal(c, "data", caller[c].page) /\ HalStep(c, "data")
    BY <1>7, Place DEF AskProgram, Announce, Legal, HalStep
  <2> QED
    BY <1>7, <2>1, MoveControl DEF AskProgram
<1>8. CASE ProgramPage(c)
  <2>1. Legal(c, "poll", caller[c].page) /\ HalStep(c, "poll")
    BY <1>8, Place DEF ProgramPage, Transfer, Legal, HalStep
  <2> QED
    BY <1>8, <2>1, PollControl DEF ProgramPage
<1>9. CASE EraseSector(c)
  <2>1. Legal(c, "poll", caller[c].page) /\ HalStep(c, "poll")
    BY <1>9, Place DEF EraseSector, Order, Legal, HalStep
  <2> QED
    BY <1>9, <2>1, PollControl DEF EraseSector
<1>10. CASE AskPage(c)
  <2>1. Legal(c, "looked", caller[c].page) /\ HalStep(c, "looked")
    BY <1>10, Place DEF AskPage, Announce, Legal, HalStep
  <2> QED
    BY <1>10, <2>1, MoveControl DEF AskPage
<1>11. CASE LookAtPage(c)
  <2>1. Legal(c, "looked", caller[c].page)
    BY <1>11, Place DEF LookAtPage
  <2>2. CASE caller[c].op = "wipe" /\ Go(c, "enable")
    <3>1. Legal(c, "enable", caller[c].page) /\ HalStep(c, "enable")
      BY <1>11, <2>1, <2>2, Place DEF LookAtPage, Transfer, Legal, HalStep
    <3> QED
      BY <1>11, <2>2, <3>1, MoveControl DEF LookAtPage
  <2>3. CASE LET next == caller[c].page + 1
             IN  GoOn(c, next, IF next = caller[c].end THEN "ok" ELSE "look")
    <3>1. PICK pc \in {"ok", "look"} : /\ GoOn(c, caller[c].page + 1, pc)
                                       /\ pc = "look" <=> caller[c].page + 1 # caller[c].end
      BY <2>3
    <3>2. Legal(c, pc, caller[c].page + 1) /\ HalStep(c, pc)
      BY <1>11, <2>1, <3>1, Place DEF LookAtPage, Transfer, Legal, HalStep
    <3>3. caller[c].page + 1 \in Nat
      BY Place
    <3> QED
      BY <1>11, <3>1, <3>2, <3>3, PageControl DEF LookAtPage
  <2> QED
    BY <1>11, <2>2, <2>3 DEF LookAtPage
<1>12. CASE Return(c)
  <2>1. /\ caller' = [caller EXCEPT ![c] = AtRest] /\ UNCHANGED <<hal, flashCalls>>
        /\ caller[c].pc \in {"ok", "failed"}
    BY <1>12 DEF Return
  <2>2. NorTypes'
    BY <2>1 DEF Control, NorTypes, CallStates, AtRest, Ops
  <2>3. CallInv'
    BY <2>1, ProductPositive DEF Control, NorTypes, CallStates, CallInv, AtRest, Working
  <2>4. NeverLeftAnnounced'
    BY <2>1 DEF Control, NorTypes, CallStates, NeverLeftAnnounced, AtRest
  <2> QED
    BY <2>2, <2>3, <2>4 DEF Control
<1>13. CASE Fail(c)
  <2>1. Legal(c, "failed", caller[c].page) /\ HalStep(c, "failed")
    BY <1>13, Place DEF Fail, Misfit, Legal, HalStep
  <2> QED
    BY <1>13, <2>1, MoveControl DEF Fail
<1>14. CASE MapMemory(c)
  <2>1. Legal(c, "ok", caller[c].page) /\ HalStep(c, "ok")
    BY <1>14, Place DEF MapMemory, Legal, HalStep
  <2> QED
    BY <1>14, <2>1, MoveControl DEF MapMemory
<1>15. CASE Admit(c)
  <2>1. /\ caller' = [caller EXCEPT ![c].passed = TRUE] /\ UNCHANGED <<hal, flashCalls>>
        /\ Working(c)
    BY <1>15 DEF Admit, Working
  <2>2. \A d \in Clients : /\ caller'[d].pc = caller[d].pc /\ caller'[d].op = caller[d].op
                           /\ caller'[d].first = caller[d].first /\ caller'[d].page = caller[d].page
                           /\ caller'[d].end = caller[d].end
                           /\ caller'[d].passed => caller[d].passed \/ d = c
    BY <2>1 DEF Control, NorTypes, CallStates
  <2>3. NorTypes'
    <3> DEFINE r == [caller[c] EXCEPT !.passed = TRUE]
    <3>1. caller' = [caller EXCEPT ![c] = r]
      BY <2>1
    <3>2. r \in CallStates
      BY DEF Control, NorTypes, CallStates
    <3> HIDE DEF r
    <3>3. caller' \in [Clients -> CallStates]
      BY <3>1, <3>2 DEF Control, NorTypes
    <3> QED
      BY <2>1, <3>3 DEF Control, NorTypes
  <2>4. CallInv'
    BY <2>1, <2>2 DEF Control, CallInv, Working
  <2>5. NeverLeftAnnounced'
    BY <2>1, <2>2 DEF Control, NeverLeftAnnounced
  <2> QED
    BY <2>3, <2>4, <2>5 DEF Control
<1> QED
  BY <1>1, <1>2, <1>3, <1>4, <1>5, <1>6, <1>7, <1>8, <1>9, <1>10, <1>11, <1>12, <1>13, <1>14, <1>15 DEF NorRun

-----------------------------------------------------------------------------
(* Calls that do not overlap: the others are at rest. *)

LEMMA Alone ==
    ASSUME Control, LoneInv, overlapped \in BOOLEAN, ~overlapped', NEW c \in Clients,
           NorCall(c) \/ NorRun(c) \/ Fail(c)
    PROVE  /\ ~overlapped
           /\ NorCall(c) => caller[c].pc = "idle"
           /\ \A d \in Clients \ {c} :
                  caller[d].pc = "idle" /\ caller[d].op = "none" /\ caller'[d] = caller[d]
<1>1. caller \in [Clients -> CallStates]
  BY DEF Control, NorTypes
<1>2. \A d \in Clients : caller[d].pc = "idle" <=> caller[d].op = "none"
  BY DEF Control, CallInv
<1>3. CASE NorCall(c)
  <2>1. PICK op, first, end, pc : Begin(c, op, first, end, pc)
    BY <1>3 DEF NorCall, CallInit, CallRead, CallWrite, CallErase, CallWipe, CallMap
  <2>2. overlapped' = (overlapped \/ \E d \in Clients : caller[d].pc # "idle")
    BY <2>1 DEF Begin, At
  <2>3. ~overlapped /\ \A d \in Clients : caller[d].pc = "idle"
    BY <2>2
  <2>4. \A d \in Clients \ {c} : caller'[d] = caller[d]
    BY <1>1, <2>1 DEF Begin
  <2> QED
    BY <1>2, <2>3, <2>4
<1>4. CASE NorRun(c) \/ Fail(c)
  <2>1. ~overlapped
    BY <1>4 DEF NorRun, Admit, MapMemory, SetUp, AskTable, ReadTable, WriteEnable, AskStatus, ReadStatus, AskProgram,
           ProgramPage, EraseSector, AskPage, LookAtPage, Return, Fail
  <2>2. caller[c].pc # "idle"
    BY <1>4 DEF NorRun, Admit, MapMemory, SetUp, AskTable, ReadTable, WriteEnable, AskStatus, ReadStatus, AskProgram,
           ProgramPage, EraseSector, AskPage, LookAtPage, Return, Fail, At, Commanding, Transferring
  <2>3. \A d \in Clients \ {c} : caller'[d] = caller[d]
    <3>1. CASE SetUp(c) \/ AskTable(c) \/ ReadTable(c) \/ AskStatus(c) \/ AskProgram(c) \/ AskPage(c)
               \/ MapMemory(c) \/ Fail(c)
      BY <1>1, <3>1 DEF SetUp, AskTable, ReadTable, AskStatus, AskProgram, AskPage, MapMemory, Fail, Go
    <3>2. CASE WriteEnable(c) \/ ProgramPage(c) \/ EraseSector(c)
      BY <1>1, <3>2 DEF WriteEnable, ProgramPage, EraseSector, Poll
    <3>3. CASE ReadStatus(c)
      BY <1>1, <3>3 DEF ReadStatus, NextPage, Go, GoOn
    <3>4. CASE LookAtPage(c)
      BY <1>1, <3>4 DEF LookAtPage, Go, GoOn
    <3>5. CASE Admit(c) \/ Return(c)
      BY <1>1, <3>5 DEF Admit, Return
    <3> QED
      BY <1>4, <3>1, <3>2, <3>3, <3>4, <3>5 DEF NorRun
  <2>4. \A d \in Clients \ {c} : caller[d].pc = "idle"
    BY <2>1, <2>2 DEF LoneInv, At
  <2>5. ~NorCall(c)
    BY <2>2 DEF NorCall, CallInit, CallRead, CallWrite, CallErase, CallWipe, CallMap, Begin, At
  <2> QED
    BY <1>2, <2>1, <2>3, <2>4, <2>5
<1> QED
  BY <1>3, <1>4

LEMMA NorNextReset ==
    ASSUME NorTypes, [NorNext]_norVars, hal' = "reset",
           hal = "reset" => ~chip.wip /\ \A c \in Clients : ~caller[c].passed
    PROVE  ~chip'.wip /\ \A c \in Clients : ~caller'[c].passed
<1>1. caller \in [Clients -> CallStates]
  BY DEF NorTypes
<1>2. hal = "reset"
  BY DEF NorNext, NorCall, NorRun, CallInit, CallRead, CallWrite, CallErase,
         CallWipe, CallMap, Begin, Admit, MapMemory, SetUp, AskTable, ReadTable, WriteEnable, AskStatus,
         ReadStatus, AskProgram, ProgramPage, EraseSector, AskPage, LookAtPage, Return,
         Fail, Complete, Order, Announce, Transfer, norVars
<1>3. ~chip.wip /\ \A c \in Clients : ~caller[c].passed
  BY <1>2
<1>4. ASSUME NEW c \in Clients, NorRun(c) PROVE Return(c)
  BY <1>2, <1>3, <1>4
     DEF NorRun, Admit, MapMemory, SetUp, AskTable, ReadTable, WriteEnable, AskStatus, ReadStatus,
         AskProgram, ProgramPage, EraseSector, AskPage, LookAtPage, Order, Announce, Transfer, Misfit
<1>5. ASSUME NEW c \in Clients, NorCall(c) \/ Return(c) \/ Fail(c)
      PROVE  ~chip'.wip /\ \A d \in Clients : ~caller'[d].passed
  <2>1. UNCHANGED chip
    BY <1>5 DEF NorCall, CallInit, CallRead, CallWrite, CallErase, CallWipe, CallMap, Begin, Return, Fail
  <2>2. \A d \in Clients : ~caller'[d].passed
    <3>1. CASE NorCall(c)
      <4>1. PICK op, first, end, pc : Begin(c, op, first, end, pc)
        BY <3>1 DEF NorCall, CallInit, CallRead, CallWrite, CallErase, CallWipe, CallMap
      <4> QED
        BY <1>1, <1>3, <4>1 DEF Begin
    <3>2. CASE Return(c)
      BY <1>1, <1>3, <3>2 DEF Return, AtRest
    <3>3. CASE Fail(c)
      BY <1>1, <1>3, <3>3 DEF Fail, Go, CallStates
    <3> QED
      BY <1>5, <3>1, <3>2, <3>3
  <2> QED
    BY <1>3, <2>1, <2>2
<1>6. CASE Complete \/ UNCHANGED norVars
  BY <1>3, <1>6 DEF Complete, norVars
<1> QED
  BY <1>4, <1>5, <1>6 DEF NorNext

LEMMA NorStepLone ==
    ASSUME NorFlags, Control, LoneInv, NEW c \in Clients, NorCall(c) \/ NorRun(c) \/ Fail(c),
           ~overlapped'
    PROVE  /\ \A d, e \in Clients : ~At(d, "idle")' /\ ~At(e, "idle")' => d = e
           /\ hal' # "mapped"
           /\ \A d \in Clients : /\ caller'[d].pc \in Moving => hal' = "command"
                                 /\ caller'[d].passed => ~Misfit(d)'
           /\ chip'.wip => hal' = "error" \/ \E d \in Clients : Awaits(d)'
           /\ \A d \in Clients : caller'[d].pc \in {"act", "data"} => chip'.wel /\ hal' # "error"
<1>1. /\ ~overlapped /\ (NorCall(c) => caller[c].pc = "idle")
      /\ \A d \in Clients \ {c} :
             caller[d].pc = "idle" /\ caller[d].op = "none" /\ caller'[d] = caller[d]
  BY Alone DEF NorFlags
<1>2. /\ hal # "mapped"
      /\ chip.wip => hal = "error" \/ Awaits(c)
      /\ caller[c].pc \in {"act", "data"} => chip.wel /\ hal # "error"
      /\ caller[c].pc \in Moving => hal = "command"
      /\ caller[c].passed => ~Misfit(c)
      /\ hal = "reset" => ~chip.wip
  BY <1>1 DEF LoneInv, Awaits
<1>3. /\ hal = "command" => caller[c].pc \in Moving
      /\ hal \in {"reset", "ready", "command", "mapped", "error"}
      /\ \A d \in Clients \ {c} : ~caller[d].passed
  BY <1>1 DEF Control, NeverLeftAnnounced, Moving, Transferring, Commanding, NorTypes, CallInv, Working
<1>4. caller \in [Clients -> CallStates]
  BY DEF Control, NorTypes
<1>5. \A d, e \in Clients : ~At(d, "idle")' /\ ~At(e, "idle")' => d = e
  BY <1>1 DEF At
<1>6. ~MapMemory(c)
  BY <1>2, <1>3 DEF MapMemory, At, Misfit, Transferring, Commanding, Moving
<1>7. ASSUME ~Admit(c) PROVE caller'[c].passed = FALSE
  BY <1>4, <1>6, <1>7 DEF CallStates, NorCall, CallInit, CallRead, CallWrite, CallErase, CallWipe, CallMap,
     Begin, NorRun, SetUp, AskTable, ReadTable, WriteEnable, AskStatus, ReadStatus, AskProgram,
     ProgramPage, EraseSector, AskPage, LookAtPage, Return, Fail, Go, GoOn, Poll, NextPage, AtRest
<1>8. SUFFICES /\ hal' # "mapped"
               /\ caller'[c].pc \in Moving => hal' = "command"
               /\ Admit(c) => ~Misfit(c)'
               /\ chip'.wip => hal' = "error" \/ Awaits(c)'
               /\ caller'[c].pc \in {"act", "data"} => chip'.wel /\ hal' # "error"
  BY <1>1, <1>3, <1>5, <1>7 DEF Moving, Transferring
<1>9. CASE NorCall(c)
  <2>1. UNCHANGED <<hal, chip>> /\ ~Awaits(c) /\ ~Admit(c)
    BY <1>1, <1>9 DEF NorCall, CallInit, CallRead, CallWrite, CallErase, CallWipe, CallMap,
           Begin, Awaits, Admit, Commanding, Transferring
  <2>2. caller'[c].pc \notin {"act", "data"} \cup Moving
    BY <1>4, <1>9 DEF NorCall, CallInit, CallRead, CallWrite, CallErase, CallWipe, CallMap,
           Begin, Moving, Transferring
  <2> QED
    BY <1>2, <2>1, <2>2
<1>10. CASE Admit(c)
  <2>1. UNCHANGED <<hal, chip>> /\ ~Misfit(c)
    BY <1>10 DEF Admit
  <2>2. caller'[c].pc = caller[c].pc /\ caller'[c].want = caller[c].want
    BY <1>4, <1>10 DEF Admit, CallStates
  <2> QED
    BY <1>2, <2>1, <2>2 DEF Misfit, Awaits
<1>11. CASE Fail(c)
  <2>1. chip' = chip /\ caller'[c].pc = "failed" /\ ~Admit(c)
    BY <1>4, <1>11 DEF Fail, Go, CallStates, Admit, Transferring, Commanding
  <2>2. hal' # "mapped"
    BY <1>2, <1>11 DEF Fail
  <2>3. chip'.wip => hal' = "error"
    BY <1>2, <1>3, <1>11, <2>1 DEF Fail, Misfit, Awaits, Commanding, Transferring, Moving
  <2> QED
    BY <2>1, <2>2, <2>3 DEF Moving, Transferring
<1>12. CASE SetUp(c) \/ Return(c)
  <2>1. chip' = chip /\ ~Awaits(c) /\ ~Admit(c) /\ caller'[c].pc \notin {"act", "data"} \cup Moving
    BY <1>4, <1>12 DEF SetUp, Return, Go, AtRest, Awaits, At, Admit, Moving, Transferring, Commanding, CallStates
  <2>2. hal' # "mapped" /\ (hal = "error" => hal' = "error")
    BY <1>2, <1>12 DEF SetUp, Return
  <2> QED
    BY <1>2, <2>1, <2>2
<1> DEFINE Asks == AskTable(c) \/ AskStatus(c) \/ AskProgram(c) \/ AskPage(c)
<1>13. CASE Asks
  <2>1. /\ UNCHANGED chip /\ hal' = "command" /\ hal = "ready"
        /\ caller[c].pc \in Commanding /\ caller[c].passed
    BY <1>2, <1>13 DEF AskTable, AskStatus, AskProgram, AskPage, Announce, At, Misfit, Commanding
  <2>2. /\ ~Admit(c) /\ caller'[c].want = caller[c].want
        /\ caller'[c].pc = "polled" <=> caller[c].pc = "poll"
        /\ caller'[c].pc = "data" => caller[c].pc = "act"
        /\ caller'[c].pc # "act"
    BY <1>4, <1>13, <2>1 DEF AskTable, AskStatus, AskProgram, AskPage, Go, CallStates, At, Admit
  <2> QED
    BY <1>2, <2>1, <2>2 DEF Awaits, Commanding
<1>14. CASE WriteEnable(c)
  <2>1. /\ caller'[c].pc = "poll" /\ ~Awaits(c) /\ hal' = hal /\ hal = "ready" /\ ~Admit(c)
    BY <1>2, <1>4, <1>14 DEF WriteEnable, Poll, Order, Awaits, At, Misfit, Commanding, Admit, CallStates
  <2>2. chip' = [chip EXCEPT !.wel = chip.wel \/ ~chip.wip]
    BY <1>14 DEF WriteEnable
  <2>3. chip'.wip = chip.wip
    BY <2>2 DEF NorFlags
  <2> QED
    BY <1>2, <2>1, <2>3 DEF Moving, Transferring
<1> DEFINE Moves == ReadTable(c) \/ ReadStatus(c) \/ ProgramPage(c) \/ LookAtPage(c)
<1>15. ASSUME Moves
       PROVE  hal' = "ready" /\ hal = "command" /\ ~Admit(c) /\ caller'[c].pc \notin Moving
  BY <1>2, <1>4, <1>15 DEF ReadTable, ReadStatus, ProgramPage, LookAtPage, Transfer, At, Misfit, Moving,
     Transferring, Commanding, Admit, Go, GoOn, Poll, NextPage, CallStates
<1>16. CASE ReadTable(c)
  <2>1. UNCHANGED chip /\ caller[c].pc = "table" /\ caller'[c].pc \in {"ok", "failed"}
    BY <1>4, <1>16 DEF ReadTable, At, Go, CallStates
  <2> QED
    BY <1>2, <1>15, <1>16, <2>1 DEF Awaits
<1>17. CASE ReadStatus(c)
  <2>1. UNCHANGED chip /\ caller[c].pc = "polled"
    BY <1>17 DEF ReadStatus, At
  <2>2. CASE caller[c].want = "wel" /\ chip.wel /\ Go(c, "act")
    BY <1>2, <1>15, <1>17, <2>1, <2>2 DEF Awaits
  <2>3. CASE ~chip.wip /\ NextPage(c)
    <3>1. caller'[c].pc \notin {"act", "data"}
      BY <1>4, <2>3 DEF NextPage, GoOn, CallStates
    <3> QED
      BY <1>15, <1>17, <2>1, <2>3, <3>1
  <2>4. CASE Go(c, "poll")
    <3>1. caller'[c].pc = "poll" /\ caller'[c].want = caller[c].want
      BY <1>4, <2>4 DEF Go, CallStates
    <3> QED
      BY <1>2, <1>15, <1>17, <2>1, <3>1 DEF Awaits
  <2> QED
    BY <1>1, <1>17, <2>2, <2>3, <2>4 DEF ReadStatus
<1>18. CASE ProgramPage(c)
  <2>1. caller'[c].pc = "poll" /\ caller'[c].want = "ready"
    BY <1>4, <1>18 DEF ProgramPage, Poll, CallStates
  <2> QED
    BY <1>15, <1>18, <2>1 DEF Awaits
<1>19. CASE EraseSector(c)
  <2>1. caller'[c].pc = "poll" /\ caller'[c].want = "ready" /\ ~Admit(c) /\ hal' = hal /\ hal = "ready"
    BY <1>2, <1>4, <1>19 DEF EraseSector, Order, Poll, CallStates, Admit, At, Misfit, Commanding
  <2> QED
    BY <2>1 DEF Awaits, Moving, Transferring
<1>20. CASE LookAtPage(c)
  <2>1. UNCHANGED chip /\ caller[c].pc = "looked"
    BY <1>20 DEF LookAtPage, At
  <2>2. caller'[c].pc \notin {"act", "data"}
    BY <1>4, <1>20 DEF LookAtPage, Go, GoOn, CallStates
  <2> QED
    BY <1>2, <1>15, <1>20, <2>1, <2>2 DEF Awaits
<1> QED
  BY <1>6, <1>9, <1>10, <1>11, <1>12, <1>13, <1>14, <1>16, <1>17, <1>18, <1>19, <1>20 DEF NorRun

LEMMA NorNextLone ==
    NorFlags /\ Control /\ LoneInv /\ [NorNext]_norVars => LoneInv'
<1> SUFFICES ASSUME NorFlags, Control, LoneInv, [NorNext]_norVars PROVE LoneInv'
  OBVIOUS
<1>1. hal' = "reset" => ~chip'.wip /\ \A c \in Clients : ~caller'[c].passed
  BY NorNextReset DEF LoneInv, Control
<1>2. CASE Complete
  <2>1. chip'.wip = FALSE /\ chip.wip /\ UNCHANGED <<hal, caller, overlapped>>
    BY <1>2 DEF Complete
  <2>2. ASSUME ~overlapped, NEW c \in Clients PROVE caller[c].pc \notin {"act", "data"}
    <3>1. chip.wip => hal = "error" \/ \E d \in Clients : Awaits(d)
      BY <2>2 DEF LoneInv
    <3>2. caller[c].pc \in {"act", "data"} => hal # "error"
      BY <2>2 DEF LoneInv
    <3>3. ASSUME NEW d \in Clients, Awaits(d), caller[c].pc \in {"act", "data"} PROVE FALSE
      BY <2>2, <3>3 DEF LoneInv, Awaits, At
    <3> QED
      BY <2>1, <3>1, <3>2, <3>3
  <2> QED
    BY <2>1, <2>2 DEF LoneInv, At, Awaits, Misfit
<1>3. ASSUME NEW c \in Clients, NorCall(c) \/ NorRun(c) \/ Fail(c) PROVE LoneInv'
  BY <1>1, <1>3, NorStepLone DEF LoneInv
<1>4. CASE UNCHANGED norVars
  BY <1>4 DEF norVars, LoneInv, At, Awaits, Misfit
<1> QED
  BY <1>2, <1>3, <1>4 DEF NorNext

-----------------------------------------------------------------------------
(* What a call has done. *)

DoneBy(c) == WriteSoFar(c) /\ EraseSoFar(c) /\ WipeSoFar(c)

LEMMA NorCallDone ==
    ASSUME NorFlags, Control, LoneInv, NEW c \in Clients, NorCall(c), ~overlapped'
    PROVE  DoneBy(c)'
<1>1. /\ ~overlapped /\ caller[c].pc = "idle"
  BY Alone DEF NorFlags
<1>2. caller \in [Clients -> CallStates]
  BY DEF Control, NorTypes
<1>3. PICK op, first, end, pc :
          /\ Begin(c, op, first, end, pc) /\ first \in Nat
          /\ pc \in {"ok", "failed", "setup", "look", "enable", "map"}
          /\ op \in {"write", "erase"} => pc # "ok"
          /\ op = "wipe" => first = 0
          /\ op = "wipe" /\ pc = "ok" => ~driver.known /\ UNCHANGED driver
  <2>1. CASE CallInit(c)
    BY <2>1 DEF CallInit
  <2>2. CASE CallRead(c)
    BY <2>2 DEF CallRead, Pages
  <2>3. CASE CallWrite(c)
    BY <2>3 DEF CallWrite, Pages
  <2>4. CASE CallErase(c)
    BY <2>4, SectorStart DEF CallErase, Pages
  <2>5. CASE CallWipe(c)
    BY <2>5 DEF CallWipe
  <2>6. CASE CallMap(c)
    BY <2>6 DEF CallMap
  <2> QED
    BY <2>1, <2>2, <2>3, <2>4, <2>5, <2>6 DEF NorCall
<1>4. data' = data /\ data \in [Pages -> Contents]
  BY <1>3 DEF Begin, Control, NorTypes
<1>5. /\ caller'[c].op = op /\ caller'[c].pc = pc /\ caller'[c].first = first
      /\ caller'[c].page = first /\ caller'[c].want = "wel"
      /\ caller'[c].before = data
  BY <1>1, <1>2, <1>3 DEF Begin
<1>6. \A p \in Pages : p \in Nat /\ p \notin first..(first - 1)
  BY <1>3 DEF Pages
<1>7. WriteSoFar(c)'
  BY <1>3, <1>4, <1>5, <1>6 DEF WriteSoFar, Awaits
<1>8. EraseSoFar(c)'
  BY <1>3, <1>4, <1>5 DEF EraseSoFar, Awaits
<1>9. WipeSoFar(c)'
  BY <1>3, <1>4, <1>5, <1>6 DEF WipeSoFar, Awaits
<1> QED
  BY <1>7, <1>8, <1>9 DEF DoneBy

(* Steps that change neither the pages nor what the call has counted.      *)
LEMMA NorKeepDone ==
    ASSUME Control, NEW c \in Clients, DoneBy(c), UNCHANGED data,
           \/ driver'.known = driver.known \/ caller[c].op \notin {"erase", "wipe"},
           caller'[c].op = caller[c].op, caller'[c].first = caller[c].first,
           caller'[c].page = caller[c].page, caller'[c].before = caller[c].before,
           Awaits(c)' = Awaits(c), Working(c), Working(c)'
    PROVE  DoneBy(c)'
<1>1. caller'[c].pc \notin {"ok", "failed"}
  BY DEF Working, Commanding, Transferring
<1> QED
  BY <1>1 DEF DoneBy, WriteSoFar, EraseSoFar, WipeSoFar

LEMMA NorNextPageDone ==
    ASSUME NorFlags, Control, NEW c \in Clients, DoneBy(c), NextPage(c), UNCHANGED <<data, driver>>,
           Awaits(c)
    PROVE  DoneBy(c)'
<1> DEFINE q == caller[c]
           next == IF q.op = "wipe" THEN (SectorOf(q.page) + 1) * PerSector ELSE q.page + 1
<1>1. caller \in [Clients -> CallStates]
  BY DEF Control, NorTypes
<1>2. Working(c) /\ q.op \in {"write", "erase", "wipe"} /\ q.page < q.end /\ q.first <= q.page
      /\ q.end <= Sectors * PerSector /\ (q.op = "wipe" => q.end = Sectors * PerSector)
      /\ (q.op = "erase" => q.end = q.first + 1 /\ q.page = q.first)
  <2>1. Working(c)
    BY DEF Awaits, Working, Commanding, Transferring
  <2> QED
    BY <2>1 DEF Control, CallInv, Awaits
<1>3. PICK pc \in {"ok", "look", "enable"} :
          /\ caller' = [caller EXCEPT ![c].page = next, ![c].pc = pc, ![c].passed = FALSE]
          /\ pc = "ok" <=> next = q.end
  BY DEF NextPage, GoOn
<1>4. /\ caller'[c].op = q.op /\ caller'[c].pc = pc /\ caller'[c].first = q.first
      /\ caller'[c].page = next /\ caller'[c].before = q.before
      /\ ~Awaits(c)'
  BY <1>1, <1>3 DEF Awaits, CallStates
<1>5. WriteSoFar(c)'
  <2>1. SUFFICES ASSUME q.op = "write", NEW p \in Pages
                 PROVE  data'[p] = IF p \in q.first..(caller'[c].page - 1)
                                   THEN Programmed(q.before[p], c) ELSE q.before[p]
    BY <1>4 DEF WriteSoFar
  <2>2. next = q.page + 1 /\ q.page \in Nat /\ q.first \in Nat /\ p \in Nat
    BY <1>1, <2>1 DEF Pages, CallStates
  <2>3. p \in q.first..(next - 1) <=> p \in q.first..(q.page - 1) \/ p = q.page
    BY <1>2, <2>2
  <2> QED
    BY <1>2, <1>4, <2>1, <2>3 DEF DoneBy, WriteSoFar
<1>6. EraseSoFar(c)'
  <2>1. q.op = "erase" => pc = "ok"
    BY <1>1, <1>2, <1>3 DEF CallStates
  <2> QED
    BY <1>4, <2>1 DEF DoneBy, EraseSoFar, Working, Commanding, Transferring
<1>7. WipeSoFar(c)'
  <2>1. SUFFICES ASSUME q.op = "wipe", driver.known
                 PROVE  /\ \A p \in Pages : p < next => data[p] = "blank"
                        /\ pc = "ok" => \A p \in Pages : data[p] = "blank"
    BY <1>4 DEF WipeSoFar
  <2>2. \A p \in Pages : p < next => data[p] = "blank"
    BY <2>1 DEF DoneBy, WipeSoFar
  <2>3. \A p \in Pages : p < Sectors * PerSector
    BY ProductPositive DEF Pages
  <2> QED
    BY <1>2, <1>3, <2>1, <2>2, <2>3
<1> QED
  BY <1>5, <1>6, <1>7 DEF DoneBy

LEMMA NorProgramDone ==
    ASSUME NorFlags, Control, NEW c \in Clients, DoneBy(c), ProgramPage(c), chip.wel, ~chip.wip,
           ~overlapped
    PROVE  DoneBy(c)'
<1> DEFINE q == caller[c]
<1>1. caller \in [Clients -> CallStates]
      /\ data \in [Pages -> Contents]
  BY DEF Control, NorTypes
<1>2. Working(c) /\ ~Awaits(c) /\ q.op = "write" /\ q.first <= q.page
      /\ q.page < q.end /\ q.end <= Sectors * PerSector
  <2>1. q.pc = "data" /\ Working(c)
    BY DEF ProgramPage, At, Working, Transferring
  <2> QED
    BY <2>1 DEF Control, CallInv, Awaits
<1>3. data' = [data EXCEPT ![q.page] = Programmed(data[q.page], c)]
  BY DEF ProgramPage, Alter
<1>4. /\ caller'[c].op = q.op /\ caller'[c].pc = "poll" /\ caller'[c].first = q.first
      /\ caller'[c].page = q.page /\ caller'[c].before = q.before /\ Awaits(c)'
  BY <1>1 DEF ProgramPage, Poll, Awaits, CallStates
<1>5. SUFFICES ASSUME NEW p \in Pages
               PROVE  data'[p] = IF p \in q.first..(q.page - 1) \/ p = q.page
                                 THEN Programmed(q.before[p], c) ELSE q.before[p]
  BY <1>2, <1>4 DEF DoneBy, WriteSoFar, EraseSoFar, WipeSoFar
<1>6. data[p] = IF p \in q.first..(q.page - 1) THEN Programmed(q.before[p], c) ELSE q.before[p]
  BY <1>2 DEF DoneBy, WriteSoFar
<1>7. q.page \notin q.first..(q.page - 1)
  BY <1>1 DEF CallStates
<1> QED
  BY <1>1, <1>3, <1>6, <1>7

LEMMA NorEraseDone ==
    ASSUME NorFlags, Control, NEW c \in Clients, DoneBy(c), EraseSector(c), chip.wel, ~chip.wip,
           ~overlapped
    PROVE  DoneBy(c)'
<1> DEFINE q == caller[c]
<1>1. caller \in [Clients -> CallStates]
      /\ data \in [Pages -> Contents]
  BY DEF Control, NorTypes
<1>2. Working(c) /\ ~Awaits(c) /\ q.op \in {"erase", "wipe"} /\ q.page < q.end
      /\ q.end <= Sectors * PerSector /\ (q.op = "erase" => q.page = q.first)
  <2>1. q.pc = "act" /\ Working(c) /\ q.op \in {"erase", "wipe"}
    BY DEF EraseSector, At, Working, Commanding
  <2> QED
    BY <2>1 DEF Control, CallInv, Awaits
<1>3. UNCHANGED driver /\ (driver.known => data' = Erased(data, SectorOf(q.page)))
  BY DEF EraseSector, Alter
<1>4. /\ caller'[c].op = q.op /\ caller'[c].pc = "poll" /\ caller'[c].first = q.first
      /\ caller'[c].page = q.page /\ caller'[c].before = q.before /\ Awaits(c)'
  BY <1>1 DEF EraseSector, Poll, Awaits, CallStates
<1>5. q.op = "erase" /\ driver.known => data' = Erased(q.before, SectorOf(q.first))
  BY <1>2, <1>3 DEF DoneBy, EraseSoFar
<1>6. ASSUME q.op = "wipe", driver.known
      PROVE  /\ \A p \in Pages : p < q.page => data'[p] = "blank"
             /\ \A p \in Pages : p < (SectorOf(q.page) + 1) * PerSector => data'[p] = "blank"
  <2>1. q.page \in Pages
    BY <1>1, <1>2, ProductPositive DEF CallStates, Pages
  <2>2. \A p \in Pages : p < q.page => data[p] = "blank"
    BY <1>2, <1>6 DEF DoneBy, WipeSoFar
  <2>3. \A p \in Pages : p < q.page => data'[p] = "blank"
    BY <1>3, <1>6, <2>2 DEF Erased
  <2>4. ASSUME NEW p \in Pages, ~(p < q.page), p < (SectorOf(q.page) + 1) * PerSector
        PROVE  data'[p] = "blank"
    <3>1. q.page <= p
      BY <2>1, <2>4, ProductPositive DEF Pages
    <3>2. SectorOf(p) = SectorOf(q.page)
      BY <2>1, <2>4, <3>1, SameSector
    <3> QED
      BY <1>3, <1>6, <3>2 DEF Erased
  <2> QED
    BY <2>3, <2>4
<1> QED
  BY <1>2, <1>3, <1>4, <1>5, <1>6 DEF DoneBy, WriteSoFar, EraseSoFar, WipeSoFar

LEMMA NorLookDone ==
    ASSUME NorFlags, Control, NEW c \in Clients, DoneBy(c), LookAtPage(c), ~chip.wip, ~overlapped
    PROVE  DoneBy(c)'
<1> DEFINE q == caller[c]
<1>1. caller \in [Clients -> CallStates]
  BY DEF Control, NorTypes
<1>2. Working(c) /\ ~Awaits(c) /\ q.op \in {"read", "wipe"} /\ q.page < q.end
      /\ (q.op = "wipe" => q.end = Sectors * PerSector)
  <2>1. q.pc = "looked" /\ Working(c)
    BY DEF LookAtPage, At, Working, Transferring
  <2> QED
    BY <2>1 DEF Control, CallInv, Awaits
<1>3. UNCHANGED <<driver, data>>
  BY DEF LookAtPage
<1>4. CASE Go(c, "enable")
  <2>1. /\ caller'[c].op = q.op /\ caller'[c].first = q.first /\ caller'[c].page = q.page
        /\ caller'[c].before = q.before /\ caller'[c].pc = "enable"
    BY <1>1, <1>4 DEF Go, CallStates
  <2>2. Awaits(c)' = Awaits(c) /\ Working(c)'
    BY <1>2, <2>1 DEF Awaits, Working, Commanding
  <2> QED
    BY <1>2, <1>3, <2>1, <2>2, NorKeepDone
<1>5. CASE ~Go(c, "enable")
  <2>1. /\ GoOn(c, q.page + 1, IF q.page + 1 = q.end THEN "ok" ELSE "look")
        /\ q.op = "wipe" => data[q.page] = "blank"
    BY <1>5 DEF LookAtPage
  <2>2. /\ caller'[c].op = q.op /\ caller'[c].page = q.page + 1 /\ ~Awaits(c)'
        /\ caller'[c].pc = IF q.page + 1 = q.end THEN "ok" ELSE "look"
    BY <1>1, <2>1 DEF GoOn, Awaits, CallStates
  <2>3. ASSUME q.op = "wipe", driver.known
        PROVE  \A p \in Pages : p < q.page + 1 => data[p] = "blank"
    <3>1. \A p \in Pages : p < q.page => data[p] = "blank"
      BY <1>2, <2>3 DEF DoneBy, WipeSoFar
    <3>2. \A p \in Pages : p < q.page + 1 => p < q.page \/ p = q.page
      BY <1>1, ProductPositive DEF Pages, CallStates
    <3> QED
      BY <2>1, <2>3, <3>1, <3>2
  <2>4. \A p \in Pages : p < Sectors * PerSector
    BY ProductPositive DEF Pages
  <2>5. WipeSoFar(c)'
    BY <1>2, <1>3, <2>2, <2>3, <2>4 DEF WipeSoFar
  <2> QED
    BY <1>2, <2>2, <2>5 DEF DoneBy, WriteSoFar, EraseSoFar
<1> QED
  BY <1>4, <1>5

LEMMA NorRunDone ==
    ASSUME NorFlags, Control, LoneInv, ~overlapped, NEW c \in Clients, DoneBy(c),
           NorRun(c) \/ Fail(c), \A d \in Clients \ {c} : caller[d].pc = "idle"
    PROVE  DoneBy(c)'
<1>1. caller \in [Clients -> CallStates]
  BY DEF Control, NorTypes
<1>2. /\ caller[c].pc \in {"setup", "sfdp", "table"} => caller[c].op = "init"
      /\ caller[c].pc = "map" => caller[c].op = "map"
  BY DEF Control, CallInv
<1>3. /\ caller[c].pc \in {"act", "data"} => chip.wel /\ hal # "error"
      /\ caller[c].passed => ~Misfit(c)
      /\ chip.wip => hal = "error" \/ Awaits(c)
  BY DEF LoneInv, Awaits
<1>4. CASE Fail(c)
  <2>1. /\ caller'[c].op = caller[c].op /\ caller'[c].first = caller[c].first
        /\ caller'[c].page = caller[c].page /\ caller'[c].before = caller[c].before
        /\ caller'[c].pc = "failed" /\ UNCHANGED data /\ Working(c)
    BY <1>1, <1>4 DEF Fail, Go, Working, CallStates
  <2>2. WriteSoFar(c)'
    BY <2>1 DEF DoneBy, WriteSoFar, Working, Commanding, Transferring
  <2>3. EraseSoFar(c)' /\ WipeSoFar(c)'
    BY <2>1 DEF EraseSoFar, WipeSoFar, Awaits, Working, Commanding, Transferring
  <2> QED
    BY <2>2, <2>3 DEF DoneBy
<1>5. CASE SetUp(c) \/ AskTable(c) \/ ReadTable(c) \/ MapMemory(c) \/ Return(c)
  <2>1. caller'[c].op \in {"init", "none", "map"}
    BY <1>1, <1>2, <1>5 DEF MapMemory, SetUp, AskTable, ReadTable, Return, Go, At, AtRest, CallStates
  <2> QED
    BY <2>1 DEF DoneBy, WriteSoFar, EraseSoFar, WipeSoFar
<1>6. CASE WriteEnable(c) \/ AskStatus(c) \/ AskProgram(c) \/ AskPage(c)
  <2>1. /\ caller'[c].op = caller[c].op /\ caller'[c].first = caller[c].first
        /\ caller'[c].page = caller[c].page /\ caller'[c].before = caller[c].before
        /\ UNCHANGED <<data, driver>>
    BY <1>1, <1>6 DEF WriteEnable, AskStatus, AskProgram, AskPage, Go, Poll, CallStates
  <2>2. Working(c) /\ Working(c)'
    BY <1>1, <1>6 DEF WriteEnable, AskStatus, AskProgram, AskPage, Go, Poll, At, Working, Commanding, Transferring, CallStates
  <2>3. Awaits(c)' = Awaits(c)
    BY <1>1, <1>6 DEF WriteEnable, AskStatus, AskProgram, AskPage, Go, Poll, At, Awaits, CallStates
  <2> QED
    BY <2>1, <2>2, <2>3, NorKeepDone
<1>7. CASE ReadStatus(c)
  <2>1. UNCHANGED <<data, driver>> /\ caller[c].pc = "polled"
    BY <1>7 DEF ReadStatus, At
  <2>2. CASE caller[c].want = "ready" /\ NextPage(c)
    BY <2>1, <2>2, NorNextPageDone DEF Awaits
  <2>3. CASE (caller[c].want = "wel" /\ Go(c, "act")) \/ Go(c, "poll")
    <3>1. /\ caller'[c].op = caller[c].op /\ caller'[c].first = caller[c].first
          /\ caller'[c].page = caller[c].page /\ caller'[c].before = caller[c].before
          /\ caller'[c].want = caller[c].want /\ caller'[c].pc \in {"act", "poll"}
          /\ caller'[c].pc = "act" => caller[c].want = "wel"
      BY <1>1, <2>3 DEF Go, CallStates
    <3>2. Working(c) /\ Working(c)' /\ Awaits(c)' = Awaits(c)
      BY <2>1, <3>1 DEF Working, Commanding, Transferring, Awaits
    <3> QED
      BY <2>1, <3>1, <3>2, NorKeepDone
  <2> QED
    BY <1>7, <2>2, <2>3 DEF ReadStatus
<1>8. CASE ProgramPage(c)
  <2>1. chip.wel /\ ~chip.wip
    BY <1>3, <1>8 DEF ProgramPage, At, Awaits
  <2> QED
    BY <1>8, <2>1, NorProgramDone
<1>9. CASE EraseSector(c)
  <2>1. chip.wel /\ ~chip.wip
    BY <1>3, <1>9 DEF EraseSector, At, Awaits
  <2> QED
    BY <1>9, <2>1, NorEraseDone
<1>10. CASE LookAtPage(c)
  <2>1. ~chip.wip
    BY <1>3, <1>10 DEF LookAtPage, At, Transfer, Misfit, Transferring, Commanding, Awaits
  <2> QED
    BY <1>10, <2>1, NorLookDone
<1>11. CASE Admit(c)
  <2>1. /\ caller'[c].op = caller[c].op /\ caller'[c].first = caller[c].first
        /\ caller'[c].page = caller[c].page /\ caller'[c].before = caller[c].before
        /\ caller'[c].pc = caller[c].pc /\ caller'[c].want = caller[c].want
        /\ UNCHANGED <<data, driver>>
    BY <1>1, <1>11 DEF Admit, CallStates
  <2>2. Working(c) /\ Working(c)' /\ Awaits(c)' = Awaits(c)
    BY <1>11, <2>1 DEF Admit, Working, Awaits
  <2> QED
    BY <2>1, <2>2, NorKeepDone
<1> QED
  BY <1>4, <1>5, <1>6, <1>7, <1>8, <1>9, <1>10, <1>11 DEF NorRun

LEMMA NorNextDone ==
    NorFlags /\ Control /\ LoneInv /\ DoneInv /\ [NorNext]_norVars => DoneInv'
<1> SUFFICES ASSUME NorFlags, Control, LoneInv, DoneInv, [NorNext]_norVars, ~overlapped'
             PROVE  \A c \in Clients : DoneBy(c)'
  BY DEF DoneInv, DoneBy
<1>1. ASSUME NEW c \in Clients, NorCall(c) \/ NorRun(c) \/ Fail(c) PROVE \A d \in Clients : DoneBy(d)'
  <2>1. /\ ~overlapped
        /\ \A d \in Clients \ {c} :
               caller[d].pc = "idle" /\ caller[d].op = "none" /\ caller'[d] = caller[d]
    BY <1>1, Alone DEF NorFlags
  <2>2. \A d \in Clients \ {c} : DoneBy(d)'
    BY <2>1 DEF DoneBy, WriteSoFar, EraseSoFar, WipeSoFar
  <2>3. DoneBy(c)
    BY <2>1 DEF DoneInv, DoneBy
  <2>4. DoneBy(c)'
    BY <1>1, <2>1, <2>3, NorCallDone, NorRunDone
  <2> QED
    BY <2>2, <2>4
<1>2. CASE Complete \/ UNCHANGED norVars
  BY <1>2 DEF Complete, norVars, DoneInv, DoneBy, WriteSoFar, EraseSoFar, WipeSoFar, Awaits, Working
<1> QED
  BY <1>1, <1>2 DEF NorNext

-----------------------------------------------------------------------------
LEMMA NorInvariant == NorSpec => []NorInv
<1>1. NorInv /\ [NorNext]_norVars => Control'
  <2> SUFFICES ASSUME NorInv, [NorNext]_norVars PROVE Control'
    OBVIOUS
  <2>1. Control /\ data' \in [Pages -> Contents]
    BY NorNextData DEF NorInv, Control
  <2>2. CASE Complete \/ UNCHANGED norVars
    BY <2>1, <2>2 DEF Complete, norVars, Control, NorTypes, CallInv, NeverLeftAnnounced, Working
  <2> QED
    BY <2>1, <2>2, NorCallControl, NorRunControl DEF NorNext
<1>2. NorInv /\ [NorNext]_norVars => NorInv'
  BY <1>1, NorNextFlags, NorNextLone, NorNextDone DEF NorInv, Control
<1> QED
  BY <1>2, NorInitInv, PTL DEF NorSpec

(* The state of the driver, the HAL's handle and the chip has its types,   *)
(* and a call stays within the pages it was called for.                    *)
THEOREM NorTypeCorrect == NorSpec => []NorTypeOK
<1>1. NorInv => NorTypeOK
  BY DEF NorInv, NorFlags, NorTypes, CallInv, NorTypeOK, CallStates, Places, Ops, Working,
         Commanding, Transferring
<1> QED
  BY <1>1, NorInvariant, PTL

(* However the calls interleave, and although one may pass the test of the *)
(* HAL while another is past it: the handle is between a command and its   *)
(* transfer only while some call is still to make, or to be refused, one.  *)
THEOREM HandleCorrect == NorSpec => []NeverLeftAnnounced
<1>1. NorInv => NeverLeftAnnounced
  BY DEF NorInv
<1> QED
  BY <1>1, NorInvariant, PTL

(* As long as no calls overlap, what write(), erase_sector() and           *)
(* erase_chip() report is what they did, and no read meets a busy chip.    *)
THEOREM ReportsCorrect == NorSpec => []ReportsTrue
<1>1. ASSUME NorInv PROVE ReportsTrue
  <2>1. ASSUME ~overlapped, NEW c \in Clients, caller[c].pc = "looked" PROVE ~chip.wip
    <3>1. hal = "command"
      BY <1>1, <2>1 DEF NorInv, LoneInv, Moving, Transferring
    <3>2. chip.wip => \E d \in Clients : Awaits(d)
      BY <1>1, <2>1, <3>1 DEF NorInv, LoneInv
    <3>3. ASSUME NEW d \in Clients, Awaits(d) PROVE FALSE
      BY <1>1, <2>1, <3>3 DEF NorInv, LoneInv, Awaits, At
    <3> QED
      BY <3>2, <3>3
  <2>2. ~overlapped => \A c \in Clients : DoneBy(c)
    BY <1>1 DEF NorInv, DoneInv, DoneBy
  <2>3. ASSUME ~overlapped, NEW c \in Clients, caller[c].op = "erase", caller[c].pc = "ok", driver.known
        PROVE  data = Erased(caller[c].before, SectorOf(caller[c].first))
    BY <2>2, <2>3 DEF DoneBy, EraseSoFar
  <2>4. ASSUME ~overlapped, NEW c \in Clients, caller[c].op = "wipe", caller[c].pc = "ok", driver.known
        PROVE  \A p \in Pages : data[p] = "blank"
    BY <2>2, <2>4 DEF DoneBy, WipeSoFar
  <2>5. ASSUME ~overlapped, NEW c \in Clients, caller[c].op = "write",
               caller[c].pc \in {"ok", "failed"}, NEW p \in Pages
        PROVE  \/ data[p] = IF p \in caller[c].first..(caller[c].page - 1)
                            THEN Programmed(caller[c].before[p], c) ELSE caller[c].before[p]
               \/ /\ caller[c].pc = "failed" /\ p = caller[c].page
                  /\ data[p] = Programmed(caller[c].before[p], c)
    BY <2>2, <2>5 DEF DoneBy, WriteSoFar
  <2> QED
    BY <2>1, <2>3, <2>4, <2>5 DEF ReportsTrue
<1> QED
  BY <1>1, NorInvariant, PTL

(*---------------------- The SD card, and all four ------------------------*)

(* The places of a call. *)
CardPlaces == {"away", "lock", "start", "wait", "done", "unlock", "failed"}

SdFlags == /\ ready \in BOOLEAN /\ late \in BOOLEAN
           /\ complete \in [Kinds -> BOOLEAN] /\ locked \in [Kinds -> BOOLEAN]

SdTypes ==
    /\ card \in {"transfer", "data", "programming"}
    /\ dma \in [by : CardUsers \cup {"nobody"}, kind : Kinds, at : Nat]
    /\ access \in [CardUsers -> [pc : CardPlaces, kind : Kinds,
                                 at : 0..MaxTransfers, moved : BOOLEAN]]
    /\ transfers \in 0..MaxTransfers

(* The calls under way have numbers of their own. *)
Numbered ==
    /\ \A u \in CardUsers : access[u].at <= transfers
    /\ \A u \in CardUsers : ~AtCard(u, "away") => access[u].at > 0
    /\ \A u, v \in CardUsers :
          ~AtCard(u, "away") /\ access[u].at = access[v].at => u = v

(* Who is past the lock of its kind is alone there. *)
PastLock(u) == access[u].pc \in {"start", "wait", "done", "unlock"}
Locking ==
    \A u, v \in CardUsers :
        PastLock(u) => /\ locked[Kind(u)]
                       /\ PastLock(v) /\ Kind(u) = Kind(v) => u = v

(* The handle is busy while the card moves data, and nobody's call has     *)
(* moved anything before it started the transfer.                          *)
HandleInv ==
    /\ card = "data" <=> Busy
    /\ Busy => dma.at > 0
    /\ ~late => \A u \in CardUsers :
                   access[u].pc \in {"lock", "start"} => ~access[u].moved
    /\ ~late /\ Busy => /\ dma.by \in CardUsers /\ Kind(dma.by) = dma.kind
                       /\ ~access[dma.by].moved

SdInv == SdFlags /\ SdTypes /\ Numbered /\ Locking /\ HandleInv /\ DoneMeansMoved

LEMMA SdInitInv == SdInit => SdInv
<1> SUFFICES ASSUME SdInit PROVE SdInv
  OBVIOUS
<1> USE CardAssumption DEF SdInit, Away, NoTransfer, Kinds
<1>1. SdTypes
  BY DEF SdTypes, CardPlaces
<1>5. SdFlags
  BY DEF SdFlags
<1>2. Numbered
  BY DEF Numbered, AtCard
<1>3. Locking /\ HandleInv
  BY DEF Locking, HandleInv, PastLock, Busy
<1>4. DoneMeansMoved
  BY DEF DoneMeansMoved, Busy, AtCard
<1> QED
  BY <1>1, <1>2, <1>3, <1>4, <1>5 DEF SdInv

LEMMA SdNextTypes == SdTypes /\ Numbered /\ [SdNext]_sdVars => SdTypes' /\ Numbered'
<1> SUFFICES ASSUME SdTypes, Numbered, [SdNext]_sdVars PROVE SdTypes' /\ Numbered'
  OBVIOUS
<1> USE CardAssumption DEF SdTypes, Numbered, CardPlaces, Kinds, AtCard, GoAt, Kind, Busy
<1>1. ASSUME NEW u \in CardUsers, CallCard(u) PROVE SdTypes' /\ Numbered'
  BY <1>1 DEF CallCard
<1>2. ASSUME NEW u \in CardUsers, Access(u) PROVE SdTypes' /\ Numbered'
  <2>1. CASE TakeLock(u)
    BY <2>1 DEF TakeLock
  <2>2. CASE StartDma(u)
    BY <2>2 DEF StartDma
  <2>3. CASE Acquire(u) \/ GiveUp(u)
    BY <2>3 DEF Acquire, GiveUp
  <2>4. CASE Unlock(u)
    BY <2>4 DEF Unlock, Away
  <2>5. CASE CallFails(u)
    BY <2>5 DEF CallFails, Away
  <2> QED
    BY <1>2, <2>1, <2>2, <2>3, <2>4, <2>5 DEF Access
<1>3. CASE DataEnd
  <2>1. access' \in [CardUsers -> [pc : CardPlaces, kind : Kinds,
                                  at : 0..MaxTransfers, moved : BOOLEAN]]
    BY <1>3 DEF DataEnd
  <2>2. /\ card' \in {"transfer", "data", "programming"} /\ transfers' = transfers
        /\ dma' \in [by : CardUsers \cup {"nobody"}, kind : Kinds, at : Nat]
    BY <1>3 DEF DataEnd, NoTransfer
  <2>3. \A u \in CardUsers : access'[u].pc = access[u].pc /\ access'[u].at = access[u].at
    BY <1>3 DEF DataEnd
  <2> QED
    BY <2>1, <2>2, <2>3
<1>4. CASE DataError \/ CardProgrammed
  BY <1>4 DEF DataError, CardProgrammed, NoTransfer
<1>5. CASE UNCHANGED sdVars
  BY <1>5 DEF sdVars
<1> QED
  BY <1>1, <1>2, <1>3, <1>4, <1>5 DEF SdNext, Card

LEMMA SdNextFlags == SdFlags /\ [SdNext]_sdVars => SdFlags'
<1> SUFFICES ASSUME SdFlags, [SdNext]_sdVars PROVE SdFlags'
  OBVIOUS
<1> USE DEF SdFlags
<1>1. ready' \in BOOLEAN /\ late' \in BOOLEAN
  BY DEF SdNext, Card, Access, CallCard, TakeLock, StartDma, Acquire, GiveUp,
         Unlock, CallFails, DataEnd, DataError, CardProgrammed, sdVars
<1>2. complete' \in [Kinds -> BOOLEAN]
  BY DEF SdNext, Card, Access, CallCard, TakeLock, StartDma, Acquire, GiveUp,
         Unlock, CallFails, DataEnd, DataError, CardProgrammed, sdVars
<1>3. locked' \in [Kinds -> BOOLEAN]
  BY DEF SdNext, Card, Access, CallCard, TakeLock, StartDma, Acquire, GiveUp,
         Unlock, CallFails, DataEnd, DataError, CardProgrammed, sdVars
<1> QED
  BY <1>1, <1>2, <1>3

LEMMA SdNextLocking == SdFlags /\ SdTypes /\ Locking /\ [SdNext]_sdVars => Locking'
<1> SUFFICES ASSUME SdFlags, SdTypes, Locking, [SdNext]_sdVars PROVE Locking'
  OBVIOUS
<1> USE CardAssumption DEF SdFlags, SdTypes, Locking, PastLock, CardPlaces, AtCard, GoAt, Kind
<1>1. ASSUME NEW u \in CardUsers, CallCard(u) PROVE Locking'
  BY <1>1 DEF CallCard
<1>2. ASSUME NEW u \in CardUsers, Access(u) PROVE Locking'
  <2>1. CASE TakeLock(u)
    BY <2>1 DEF TakeLock
  <2>2. CASE StartDma(u) \/ Acquire(u) \/ GiveUp(u)
    BY <2>2 DEF StartDma, Acquire, GiveUp
  <2>3. CASE Unlock(u) \/ CallFails(u)
    BY <2>3 DEF Unlock, CallFails, Away
  <2> QED
    BY <1>2, <2>1, <2>2, <2>3 DEF Access
<1>3. CASE Card
  BY <1>3 DEF Card, DataEnd, DataError, CardProgrammed
<1>4. CASE UNCHANGED sdVars
  BY <1>4 DEF sdVars
<1> QED
  BY <1>1, <1>2, <1>3, <1>4 DEF SdNext

LEMMA SdNextData == SdInv /\ [SdNext]_sdVars => HandleInv' /\ DoneMeansMoved'
<1> SUFFICES ASSUME SdInv, [SdNext]_sdVars PROVE HandleInv' /\ DoneMeansMoved'
  OBVIOUS
<1> USE CardAssumption DEF SdInv, SdFlags, SdTypes, HandleInv, DoneMeansMoved, CardPlaces, Kinds,
        AtCard, GoAt, Kind, Busy
<1>1. ASSUME NEW u \in CardUsers, CallCard(u) PROVE HandleInv' /\ DoneMeansMoved'
  BY <1>1 DEF CallCard
<1>2. ASSUME NEW u \in CardUsers, TakeLock(u) PROVE HandleInv' /\ DoneMeansMoved'
  BY <1>2 DEF TakeLock
<1>3. ASSUME NEW u \in CardUsers, StartDma(u) PROVE HandleInv' /\ DoneMeansMoved'
  <2>1. CASE GoAt(u, "unlock") /\ UNCHANGED <<card, dma>>
    BY <1>3, <2>1 DEF StartDma
  <2>2. CASE ~Busy /\ dma' = [by |-> u, kind |-> Kind(u), at |-> access[u].at]
    <3>1. /\ UNCHANGED <<complete, late>> /\ card' = "data" /\ access[u].pc = "start"
          /\ access' = [access EXCEPT ![u].pc = "wait"] /\ access[u].at > 0
      BY <1>3, <2>2 DEF StartDma, Numbered, NoTransfer
    <3>2. /\ \A v \in CardUsers : /\ access'[v].kind = access[v].kind
                                  /\ access'[v].at = access[v].at
                                  /\ access'[v].moved = access[v].moved
                                  /\ v # u => access'[v].pc = access[v].pc
          /\ access'[u].pc = "wait"
      BY <3>1
    <3>3. Busy' /\ HandleInv'
      BY <2>2, <3>1, <3>2 DEF NoTransfer
    <3>4. ~late => ~access[u].moved /\ ~complete[Kind(u)]
      BY <3>1 DEF Locking, PastLock
    <3>5. ASSUME ~late, NEW k \in Kinds
          PROVE  complete[k] <=> \E v \in CardUsers :
                     access'[v].pc = "wait" /\ access'[v].kind = k /\ access'[v].moved
      BY <3>1, <3>2, <3>4, <3>5
    <3> QED
      BY <2>2, <3>1, <3>2, <3>3, <3>5
  <2> QED
    BY <1>3, <2>1, <2>2 DEF StartDma
<1>4. ASSUME NEW u \in CardUsers, Acquire(u) PROVE HandleInv' /\ DoneMeansMoved'
  <2>1. /\ UNCHANGED <<card, dma, late>> /\ access[u].pc = "wait" /\ complete[Kind(u)]
        /\ access' = [access EXCEPT ![u].pc = "done"]
        /\ complete' = [complete EXCEPT ![Kind(u)] = FALSE]
    BY <1>4 DEF Acquire
  <2>2. /\ \A v \in CardUsers : /\ access'[v].kind = access[v].kind
                                /\ access'[v].at = access[v].at
                                /\ access'[v].moved = access[v].moved
                                /\ v # u => access'[v].pc = access[v].pc
        /\ access'[u].pc = "done"
    BY <2>1
  <2>3. ~late => access[u].moved
    BY <2>1 DEF Locking, PastLock
  <2>4. ~late => /\ Busy => dma.by # u
                 /\ \A v \in CardUsers : v # u /\ access[v].pc = "wait" => Kind(v) # Kind(u)
    BY <2>1, <2>3 DEF Locking, PastLock
  <2> QED
    BY <2>1, <2>2, <2>3, <2>4
<1>5. ASSUME NEW u \in CardUsers, GiveUp(u) PROVE HandleInv' /\ DoneMeansMoved'
  BY <1>5 DEF GiveUp, Locking, PastLock, Numbered
<1>6. ASSUME NEW u \in CardUsers, Unlock(u) \/ CallFails(u) PROVE HandleInv' /\ DoneMeansMoved'
  BY <1>6 DEF Unlock, CallFails, Away
<1>7. CASE DataEnd
  <2>1. /\ UNCHANGED late /\ card' # "data" /\ Busy /\ ~Busy'
        /\ complete' = [complete EXCEPT ![dma.kind] = TRUE]
    BY <1>7 DEF DataEnd
  <2>2. \A u \in CardUsers :
            access'[u].pc = access[u].pc /\ access'[u].kind = access[u].kind
    BY <1>7 DEF DataEnd
  <2>3. \A u \in CardUsers : access'[u].moved = (access[u].moved \/ dma.at = access[u].at)
    BY <1>7 DEF DataEnd
  <2>4. HandleInv'
    BY <2>1, <2>2, <2>3 DEF Numbered
  <2>5. ASSUME ~late
        PROVE  /\ dma.by \in CardUsers /\ Kind(dma.by) = dma.kind /\ AtCard(dma.by, "wait")
               /\ access'[dma.by].moved
               /\ \A u \in CardUsers \ {dma.by} : access'[u].moved = access[u].moved
    <3>1. /\ dma.by \in CardUsers /\ Kind(dma.by) = dma.kind /\ AtCard(dma.by, "wait")
          /\ access[dma.by].at = dma.at
      BY <2>1, <2>5
    <3>2. \A u \in CardUsers \ {dma.by} : dma.at # access[u].at
      BY <3>1 DEF Numbered
    <3>3. access'[dma.by].moved
      BY <2>3, <3>1
    <3>4. \A u \in CardUsers \ {dma.by} : access'[u].moved = access[u].moved
      BY <2>3, <3>2
    <3> QED
      BY <3>1, <3>3, <3>4
  <2> QED
    BY <2>1, <2>2, <2>4, <2>5
<1>8. CASE DataError \/ CardProgrammed
  BY <1>8 DEF DataError, CardProgrammed, NoTransfer
<1>9. CASE UNCHANGED sdVars
  BY <1>9 DEF sdVars
<1> QED
  BY <1>1, <1>2, <1>3, <1>4, <1>5, <1>6, <1>7, <1>8, <1>9 DEF SdNext, Access, Card

LEMMA SdInvariant == SdSpec => []SdInv
<1>1. SdInv /\ [SdNext]_sdVars => SdInv'
  BY SdNextFlags, SdNextTypes, SdNextLocking, SdNextData DEF SdInv
<1> QED
  BY <1>1, SdInitInv, PTL DEF SdSpec

(* The state of the driver has its types. *)
THEOREM SdTypeCorrect == SdSpec => []SdTypeOK
<1>1. SdInv => SdTypeOK
  BY DEF SdInv, SdFlags, SdTypes, HandleInv, SdTypeOK, CardPlaces
<1> QED
  BY <1>1, SdInvariant, PTL

(* A call of read_blocks() or write_blocks() that reports success has      *)
(* moved its own block and not another's, as long as the card never        *)
(* outlasts the time of a call: then an end of transfer that comes late is *)
(* taken for the next one's.                                               *)
THEOREM DoneCorrect == SdSpec => []DoneMeansMoved
<1>1. SdInv => DoneMeansMoved
  BY DEF SdInv
<1> QED
  BY <1>1, SdInvariant, PTL

-----------------------------------------------------------------------------
(* Every step of the composition is a step of the part that moves, or      *)
(* leaves the part alone.                                                  *)
LEMMA PartsStep ==
    [Next]_storageVars =>
        /\ [LfsNext]_lfsVars /\ [NorNext]_norVars
        /\ [FatNext]_fatVars /\ [SdNext]_sdVars
BY DEF Next, storageVars

(* The composition behaves as each of its four parts.                      *)
THEOREM StorageParts == Spec => LfsSpec /\ NorSpec /\ FatSpec /\ SdSpec
<1>1. Init => LfsInit /\ NorInit /\ FatInit /\ SdInit
  BY DEF Init
<1> QED
  BY <1>1, PartsStep, PTL DEF Spec, LfsSpec, NorSpec, FatSpec, SdSpec

(* The variables of the four keep their types in the composition.          *)
THEOREM StorageTypeCorrect == Spec => []StorageTypeOK
<1>1. LfsTypeOK /\ NorTypeOK /\ FatTypeOK /\ SdTypeOK => StorageTypeOK
  BY DEF StorageTypeOK
<1> QED
  BY <1>1, StorageParts, LfsTypeCorrect, NorTypeCorrect, FatTypeCorrect, SdTypeCorrect, PTL

(* The flags of both file systems that say mounted tell the truth while    *)
(* nothing runs: m_mounted of littlefs::filesystem, and what f_mount() has *)
(* told the FAT volume.                                                    *)
THEOREM FlagsCorrect == Spec => []FlagsTellTruth
<1>1. FlagTellsTruth /\ VolumeBehindFlag => FlagsTellTruth
  BY DEF FlagsTellTruth
<1> QED
  BY <1>1, StorageParts, FlagCorrect, VolumeCorrect, PTL
=============================================================================

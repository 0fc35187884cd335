------------------------------ MODULE LittleFs ------------------------------
(***************************************************************************)
(* The wrapper around the littlefs library: littlefs::filesystem, its file *)
(* handles and its users.  The filesystem task mounts the file system when *)
(* the firmware starts; the shell formats it (littlefs-format) and writes  *)
(* and reads a file (littlefs-test).  They share the flag m_mounted, the   *)
(* pointer g_littlefs_context and, as the cache buffers are static, every  *)
(* call of the library.  Power may fail at any time.                       *)
(*                                                                         *)
(* Every mount() allocates a context; the number of the last one is        *)
(* Len(contexts), 0 the null pointer.                                      *)
(***************************************************************************)
EXTENDS Integers, Sequences, FiniteSets

CONSTANTS Handles,       \* k_max_file_handles
          MaxCommands,   \* bound: the commands the shell is given
          MaxBoots       \* bound: the times the firmware starts

ASSUME LittleFsAssumption ==
    Handles \in Nat \ {0} /\ MaxCommands \in Nat /\ MaxBoots \in Nat \ {0}

VARIABLES disk,      \* "blank", "formatted", or "torn": neither
          boots,     \* the number of starts
          mounted,   \* m_mounted
          contexts,  \* the state of each context allocated since the start
          files,     \* the context each open handle was opened in, or 0
          user,      \* what the two tasks do
          commands,  \* the number of commands given
          story      \* history since the start: raced: a command was given
                     \* while the filesystem task was mounting; stuck: a call
                     \* of lfs_unmount() failed; wild: the library was used
                     \* by both tasks at once, on a context that was not in a
                     \* state for it, or on a file of another context;
                     \* faults: the device failed; tests: the runs of
                     \* littlefs-test with the file system mounted

lfsVars == <<disk, boots, mounted, contexts, files, user, commands, story>>

Users   == {"filesystem", "shell"}
Context == Len(contexts)
OpenFiles   == {h \in DOMAIN files : files[h] # 0}
ClosedFiles == DOMAIN files \ OpenFiles

Resting == [pc |-> "idle", ctx |-> 0, was |-> FALSE, file |-> 1, told |-> FALSE]

(* The firmware starts, and the filesystem task mounts at once.            *)
Start == [files |-> [h \in 1..Handles |-> 0],
          user  |-> [t \in Users |-> IF t = "shell" THEN Resting
                                     ELSE [Resting EXCEPT !.pc = "mount"]],
          story |-> [raced |-> FALSE, stuck |-> FALSE, wild |-> FALSE,
                     faults |-> FALSE, tests |-> 0]]

LfsInit == /\ mounted = FALSE /\ contexts = <<>>
           /\ files = Start.files /\ user = Start.user /\ story = Start.story
           /\ disk \in {"blank", "formatted"} /\ boots = 1 /\ commands = 0

(* The power fails and comes back: only the disk remembers. *)
PowerCycle ==
    /\ boots < MaxBoots
    /\ boots' = boots + 1
    /\ mounted' = FALSE /\ contexts' = <<>>
    /\ files' = Start.files /\ user' = Start.user /\ story' = Start.story
    /\ UNCHANGED <<disk, commands>>

-----------------------------------------------------------------------------
In(t, pc) == user[t].pc = pc
To(t, pc) == user' = [user EXCEPT ![t].pc = pc]
Answer(t, told) == user' = [user EXCEPT ![t].pc = "idle", ![t].told = told]

(* A call of the library takes time; it works on the context that was the  *)
(* last one when it began.                                                 *)
Inside == {"mounting", "unmounting", "formatting", "creating", "writing",
           "closing", "reopening", "reading"}

Enter(t, pc, file, proper) ==
    /\ user' = [user EXCEPT ![t].pc = pc, ![t].ctx = Context, ![t].file = file]
    /\ story' = [story EXCEPT !.wild = \/ @ \/ ~proper
                                       \/ \E u \in Users \ {t} : user[u].pc \in Inside]

ContextIs(states) == Context # 0 /\ contexts[Context] \in states
Leaves(t, state) == contexts' = [contexts EXCEPT ![user[t].ctx] = state]

(* The device fails under a call. *)
Fault == story' = [story EXCEPT !.faults = TRUE]

-----------------------------------------------------------------------------
(* mount() *)

ClaimMount(t) ==
    /\ In(t, "mount")
    /\ mounted' = TRUE
    /\ IF mounted THEN Answer(t, TRUE) ELSE To(t, "init")
    /\ UNCHANGED <<disk, boots, contexts, files, commands, story>>

InitDisk(t) ==
    /\ In(t, "init")
    /\ \/ To(t, "allocate") /\ UNCHANGED <<mounted, story>>
       \/ Answer(t, FALSE) /\ mounted' = FALSE /\ Fault
    /\ UNCHANGED <<disk, boots, contexts, files, commands>>

NewContext(t) ==
    /\ In(t, "allocate")
    /\ contexts' = Append(contexts, "fresh")
    /\ To(t, "lfs_mount")
    /\ UNCHANGED <<disk, boots, mounted, files, commands, story>>

EnterMount(t) ==
    /\ In(t, "lfs_mount") /\ Enter(t, "mounting", 1, ContextIs({"fresh"}))
    /\ UNCHANGED <<disk, boots, mounted, contexts, files, commands>>

(* Mutant of LeaveMount: a failure leaves the flag set. *)
LeaveMountFlagged(t) ==
    /\ In(t, "mounting")
    /\ \/ /\ disk = "formatted"
          /\ Leaves(t, "mounted") /\ Answer(t, TRUE)
          /\ UNCHANGED story
       \/ /\ Leaves(t, "unmounted") /\ Answer(t, FALSE)
          /\ IF disk = "formatted" THEN Fault ELSE UNCHANGED story
    /\ UNCHANGED <<disk, boots, mounted, files, commands>>

LeaveMount(t) ==
    /\ In(t, "mounting")
    /\ \/ /\ disk = "formatted"
          /\ Leaves(t, "mounted") /\ Answer(t, TRUE)
          /\ UNCHANGED <<mounted, story>>
       \/ /\ Leaves(t, "unmounted") /\ mounted' = FALSE /\ Answer(t, FALSE)
          /\ IF disk = "formatted" THEN Fault ELSE UNCHANGED story
    /\ UNCHANGED <<disk, boots, files, commands>>

-----------------------------------------------------------------------------
(* The shell's commands; a command starts when the last one has returned.  *)
Command(pc, was, tests) ==
    /\ In("shell", "idle") /\ commands < MaxCommands
    /\ commands' = commands + 1
    /\ user' = [user EXCEPT !["shell"] = [Resting EXCEPT !.pc = pc, !.was = was]]
    /\ story' = [story EXCEPT !.raced = @ \/ ~In("filesystem", "idle"),
                             !.tests = @ + tests]
    /\ UNCHANGED <<disk, boots, mounted, contexts, files>>

(* Mutant of FormatCommand: formats a mounted file system. *)
FormatMounted == Command(IF Context = 0 THEN "idle" ELSE "erase", mounted, 0)

(* littlefs-format: format() formats only what mount() got far with once. *)
FormatCommand ==
    Command(IF Context = 0 THEN "idle" ELSE IF mounted THEN "unmount" ELSE "erase",
            mounted, 0)

Unmount(t) ==
    /\ In(t, "unmount")
    /\ mounted' = FALSE
    /\ To(t, IF mounted THEN "lfs_unmount" ELSE "erase")
    /\ UNCHANGED <<disk, boots, contexts, files, commands, story>>

EnterUnmount(t) ==
    /\ In(t, "lfs_unmount") /\ Enter(t, "unmounting", 1, ContextIs({"mounted"}))
    /\ UNCHANGED <<disk, boots, mounted, contexts, files, commands>>

(* When the library fails the flag comes back, and unmount() returns true. *)
LeaveUnmount(t) ==
    /\ In(t, "unmounting")
    /\ \/ Leaves(t, "unmounted") /\ UNCHANGED <<mounted, story>>
       \/ mounted' = TRUE /\ UNCHANGED contexts
          /\ story' = [story EXCEPT !.stuck = TRUE]
    /\ To(t, "erase")
    /\ UNCHANGED <<disk, boots, files, commands>>

EraseChip(t) ==
    /\ In(t, "erase")
    /\ disk' = "torn" /\ To(t, "erasing")
    /\ UNCHANGED <<boots, mounted, contexts, files, commands, story>>

ChipErased(t) ==
    /\ In(t, "erasing")
    /\ \/ disk' = "blank" /\ To(t, "lfs_format") /\ UNCHANGED story
       \/ Answer(t, FALSE) /\ Fault /\ UNCHANGED disk
    /\ UNCHANGED <<boots, mounted, contexts, files, commands>>

EnterFormat(t) ==
    /\ In(t, "lfs_format")
    /\ Enter(t, "formatting", 1, ContextIs({"fresh", "unmounted"}))
    /\ disk' = "torn"
    /\ UNCHANGED <<boots, mounted, contexts, files, commands>>

LeaveFormat(t) ==
    /\ In(t, "formatting")
    /\ \/ /\ disk' = "formatted" /\ Leaves(t, "unmounted")
          /\ IF user[t].was THEN To(t, "mount") ELSE Answer(t, TRUE)
          /\ UNCHANGED story
       \/ Answer(t, FALSE) /\ Fault /\ UNCHANGED <<disk, contexts>>
    /\ UNCHANGED <<boots, mounted, files, commands>>

-----------------------------------------------------------------------------
(* littlefs-test creates a file, writes, closes and opens it again, checks *)
(* its size, reads it, and returns without closing it.                     *)
TestCommand == Command("create", FALSE, IF mounted THEN 1 ELSE 0)

(* Mutant of FirstClosed: counts from zero. *)
FirstClosedFromZero == Cardinality(OpenFiles)

FirstClosed == CHOOSE h \in ClosedFiles : \A g \in ClosedFiles : h <= g

(* open() takes the first handle that is not open, and returns it whether  *)
(* the file could be opened or not.                                        *)
Open(t, pc, then) ==
    IF ~mounted \/ ClosedFiles = {}
    THEN Answer(t, FALSE) /\ UNCHANGED story
    ELSE IF Context = 0
    THEN /\ user' = [user EXCEPT ![t].pc = then, ![t].file = FirstClosed]
         /\ UNCHANGED story
    ELSE Enter(t, pc, FirstClosed, ContextIs({"mounted"}))

Opened(t, then) ==
    /\ To(t, then)
    /\ \/ files' = [files EXCEPT ![user[t].file] = user[t].ctx] /\ UNCHANGED story
       \/ Fault /\ UNCHANGED files

(* The calls on a handle do nothing unless it is open. *)
OnFile(t, pc) ==
    IF files[user[t].file] = 0
    THEN Answer(t, FALSE) /\ UNCHANGED story
    ELSE Enter(t, pc, user[t].file,
               ContextIs({"mounted"}) /\ files[user[t].file] = Context)

Create(t) ==
    /\ In(t, "create") /\ Open(t, "creating", "write")
    /\ UNCHANGED <<disk, boots, mounted, contexts, files, commands>>

Created(t) ==
    /\ In(t, "creating") /\ Opened(t, "write")
    /\ UNCHANGED <<disk, boots, mounted, contexts, commands>>

Write(t) ==
    /\ In(t, "write") /\ OnFile(t, "writing")
    /\ UNCHANGED <<disk, boots, mounted, contexts, files, commands>>

Written(t) ==
    /\ In(t, "writing")
    /\ \/ To(t, "close") /\ UNCHANGED story
       \/ Answer(t, FALSE) /\ Fault
    /\ UNCHANGED <<disk, boots, mounted, contexts, files, commands>>

Close(t) ==
    /\ In(t, "close")
    /\ Enter(t, "closing", user[t].file,
             ContextIs({"mounted"}) /\ files[user[t].file] = Context)
    /\ UNCHANGED <<disk, boots, mounted, contexts, files, commands>>

(* The command does not look whether close() succeeded. *)
Closed(t) ==
    /\ In(t, "closing") /\ To(t, "reopen")
    /\ \/ files' = [files EXCEPT ![user[t].file] = 0] /\ UNCHANGED story
       \/ Fault /\ UNCHANGED files
    /\ UNCHANGED <<disk, boots, mounted, contexts, commands>>

Reopen(t) ==
    /\ In(t, "reopen") /\ Open(t, "reopening", "read")
    /\ UNCHANGED <<disk, boots, mounted, contexts, files, commands>>

Reopened(t) ==
    /\ In(t, "reopening") /\ Opened(t, "read")
    /\ UNCHANGED <<disk, boots, mounted, contexts, commands>>

Read(t) ==
    /\ In(t, "read") /\ OnFile(t, "reading")
    /\ UNCHANGED <<disk, boots, mounted, contexts, files, commands>>

ReadDone(t) ==
    /\ In(t, "reading")
    /\ \/ Answer(t, TRUE) /\ UNCHANGED story
       \/ Answer(t, FALSE) /\ Fault
    /\ UNCHANGED <<disk, boots, mounted, contexts, files, commands>>

Mounting(t) == \/ ClaimMount(t) \/ InitDisk(t) \/ NewContext(t)
               \/ EnterMount(t) \/ LeaveMount(t)

Formatting(t) == \/ Unmount(t) \/ EnterUnmount(t) \/ LeaveUnmount(t)
                 \/ EraseChip(t) \/ ChipErased(t) \/ EnterFormat(t) \/ LeaveFormat(t)

Testing(t) == \/ Create(t) \/ Created(t) \/ Write(t) \/ Written(t) \/ Close(t)
              \/ Closed(t) \/ Reopen(t) \/ Reopened(t) \/ Read(t) \/ ReadDone(t)

LfsNext == \/ PowerCycle \/ FormatCommand \/ TestCommand
           \/ \E t \in Users : Mounting(t)
           \/ Formatting("shell") \/ Testing("shell")

LfsSpec == LfsInit /\ [][LfsNext]_lfsVars

-----------------------------------------------------------------------------
LfsTypeOK ==
    /\ disk \in {"blank", "formatted", "torn"}
    /\ boots \in 1..MaxBoots /\ commands \in 0..MaxCommands
    /\ mounted \in BOOLEAN
    /\ contexts \in Seq({"fresh", "mounted", "unmounted"})
    /\ files \in [1..Handles -> 0..Context]
    /\ \A t \in Users :
          /\ user[t].ctx \in 0..Context
          /\ user[t].file \in 1..Handles
          /\ user[t].was \in BOOLEAN /\ user[t].told \in BOOLEAN
    /\ story \in [raced : BOOLEAN, stuck : BOOLEAN, wild : BOOLEAN, faults : BOOLEAN,
                  tests : 0..MaxCommands]

Quiet == \A t \in Users : In(t, "idle")

(* Two tasks use the library without a lock, and no context is checked to  *)
(* be a mounted one: all that keeps calls apart is that the shell is not   *)
(* given a command before the mount at the start has ended.                *)
WildOnlyInRace == story.wild => story.raced \/ story.stuck

(* Otherwise the flag tells the truth whenever nothing runs: the disk is   *)
(* formatted and the last context is the one mounted one, or none is; and  *)
(* a command that reported success has left a formatted disk.              *)
(* With a device that works only a file system that was not mounted at the *)
(* start is unmounted, however often it is formatted.                      *)
FlagTellsTruth ==
    Quiet /\ ~story.raced /\ ~story.stuck =>
        /\ mounted => disk = "formatted" /\ ContextIs({"mounted"})
        /\ \A i \in DOMAIN contexts :
              contexts[i] = "mounted" <=> mounted /\ i = Context
        /\ user["shell"].told => disk = "formatted"
        /\ ~mounted => Context <= 1 \/ story.faults
=============================================================================

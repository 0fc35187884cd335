-------------------------- MODULE LittleFs_proofs --------------------------
(***************************************************************************)
(* Proofs, for every number of file handles, commands and starts, that the *)
(* wrapper around littlefs uses the library on a context that is right for *)
(* the call, and that its flag tells the truth, as long as no command is   *)
(* given while the filesystem task mounts and no unmount fails.            *)
(*                                                                         *)
(* The invariant says, for each place of a call, what the flag and the     *)
(* last context are there (Phase), where the open file belongs (FileRight) *)
(* and what the disk is (DiskRight).  The filesystem task is in a call     *)
(* only at the start (AtStart); from then on only the shell is (Serving).  *)
(***************************************************************************)
EXTENDS LittleFs, SequenceTheorems, WellFoundedInduction, TLAPS

(* The places of a call. *)
LfsPlaces == {"idle", "mount", "init", "allocate", "lfs_mount", "unmount", "lfs_unmount", "erase", "erasing",
              "lfs_format", "create", "write", "close", "reopen", "read"} \cup Inside
States == {"fresh", "mounted", "unmounted"}

LfsFlags ==
    /\ mounted \in BOOLEAN
    /\ \A t \in Users : user[t].was \in BOOLEAN /\ user[t].told \in BOOLEAN
    /\ story.raced \in BOOLEAN /\ story.stuck \in BOOLEAN /\ story.wild \in BOOLEAN /\ story.faults \in BOOLEAN

LfsTypes ==
    /\ disk \in {"blank", "formatted", "torn"}
    /\ boots \in 1..MaxBoots /\ commands \in 0..MaxCommands
    /\ contexts \in Seq(States)
    /\ files \in [1..Handles -> 0..Context]
    /\ DOMAIN user = Users
    /\ \A t \in Users :
         /\ user[t] = [pc |-> user[t].pc, ctx |-> user[t].ctx, was |-> user[t].was,
                       file |-> user[t].file, told |-> user[t].told]
         /\ user[t].ctx \in 0..Context /\ user[t].file \in 1..Handles
    /\ story = [raced |-> story.raced, stuck |-> story.stuck, wild |-> story.wild,
                faults |-> story.faults, tests |-> story.tests]
    /\ story.tests \in 0..commands

Tame == ~story.raced /\ ~story.stuck
LastMounted == Context # 0 /\ contexts[Context] = "mounted"
Claimed == {"init", "allocate", "lfs_mount", "mounting"}
Emptying == {"erase", "erasing", "lfs_format", "formatting"}
InTest == {"creating", "write", "writing", "close", "closing", "reopen", "reopening", "read", "reading"}

(* Where each call finds and leaves the flag and the last context.         *)
Phase(r) ==
    /\ r.pc \in Claimed => mounted /\ ~LastMounted
    /\ r.pc \in {"mount"} \cup Emptying => ~mounted /\ ~LastMounted
    /\ r.pc \in {"lfs_unmount", "unmounting"} => ~mounted /\ LastMounted
    /\ r.pc \in {"unmount"} \cup InTest => mounted /\ LastMounted
    /\ r.pc \in {"idle", "create"} => (mounted <=> LastMounted)
    /\ r.pc \in Emptying => Context # 0
    /\ r.pc \in {"mounting", "unmounting", "formatting", "creating", "reopening"} => r.ctx = Context
    /\ r.pc \in {"lfs_mount", "mounting"} => Context # 0 /\ contexts[Context] = "fresh"

(* The file that is written and read was opened in the last context.       *)
FileRight(r) ==
    /\ r.pc \in {"creating", "reopening"} => files[r.file] = 0
    /\ r.pc \in {"write", "read"} => files[r.file] \in {0, Context}
    /\ r.pc \in {"writing", "close", "closing", "reading"} => files[r.file] = Context

(* Mounted means formatted, and so does a success; and without a fault     *)
(* only what had never been mounted is left unmounted.                     *)
DiskRight(r) ==
    /\ LastMounted \/ r.pc \in {"mount"} \cup Claimed => disk = "formatted"
    /\ r.pc = "idle" /\ r.told => disk = "formatted"
    /\ ~mounted /\ (r.pc \in {"idle", "create"} \/ (r.pc \in Emptying /\ ~r.was)) =>
           Context <= 1 \/ story.faults
    /\ r.pc \in {"unmount", "lfs_unmount", "unmounting"} => r.was

AtStart ==
    /\ user["filesystem"].pc \in {"mount"} \cup Claimed /\ Phase(user["filesystem"])
    /\ user["shell"].pc = "idle" /\ ~user["shell"].told
    /\ Context = IF user["filesystem"].pc \in {"lfs_mount", "mounting"} THEN 1 ELSE 0

Serving ==
    /\ user["filesystem"].pc = "idle" /\ user["shell"].pc \in LfsPlaces
    /\ Phase(user["shell"]) /\ FileRight(user["shell"]) /\ DiskRight(user["shell"])

OneMounted == \A i \in DOMAIN contexts : contexts[i] = "mounted" => i = Context

TameInv == Tame => ~story.wild /\ OneMounted /\ (AtStart \/ Serving)
LfsInv  == LfsFlags /\ LfsTypes /\ TameInv

-----------------------------------------------------------------------------
(* A set of numbers that is not empty has a least one. *)
LEMMA LeastHandle ==
    ASSUME NEW S \in SUBSET Nat, S # {} PROVE \E h \in S : \A g \in S : h <= g
<1> DEFINE R == OpToRel(<, Nat)
<1>1. R = {ss \in Nat \X Nat : ss[1] < ss[2]}
  BY Zenon DEF OpToRel
<1>2. IsWellFoundedOn(R, Nat)
  BY NatLessThanWellFounded, Zenon
<1> HIDE DEF R
<1>3. \E h \in S : \A g \in S : ~(<<g, h>> \in R)
  BY <1>2, WFMin
<1>4. ASSUME NEW g \in Nat, NEW h \in Nat, g < h PROVE <<g, h>> \in R
  <2>1. <<g, h>> \in Nat \X Nat /\ <<g, h>>[1] < <<g, h>>[2]
    BY <1>4
  <2> QED
    BY <1>1, <2>1, Zenon
<1>5. PICK h \in S : \A g \in S : ~(<<g, h>> \in R)
  BY <1>3
<1>6. \A g \in S : ~(g < h)
  BY <1>4, <1>5, Zenon
<1> QED
  BY <1>6

UserTypes ==
    /\ DOMAIN user = Users
    /\ \A t \in Users :
         user[t] = [pc |-> user[t].pc, ctx |-> user[t].ctx, was |-> user[t].was,
                    file |-> user[t].file, told |-> user[t].told]

StoryTypes ==
    story = [raced |-> story.raced, stuck |-> story.stuck, wild |-> story.wild,
             faults |-> story.faults, tests |-> story.tests]

OthersSame(t) == DOMAIN user' = Users /\ \A u \in Users \ {t} : user'[u] = user[u]
IsUser(r) == r = [pc |-> r.pc, ctx |-> r.ctx, was |-> r.was, file |-> r.file, told |-> r.told]

(* What a step does to the user who takes it. *)
Becomes(t, pc, ctx, was, file, told) ==
    /\ DOMAIN user' = Users /\ \A u \in Users \ {t} : user'[u] = user[u]
    /\ IsUser(user'[t])
    /\ user'[t].pc = pc /\ user'[t].ctx = ctx /\ user'[t].was = was
    /\ user'[t].file = file /\ user'[t].told = told

(* To, Answer, Enter and Command change the user who takes the step.       *)
LEMMA ToMoves ==
    ASSUME UserTypes, NEW t \in Users, NEW pc, To(t, pc)
    PROVE  Becomes(t, pc, user[t].ctx, user[t].was, user[t].file, user[t].told)
BY DEF UserTypes, To, Becomes, IsUser

LEMMA AnswerMoves ==
    ASSUME UserTypes, NEW t \in Users, NEW told, Answer(t, told)
    PROVE  Becomes(t, "idle", user[t].ctx, user[t].was, user[t].file, told)
<1>1. DOMAIN user' = Users /\ \A u \in Users \ {t} : user'[u] = user[u]
  BY DEF UserTypes, Answer
<1>2. user'[t] = [user[t] EXCEPT !.pc = "idle", !.told = told]
  BY DEF UserTypes, Answer
<1>3. IsUser(user[t])
  BY DEF UserTypes, IsUser
<1>4. IsUser(user'[t])
  BY <1>2, <1>3 DEF IsUser
<1>5. /\ user'[t].pc = "idle" /\ user'[t].ctx = user[t].ctx /\ user'[t].was = user[t].was
      /\ user'[t].file = user[t].file /\ user'[t].told = told
  BY <1>2, <1>3 DEF IsUser
<1> QED
  BY <1>1, <1>4, <1>5 DEF Becomes

LEMMA EnterMoves ==
    ASSUME UserTypes, NEW t \in Users, NEW pc, NEW file, NEW proper, Enter(t, pc, file, proper)
    PROVE  Becomes(t, pc, Context, user[t].was, file, user[t].told)
<1>1. DOMAIN user' = Users /\ \A u \in Users \ {t} : user'[u] = user[u]
  BY DEF UserTypes, Enter
<1>2. user'[t] = [user[t] EXCEPT !.pc = pc, !.ctx = Context, !.file = file]
  BY DEF UserTypes, Enter
<1>3. IsUser(user[t])
  BY DEF UserTypes, IsUser
<1>4. IsUser(user'[t])
  BY <1>2, <1>3 DEF IsUser
<1>5. /\ user'[t].pc = pc /\ user'[t].ctx = Context /\ user'[t].was = user[t].was
      /\ user'[t].file = file /\ user'[t].told = user[t].told
  BY <1>2, <1>3 DEF IsUser
<1> QED
  BY <1>1, <1>4, <1>5 DEF Becomes

LEMMA CommandMoves ==
    ASSUME UserTypes, NEW pc, NEW was, NEW tests, Command(pc, was, tests)
    PROVE  Becomes("shell", pc, 0, was, 1, FALSE)
<1>1. "shell" \in Users
  BY DEF Users
<1>2. user' = [user EXCEPT !["shell"] = [Resting EXCEPT !.pc = pc, !.was = was]]
  BY DEF Command
<1>3. IsUser(Resting) /\ Resting.ctx = 0 /\ Resting.file = 1 /\ ~Resting.told
  BY DEF Resting, IsUser
<1>4. PICK r : r = [Resting EXCEPT !.pc = pc, !.was = was]
  OBVIOUS
<1>5. IsUser(r)
  BY <1>3, <1>4 DEF IsUser
<1>6. r.pc = pc /\ r.ctx = 0 /\ r.was = was /\ r.file = 1 /\ r.told = Resting.told
  BY <1>3, <1>4 DEF IsUser
<1>7. r.told = FALSE
  BY <1>6, Zenon DEF Resting
<1>8. DOMAIN user' = Users /\ \A u \in Users \ {"shell"} : user'[u] = user[u]
  BY <1>2 DEF UserTypes
<1>9. user'["shell"] = r
  BY <1>1, <1>2, <1>4 DEF UserTypes
<1> QED
  BY <1>5, <1>6, <1>7, <1>8, <1>9, Zenon DEF Becomes

(* Entering the library only adds to the history whether it was wild.      *)
LEMMA EnterStory ==
    ASSUME StoryTypes, NEW t \in Users, NEW pc, NEW file, NEW proper, Enter(t, pc, file, proper)
    PROVE  /\ story'.raced = story.raced /\ story'.stuck = story.stuck
           /\ story'.faults = story.faults /\ story'.tests = story.tests
           /\ story'.wild = (\/ story.wild \/ ~proper
                             \/ \E u \in Users \ {t} : user[u].pc \in Inside)
           /\ StoryTypes'
<1>1. PICK w : /\ story' = [story EXCEPT !.wild = w]
               /\ w = (\/ story.wild \/ ~proper \/ \E u \in Users \ {t} : user[u].pc \in Inside)
  BY DEF Enter
<1>2. /\ story'.raced = story.raced /\ story'.stuck = story.stuck
      /\ story'.faults = story.faults /\ story'.tests = story.tests /\ story'.wild = w
  BY <1>1 DEF StoryTypes
<1>3. StoryTypes'
  BY <1>1 DEF StoryTypes
<1> QED
  BY <1>1, <1>2, <1>3, Zenon

(* A call leaves the context it was made on in another state. *)
LEMMA LeavesContext ==
    ASSUME contexts \in Seq(States), NEW t, NEW state \in States, Leaves(t, state)
    PROVE  /\ contexts' \in Seq(States) /\ Context' = Context
           /\ \A i \in 1..Context : contexts'[i] = IF i = user[t].ctx THEN state ELSE contexts[i]
<1>1. contexts' = [contexts EXCEPT ![user[t].ctx] = state]
  BY DEF Leaves
<1>2. CASE user[t].ctx \in 1..Len(contexts)
  BY <1>1, <1>2, ExceptSeq DEF Context
<1>3. CASE user[t].ctx \notin 1..Len(contexts)
  <2>1. contexts' = contexts
    <3>1. DOMAIN contexts = 1..Len(contexts) /\ contexts = [i \in DOMAIN contexts |-> contexts[i]]
      OBVIOUS
    <3> QED
      BY <1>1, <1>3, <3>1
  <2> QED
    BY <1>3, <2>1 DEF Context
<1> QED
  BY <1>2, <1>3

(* The contexts: none after a start, one more, or one in another state.    *)
LEMMA ContextsMove ==
    ASSUME contexts \in Seq(States), [LfsNext]_lfsVars
    PROVE  /\ contexts' \in Seq(States)
           /\ Context' >= Context \/ PowerCycle
<1>1. \/ UNCHANGED contexts
      \/ PowerCycle
      \/ contexts' = Append(contexts, "fresh")
      \/ \E t \in Users, state \in States : Leaves(t, state)
  BY DEF LfsNext, PowerCycle, FormatCommand, TestCommand, Command, Mounting, ClaimMount, InitDisk, NewContext,
         EnterMount, LeaveMount, Formatting, Unmount, EnterUnmount, LeaveUnmount, EraseChip, ChipErased,
         EnterFormat, LeaveFormat, Testing, Create, Created, Opened, Write, Written, Close, Closed, Reopen,
         Reopened, Read, ReadDone, lfsVars, States, Users
<1>2. ASSUME NEW t \in Users, NEW state \in States, Leaves(t, state)
      PROVE  contexts' \in Seq(States) /\ Context' = Context
  BY <1>2, LeavesContext
<1>3. ASSUME contexts' = Append(contexts, "fresh")
      PROVE  contexts' \in Seq(States) /\ Context' = Context + 1
  BY <1>3 DEF Context, States
<1>4. Context \in Nat
  BY DEF Context
<1>5. PowerCycle => contexts' \in Seq(States)
  BY DEF PowerCycle
<1> QED
  BY <1>1, <1>2, <1>3, <1>4, <1>5 DEF Context

(* The first handle that is not open, if there is one.                     *)
LEMMA FirstClosedType ==
    ASSUME DOMAIN files = 1..Handles, ClosedFiles # {}
    PROVE  FirstClosed \in 1..Handles /\ files[FirstClosed] = 0
<1>1. ClosedFiles \subseteq 1..Handles
  BY DEF ClosedFiles
<1>2. \E h \in ClosedFiles : \A g \in ClosedFiles : h <= g
  BY <1>1, LeastHandle
<1>3. FirstClosed \in ClosedFiles
  BY <1>2 DEF FirstClosed
<1> QED
  BY <1>1, <1>3 DEF ClosedFiles, OpenFiles

(* What a user becomes has its type. *)
Typed(t) ==
    \E pc \in LfsPlaces, ctx \in 0..Context, file \in 1..Handles, was \in BOOLEAN, told \in BOOLEAN :
        Becomes(t, pc, ctx, was, file, told)

(* Every step leaves the users' records of the shape they had.             *)
LEMMA UserMoves ==
    ASSUME LfsTypes, LfsFlags, [LfsNext]_lfsVars
    PROVE  UNCHANGED user \/ PowerCycle \/ \E t \in Users : Typed(t)
<1>0. /\ UserTypes /\ contexts \in Seq(States) /\ DOMAIN files = 1..Handles
      /\ \A t \in Users : user[t].ctx \in 0..Context /\ user[t].file \in 1..Handles
  BY DEF LfsTypes, UserTypes
<1>b. mounted \in BOOLEAN /\ \A t \in Users : user[t].was \in BOOLEAN /\ user[t].told \in BOOLEAN
  BY DEF LfsFlags
<1>c. Context \in 0..Context /\ 0 \in 0..Context /\ 1 \in 1..Handles
  BY <1>0, LittleFsAssumption DEF Context
<1>u. "shell" \in Users
  BY DEF Users
<1>1. ASSUME NEW t \in Users, NEW pc \in LfsPlaces, To(t, pc) PROVE Typed(t)
  BY <1>0, <1>b, <1>1, ToMoves DEF Typed
<1>2. ASSUME NEW t \in Users, NEW told \in BOOLEAN, Answer(t, told) PROVE Typed(t)
  BY <1>0, <1>b, <1>2, AnswerMoves DEF Typed, LfsPlaces
<1>3. ASSUME NEW t \in Users, NEW pc \in LfsPlaces, NEW file \in 1..Handles, NEW proper, Enter(t, pc, file, proper)
      PROVE  Typed(t)
  BY <1>0, <1>b, <1>c, <1>3, EnterMoves DEF Typed
<1>4. ASSUME NEW pc \in LfsPlaces, NEW was \in BOOLEAN, NEW tests, Command(pc, was, tests) PROVE Typed("shell")
  BY <1>0, <1>c, <1>4, CommandMoves DEF Typed
<1>5. ASSUME NEW t \in Users, NEW pc \in LfsPlaces, NEW then \in LfsPlaces, Open(t, pc, then) PROVE Typed(t)
  <2>1. CASE ~mounted \/ ClosedFiles = {}
    BY <1>2, <1>5, <2>1 DEF Open
  <2>2. CASE mounted /\ ClosedFiles # {} /\ Context = 0
    <3>1. FirstClosed \in 1..Handles
      BY <1>0, <2>2, FirstClosedType
    <3>2. user' = [user EXCEPT ![t].pc = then, ![t].file = FirstClosed]
      BY <1>5, <2>2 DEF Open
    <3>3. Becomes(t, then, user[t].ctx, user[t].was, FirstClosed, user[t].told)
      <4> DEFINE f == FirstClosed
      <4> HIDE DEF f
      <4>1. user' = [user EXCEPT ![t].pc = then, ![t].file = f]
        BY <3>2 DEF f
      <4>2. Becomes(t, then, user[t].ctx, user[t].was, f, user[t].told)
        <5>1. user'[t] = [user[t] EXCEPT !.pc = then, !.file = f]
          BY <1>0, <4>1 DEF UserTypes
        <5>2. IsUser(user[t])
          BY <1>0 DEF UserTypes, IsUser
        <5>3. IsUser(user'[t])
          BY <5>1, <5>2 DEF IsUser
        <5>4. /\ user'[t].pc = then /\ user'[t].ctx = user[t].ctx /\ user'[t].was = user[t].was
              /\ user'[t].file = f /\ user'[t].told = user[t].told
          BY <5>1, <5>2 DEF IsUser
        <5>5. DOMAIN user' = Users /\ \A u \in Users \ {t} : user'[u] = user[u]
          BY <1>0, <4>1 DEF UserTypes
        <5> QED
          BY <5>3, <5>4, <5>5 DEF Becomes
      <4> QED
        BY <4>2 DEF f
    <3> QED
      BY <1>0, <1>b, <3>1, <3>3 DEF Typed
  <2>3. CASE mounted /\ ClosedFiles # {} /\ Context # 0
    BY <1>0, <1>3, <1>5, <2>3, FirstClosedType DEF Open
  <2> QED
    BY <2>1, <2>2, <2>3
<1>6. ASSUME NEW t \in Users, NEW pc \in LfsPlaces, OnFile(t, pc) PROVE Typed(t)
  BY <1>0, <1>2, <1>3, <1>6 DEF OnFile
<1>7. ASSUME NEW t \in Users, Mounting(t) PROVE Typed(t)
  <2>1. EnterMount(t) => Enter(t, "mounting", 1, ContextIs({"fresh"}))
    BY DEF EnterMount
  <2>2. ClaimMount(t) \/ InitDisk(t) \/ NewContext(t) \/ LeaveMount(t) =>
            \/ (\E pc \in LfsPlaces : To(t, pc)) \/ Answer(t, TRUE) \/ Answer(t, FALSE)
    BY DEF ClaimMount, InitDisk, NewContext, LeaveMount, LfsPlaces
  <2> QED
    BY <1>c, <1>1, <1>2, <1>3, <1>7, <2>1, <2>2 DEF Mounting, LfsPlaces, Inside
<1>8. CASE Formatting("shell")
  <2>1. EnterUnmount("shell") => Enter("shell", "unmounting", 1, ContextIs({"mounted"}))
    BY DEF EnterUnmount
  <2>2. EnterFormat("shell") => Enter("shell", "formatting", 1, ContextIs({"fresh", "unmounted"}))
    BY DEF EnterFormat
  <2>3. Unmount("shell") \/ LeaveUnmount("shell") \/ EraseChip("shell") \/ ChipErased("shell") \/ LeaveFormat("shell") =>
            (\E pc \in LfsPlaces : To("shell", pc)) \/ Answer("shell", TRUE) \/ Answer("shell", FALSE)
    BY DEF Unmount, LeaveUnmount, EraseChip, ChipErased, LeaveFormat, LfsPlaces
  <2> QED
    BY <1>c, <1>u, <1>1, <1>2, <1>3, <1>8, <2>1, <2>2, <2>3 DEF Formatting, LfsPlaces, Inside
<1>9. CASE Testing("shell")
  <2>1. Create("shell") => Open("shell", "creating", "write")
    BY DEF Create
  <2>2. Reopen("shell") => Open("shell", "reopening", "read")
    BY DEF Reopen
  <2>3. Write("shell") => OnFile("shell", "writing")
    BY DEF Write
  <2>4. Read("shell") => OnFile("shell", "reading")
    BY DEF Read
  <2>5. Close("shell") => \E proper : Enter("shell", "closing", user["shell"].file, proper)
    BY DEF Close
  <2>6. Created("shell") \/ Reopened("shell") \/ Written("shell") \/ Closed("shell") \/ ReadDone("shell") =>
            (\E pc \in LfsPlaces : To("shell", pc)) \/ Answer("shell", TRUE) \/ Answer("shell", FALSE)
    BY DEF Created, Reopened, Opened, Written, Closed, ReadDone, LfsPlaces
  <2>7. {"creating", "write", "reopening", "read", "writing", "reading", "closing"} \subseteq LfsPlaces
    BY DEF LfsPlaces, Inside
  <2>8. CASE Created("shell") \/ Reopened("shell") \/ Written("shell") \/ Closed("shell") \/ ReadDone("shell")
    BY <1>u, <1>1, <1>2, <2>6, <2>8
  <2>9. CASE Close("shell")
    BY <1>0, <1>u, <1>3, <2>5, <2>7, <2>9
  <2> QED
    BY <1>u, <1>5, <1>6, <1>9, <2>1, <2>2, <2>3, <2>4, <2>7, <2>8, <2>9 DEF Testing
<1>10. CASE FormatCommand
  <2>1. Command(IF Context = 0 THEN "idle" ELSE IF mounted THEN "unmount" ELSE "erase", mounted, 0)
    BY <1>10 DEF FormatCommand
  <2> QED
    BY <1>b, <1>u, <1>4, <2>1 DEF LfsPlaces
<1>11. CASE TestCommand
  <2>1. Command("create", FALSE, IF mounted THEN 1 ELSE 0)
    BY <1>11 DEF TestCommand
  <2> QED
    BY <1>u, <1>4, <2>1 DEF LfsPlaces
<1>12. CASE UNCHANGED lfsVars
  BY <1>12 DEF lfsVars
<1> QED
  <2>1. CASE \E t \in Users : Mounting(t)
    BY <2>1, <1>7
  <2>2. CASE Formatting("shell") \/ Testing("shell") \/ FormatCommand \/ TestCommand
    BY <2>2, <1>u, <1>8, <1>9, <1>10, <1>11
  <2> QED
    BY <2>1, <2>2, <1>12 DEF LfsNext

(* The history: who does not start the firmware, or give a command, or     *)
(* enter the library, at most finds a fault.                               *)
IsStory(s) == s = [raced |-> s.raced, stuck |-> s.stuck, wild |-> s.wild, faults |-> s.faults, tests |-> s.tests]

LEMMA StoryMoves ==
    ASSUME LfsTypes, LfsFlags, [LfsNext]_lfsVars
    PROVE  \/ UNCHANGED <<story, commands>>
           \/ PowerCycle
           \/ UNCHANGED commands /\ story' = [story EXCEPT !.faults = TRUE]
           \/ UNCHANGED commands /\ story' = [story EXCEPT !.stuck = TRUE]
           \/ UNCHANGED commands /\ \E w \in BOOLEAN : story' = [story EXCEPT !.wild = w]
           \/ \E r \in BOOLEAN, n \in {0, 1} :
                 /\ commands < MaxCommands /\ commands' = commands + 1
                 /\ story' = [story EXCEPT !.raced = r, !.tests = story.tests + n]
<1>1. \/ UNCHANGED <<story, commands>>
      \/ PowerCycle
      \/ UNCHANGED commands /\ story' = [story EXCEPT !.faults = TRUE]
      \/ UNCHANGED commands /\ story' = [story EXCEPT !.stuck = TRUE]
      \/ UNCHANGED commands /\ \E t \in Users : \E pc, file, proper : Enter(t, pc, file, proper)
      \/ FormatCommand \/ TestCommand
  BY DEF LfsNext, Mounting, ClaimMount, InitDisk, NewContext, Fault, Open, OnFile,
         EnterMount, LeaveMount, Formatting, Unmount, EnterUnmount, LeaveUnmount, EraseChip, ChipErased,
         EnterFormat, LeaveFormat, Testing, Create, Created, Opened, Write, Written, Close, Closed, Reopen,
         Reopened, Read, ReadDone, lfsVars, Users
<1>2. ASSUME NEW t \in Users, NEW pc, NEW file, NEW proper, Enter(t, pc, file, proper)
      PROVE  \E w \in BOOLEAN : story' = [story EXCEPT !.wild = w]
  BY <1>2 DEF Enter
<1>3. ASSUME NEW pc, NEW was, NEW n \in {0, 1}, Command(pc, was, n)
      PROVE  \E r \in BOOLEAN, m \in {0, 1} :
                 /\ commands < MaxCommands /\ commands' = commands + 1
                 /\ story' = [story EXCEPT !.raced = r, !.tests = story.tests + m]
  <2>1. PICK r \in BOOLEAN : story' = [story EXCEPT !.raced = r, !.tests = story.tests + n]
    BY <1>3 DEF Command
  <2>2. commands < MaxCommands /\ commands' = commands + 1
    BY <1>3 DEF Command
  <2> QED
    BY <2>1, <2>2
<1>4. CASE FormatCommand
  BY <1>3, <1>4 DEF FormatCommand
<1>5. CASE TestCommand
  <2>1. Command("create", FALSE, IF mounted THEN 1 ELSE 0)
    BY <1>5 DEF TestCommand
  <2>2. (IF mounted THEN 1 ELSE 0) \in {0, 1}
    OBVIOUS
  <2> QED
    BY <1>3, <2>1, <2>2
<1>6. CASE UNCHANGED commands /\ \E t \in Users : \E pc, file, proper : Enter(t, pc, file, proper)
  BY <1>2, <1>6
<1> QED
  BY <1>1, <1>4, <1>5, <1>6

(* Every step keeps the types,                                             *)
LEMMA LfsTypesStep ==
    ASSUME LfsTypes, LfsFlags, [LfsNext]_lfsVars
    PROVE  LfsTypes'
<1>0. /\ UserTypes /\ IsStory(story) /\ contexts \in Seq(States) /\ files \in [1..Handles -> 0..Context]
      /\ \A t \in Users : user[t].ctx \in 0..Context /\ user[t].file \in 1..Handles
      /\ commands \in 0..MaxCommands /\ story.tests \in 0..commands /\ boots \in 1..MaxBoots
  BY DEF LfsTypes, UserTypes, IsStory
<1>1. disk' \in {"blank", "formatted", "torn"}
  <2>1. disk \in {"blank", "formatted", "torn"}
    BY DEF LfsTypes
  <2>2. disk' \in {disk, "blank", "formatted", "torn"}
    BY DEF LfsNext, PowerCycle, FormatCommand, TestCommand, Command, Mounting, ClaimMount, InitDisk, NewContext,
         EnterMount, LeaveMount, Formatting, Unmount, EnterUnmount, LeaveUnmount, EraseChip, ChipErased,
         EnterFormat, LeaveFormat, Testing, Create, Created, Write, Written, Close, Closed, Reopen,
         Reopened, Read, ReadDone, lfsVars
  <2> QED
    BY <2>1, <2>2
<1>2. boots' \in 1..MaxBoots
  <2>1. UNCHANGED boots \/ PowerCycle
    BY DEF LfsNext, FormatCommand, TestCommand, Command, Mounting, ClaimMount, InitDisk, NewContext,
         EnterMount, LeaveMount, Formatting, Unmount, EnterUnmount, LeaveUnmount, EraseChip, ChipErased,
         EnterFormat, LeaveFormat, Testing, Create, Created, Write, Written, Close, Closed, Reopen,
         Reopened, Read, ReadDone, lfsVars
  <2> QED
    BY <1>0, <2>1, LittleFsAssumption DEF PowerCycle
<1>3. contexts' \in Seq(States) /\ Context' \in Nat
  BY <1>0, ContextsMove DEF Context
<1>4. CASE PowerCycle
  <2>1. commands' = commands /\ Context' = 0
    BY <1>4 DEF PowerCycle, Context
  <2>2. files' = [h \in 1..Handles |-> 0]
    BY <1>4 DEF PowerCycle, Start
  <2>3. IsStory(story') /\ story'.tests = 0
    BY <1>4 DEF PowerCycle, Start, IsStory
  <2>4. DOMAIN user' = Users /\ \A t \in Users : IsUser(user'[t]) /\ user'[t].ctx = 0 /\ user'[t].file = 1
    <3>1. user' = [t \in Users |-> IF t = "shell" THEN Resting ELSE [Resting EXCEPT !.pc = "mount"]]
      BY <1>4 DEF PowerCycle, Start
    <3>2. IsUser(Resting) /\ Resting.ctx = 0 /\ Resting.file = 1
      BY DEF IsUser, Resting
    <3>3. PICK r : r = [Resting EXCEPT !.pc = "mount"]
      OBVIOUS
    <3>4. IsUser(r) /\ r.ctx = 0 /\ r.file = 1
      BY <3>2, <3>3 DEF IsUser
    <3> QED
      BY <3>1, <3>2, <3>3, <3>4
  <2>5. 1 \in 1..Handles
    BY LittleFsAssumption
  <2>6. files' \in [1..Handles -> 0..Context']
    BY <2>1, <2>2
  <2> QED
    BY <1>0, <1>1, <1>2, <1>3, <2>1, <2>3, <2>4, <2>5, <2>6 DEF LfsTypes, IsStory, IsUser
<1>5. CASE ~PowerCycle
  <2>1. Context' >= Context /\ Context \in Nat
    BY <1>0, <1>5, ContextsMove DEF Context
  <2>2. DOMAIN user' = Users /\ \A t \in Users : IsUser(user'[t]) /\ user'[t].ctx \in 0..Context' /\ user'[t].file \in 1..Handles
    <3>1. CASE UNCHANGED user
      BY <1>0, <1>3, <2>1, <3>1 DEF UserTypes, IsUser
    <3>2. ASSUME NEW t \in Users, Typed(t)
          PROVE  DOMAIN user' = Users /\ \A u \in Users : IsUser(user'[u]) /\ user'[u].ctx \in 0..Context' /\ user'[u].file \in 1..Handles
      <4>1. /\ DOMAIN user' = Users /\ \A u \in Users \ {t} : user'[u] = user[u]
            /\ IsUser(user'[t]) /\ user'[t].ctx \in 0..Context /\ user'[t].file \in 1..Handles
        BY <3>2 DEF Typed, Becomes
      <4>2. \A u \in Users : IsUser(user[u])
        BY <1>0 DEF UserTypes, IsUser
      <4> QED
        BY <1>0, <1>3, <2>1, <4>1, <4>2
    <3> QED
      BY <1>5, <3>1, <3>2, UserMoves
  <2>3. files' \in [1..Handles -> 0..Context']
    <3>1. \/ UNCHANGED files
          \/ \E t \in Users : \E c : c \in {user[t].ctx, 0} /\ files' = [files EXCEPT ![user[t].file] = c]
      BY <1>5 DEF LfsNext, FormatCommand, TestCommand, Command, Mounting, ClaimMount, InitDisk, NewContext,
         EnterMount, LeaveMount, Formatting, Unmount, EnterUnmount, LeaveUnmount, EraseChip, ChipErased,
         EnterFormat, LeaveFormat, Testing, Create, Created, Opened, Write, Written, Close, Closed, Reopen,
         Reopened, Read, ReadDone, lfsVars, Users
    <3>2. 0..Context \subseteq 0..Context'
      BY <1>3, <2>1
    <3> QED
      BY <1>0, <2>1, <3>1, <3>2
  <2>4. IsStory(story') /\ commands' \in 0..MaxCommands /\ story'.tests \in 0..commands'
    <3>1. CASE UNCHANGED <<story, commands>>
      BY <1>0, <3>1
    <3>2. ASSUME NEW b, \/ story' = [story EXCEPT !.faults = b]
                       \/ story' = [story EXCEPT !.stuck = b]
                       \/ story' = [story EXCEPT !.wild = b]
          PROVE  IsStory(story') /\ story'.tests = story.tests
      BY <1>0, <3>2 DEF IsStory
    <3>3. ASSUME NEW r, NEW n \in {0, 1}, story' = [story EXCEPT !.raced = r, !.tests = story.tests + n]
          PROVE  IsStory(story') /\ story'.tests = story.tests + n
      <4>1. PICK k : k = story.tests + n
        OBVIOUS
      <4>2. story' = [story EXCEPT !.raced = r, !.tests = k]
        BY <3>3, <4>1
      <4>3. IsStory(story')
        BY <1>0, <4>2 DEF IsStory
      <4>4. story'.tests = k
        BY <1>0, <4>2 DEF IsStory
      <4> QED
        BY <4>1, <4>3, <4>4
    <3>4. CASE UNCHANGED commands /\ \E b : \/ story' = [story EXCEPT !.faults = b]
                                            \/ story' = [story EXCEPT !.stuck = b]
                                            \/ story' = [story EXCEPT !.wild = b]
      BY <1>0, <3>2, <3>4
    <3>5. CASE \E r \in BOOLEAN, n \in {0, 1} :
                 /\ commands < MaxCommands /\ commands' = commands + 1
                 /\ story' = [story EXCEPT !.raced = r, !.tests = story.tests + n]
      <4>1. PICK r \in BOOLEAN, n \in {0, 1} :
                 /\ commands < MaxCommands /\ commands' = commands + 1
                 /\ story' = [story EXCEPT !.raced = r, !.tests = story.tests + n]
        BY <3>5
      <4>2. IsStory(story') /\ story'.tests = story.tests + n
        BY <3>3, <4>1
      <4>3. commands' \in 0..MaxCommands /\ story'.tests \in 0..commands'
        BY <1>0, <4>1, <4>2, LittleFsAssumption
      <4> QED
        BY <4>2, <4>3
    <3> QED
      BY <1>5, <3>1, <3>4, <3>5, StoryMoves
  <2> QED
    BY <1>1, <1>2, <1>3, <2>2, <2>3, <2>4 DEF LfsTypes, IsStory, IsUser
<1> QED
  BY <1>4, <1>5

(* and the Boolean variables Boolean.                                      *)
LEMMA LfsFlagsStep ==
    ASSUME LfsTypes, LfsFlags, [LfsNext]_lfsVars
    PROVE  LfsFlags'
<1>b. /\ mounted \in BOOLEAN /\ \A t \in Users : user[t].was \in BOOLEAN /\ user[t].told \in BOOLEAN
      /\ story.raced \in BOOLEAN /\ story.stuck \in BOOLEAN /\ story.wild \in BOOLEAN /\ story.faults \in BOOLEAN
  BY DEF LfsFlags
<1>1. mounted' \in BOOLEAN
  <2>1. UNCHANGED mounted \/ mounted' = TRUE \/ mounted' = FALSE
    BY DEF LfsNext, PowerCycle, FormatCommand, TestCommand, Command, Mounting, ClaimMount, InitDisk, NewContext,
         EnterMount, LeaveMount, Formatting, Unmount, EnterUnmount, LeaveUnmount, EraseChip, ChipErased,
         EnterFormat, LeaveFormat, Testing, Create, Created, Write, Written, Close, Closed, Reopen,
         Reopened, Read, ReadDone, lfsVars
  <2> QED
    BY <1>b, <2>1
<1>2. \A t \in Users : user'[t].was \in BOOLEAN /\ user'[t].told \in BOOLEAN
  <2>1. CASE UNCHANGED user
    BY <1>b, <2>1
  <2>2. CASE PowerCycle
    <3>1. user' = [t \in Users |-> IF t = "shell" THEN Resting ELSE [Resting EXCEPT !.pc = "mount"]]
      BY <2>2 DEF PowerCycle, Start
    <3>2. Resting.was \in BOOLEAN /\ Resting.told \in BOOLEAN
      BY DEF Resting
    <3>3. [Resting EXCEPT !.pc = "mount"].was = Resting.was /\ [Resting EXCEPT !.pc = "mount"].told = Resting.told
      BY DEF Resting
    <3> QED
      BY <3>1, <3>2, <3>3
  <2>3. ASSUME NEW t \in Users, Typed(t) PROVE \A u \in Users : user'[u].was \in BOOLEAN /\ user'[u].told \in BOOLEAN
    <3>1. PICK was \in BOOLEAN, told \in BOOLEAN :
              /\ user'[t].was = was /\ user'[t].told = told
              /\ \A u \in Users \ {t} : user'[u] = user[u]
      BY <2>3 DEF Typed, Becomes
    <3> QED
      BY <1>b, <3>1
  <2> QED
    BY <2>1, <2>2, <2>3, UserMoves
<1>3. story'.raced \in BOOLEAN /\ story'.stuck \in BOOLEAN /\ story'.wild \in BOOLEAN /\ story'.faults \in BOOLEAN
  <2>0. IsStory(story)
    BY DEF LfsTypes, IsStory
  <2>1. CASE UNCHANGED story
    BY <1>b, <2>1
  <2>2. CASE PowerCycle
    BY <2>2 DEF PowerCycle, Start
  <2>3. ASSUME NEW b \in BOOLEAN, story' = [story EXCEPT !.faults = b]
        PROVE  story'.raced = story.raced /\ story'.stuck = story.stuck /\ story'.wild = story.wild /\ story'.faults = b
    BY <2>0, <2>3 DEF IsStory
  <2>4. ASSUME NEW b \in BOOLEAN, story' = [story EXCEPT !.stuck = b]
        PROVE  story'.raced = story.raced /\ story'.stuck = b /\ story'.wild = story.wild /\ story'.faults = story.faults
    BY <2>0, <2>4 DEF IsStory
  <2>5. ASSUME NEW b \in BOOLEAN, story' = [story EXCEPT !.wild = b]
        PROVE  story'.raced = story.raced /\ story'.stuck = story.stuck /\ story'.wild = b /\ story'.faults = story.faults
    BY <2>0, <2>5 DEF IsStory
  <2>6. ASSUME NEW b \in BOOLEAN, NEW n, story' = [story EXCEPT !.raced = b, !.tests = n]
        PROVE  story'.raced = b /\ story'.stuck = story.stuck /\ story'.wild = story.wild /\ story'.faults = story.faults
    BY <2>0, <2>6 DEF IsStory
  <2>7. CASE \E b \in BOOLEAN : story' = [story EXCEPT !.faults = b]
    BY <1>b, <2>3, <2>7
  <2>8. CASE \E b \in BOOLEAN : story' = [story EXCEPT !.stuck = b]
    BY <1>b, <2>4, <2>8
  <2>9. CASE \E b \in BOOLEAN : story' = [story EXCEPT !.wild = b]
    BY <1>b, <2>5, <2>9
  <2>10. CASE \E b \in BOOLEAN : \E n : story' = [story EXCEPT !.raced = b, !.tests = n]
    BY <1>b, <2>6, <2>10
  <2>11. \/ UNCHANGED story \/ PowerCycle
         \/ (\E b \in BOOLEAN : story' = [story EXCEPT !.faults = b])
         \/ (\E b \in BOOLEAN : story' = [story EXCEPT !.stuck = b])
         \/ (\E b \in BOOLEAN : story' = [story EXCEPT !.wild = b])
         \/ (\E b \in BOOLEAN : \E n : story' = [story EXCEPT !.raced = b, !.tests = n])
    BY StoryMoves
  <2> QED
    BY <2>1, <2>2, <2>7, <2>8, <2>9, <2>10, <2>11
<1> QED
  BY <1>1, <1>2, <1>3, Zenon DEF LfsFlags

-----------------------------------------------------------------------------
(* The shell serves: each of its steps keeps the phases right. *)
LEMMA ServingMounts ==
    ASSUME LfsTypes, LfsTypes', LfsFlags, OneMounted, Serving, ~story.wild, Mounting("shell")
    PROVE  Serving' /\ OneMounted' /\ ~story'.wild
<1>0. /\ UserTypes /\ StoryTypes /\ contexts \in Seq(States) /\ contexts' \in Seq(States) /\ files \in [1..Handles -> 0..Context]
  BY DEF LfsTypes, UserTypes, StoryTypes
<1>u. "shell" \in Users /\ "filesystem" \in Users \ {"shell"} /\ Users = {"filesystem", "shell"}
  BY DEF Users
<1>c. Context \in Nat /\ DOMAIN contexts = 1..Context /\ Context' \in Nat /\ DOMAIN contexts' = 1..Context'
  BY <1>0 DEF Context
<1> USE DEF Phase, FileRight, DiskRight, Claimed, Emptying, InTest, LfsPlaces, Inside
<1>1. CASE ClaimMount("shell")
  <2>1. user["shell"].pc = "mount" /\ ~mounted
    BY <1>1 DEF ClaimMount, In, Serving
  <2>2. To("shell", "init") /\ mounted'
    BY <1>1, <2>1 DEF ClaimMount
  <2>3. UNCHANGED <<disk, contexts, files, story>>
    BY <1>1 DEF ClaimMount
  <2>4. user'["shell"].pc = "init" /\ user'["filesystem"].pc = user["filesystem"].pc
    BY <1>0, <1>u, <2>2, ToMoves DEF Becomes
  <2> QED
    BY <2>1, <2>2, <2>3, <2>4 DEF Serving, OneMounted, LastMounted, Context
<1>2. CASE InitDisk("shell")
  <2>1. user["shell"].pc = "init" /\ UNCHANGED <<disk, contexts, files>>
    BY <1>2 DEF InitDisk, In
  <2>2. CASE To("shell", "allocate") /\ UNCHANGED <<mounted, story>>
    <3>1. user'["shell"].pc = "allocate" /\ user'["filesystem"].pc = user["filesystem"].pc
      BY <1>0, <1>u, <2>2, ToMoves DEF Becomes
    <3> QED
      BY <2>1, <2>2, <3>1 DEF Serving, OneMounted, LastMounted, Context
  <2>3. CASE Answer("shell", FALSE) /\ mounted' = FALSE /\ Fault
    <3>1. user'["shell"].pc = "idle" /\ ~user'["shell"].told /\ user'["filesystem"].pc = user["filesystem"].pc
      BY <1>0, <1>u, <2>3, AnswerMoves DEF Becomes
    <3>2. story'.faults /\ story'.wild = story.wild
      BY <1>0, <2>3 DEF Fault, StoryTypes
    <3> QED
      BY <2>1, <2>3, <3>1, <3>2 DEF Serving, OneMounted, LastMounted, Context
  <2> QED
    BY <1>2, <2>2, <2>3 DEF InitDisk
<1>3. CASE NewContext("shell")
  <2>1. user["shell"].pc = "allocate" /\ UNCHANGED <<disk, mounted, files, story>>
    BY <1>3 DEF NewContext, In
  <2>2. user'["shell"].pc = "lfs_mount" /\ user'["filesystem"].pc = user["filesystem"].pc
    BY <1>0, <1>3, <1>u, ToMoves DEF NewContext, Becomes
  <2>3. /\ Context' = Context + 1 /\ contexts'[Context'] = "fresh"
        /\ \A i \in 1..Context : contexts'[i] = contexts[i]
    BY <1>0, <1>3 DEF NewContext, Context, States
  <2>4. \A i \in DOMAIN contexts' : contexts'[i] # "mounted"
    BY <1>c, <2>1, <2>3 DEF Serving, OneMounted, LastMounted
  <2> QED
    BY <1>c, <2>1, <2>2, <2>3, <2>4 DEF Serving, OneMounted, LastMounted
<1>4. CASE EnterMount("shell")
  <2>1. user["shell"].pc = "lfs_mount" /\ UNCHANGED <<disk, mounted, contexts, files>>
    BY <1>4 DEF EnterMount, In
  <2>2. Enter("shell", "mounting", 1, ContextIs({"fresh"}))
    BY <1>4 DEF EnterMount
  <2>3. user'["shell"].pc = "mounting" /\ user'["shell"].ctx = Context /\ user'["filesystem"].pc = user["filesystem"].pc
    BY <1>0, <1>u, <2>2, EnterMoves DEF Becomes
  <2>4. ContextIs({"fresh"})
    BY <2>1 DEF Serving, ContextIs
  <2>5. ~story'.wild /\ story'.faults = story.faults
    BY <1>0, <1>u, <2>2, <2>4, EnterStory DEF Serving
  <2> QED
    BY <2>1, <2>3, <2>5 DEF Serving, OneMounted, LastMounted, Context
<1>5. CASE LeaveMount("shell")
  <2>1. user["shell"].pc = "mounting" /\ UNCHANGED <<disk, files>> /\ user["shell"].ctx = Context
    BY <1>5 DEF LeaveMount, In, Serving
  <2>2. CASE Leaves("shell", "mounted") /\ Answer("shell", TRUE) /\ UNCHANGED <<mounted, story>>
    <3>1. user'["shell"].pc = "idle" /\ user'["filesystem"].pc = user["filesystem"].pc
      BY <1>0, <1>u, <2>2, AnswerMoves DEF Becomes
    <3>2. Context' = Context /\ \A i \in 1..Context : contexts'[i] = IF i = Context THEN "mounted" ELSE contexts[i]
      BY <1>0, <2>1, <2>2, LeavesContext DEF States
    <3> QED
      BY <1>c, <2>1, <2>2, <3>1, <3>2 DEF Serving, OneMounted, LastMounted
  <2>3. CASE /\ Leaves("shell", "unmounted") /\ mounted' = FALSE /\ Answer("shell", FALSE)
             /\ IF disk = "formatted" THEN Fault ELSE UNCHANGED story
    <3>1. user'["shell"].pc = "idle" /\ ~user'["shell"].told /\ user'["filesystem"].pc = user["filesystem"].pc
      BY <1>0, <1>u, <2>3, AnswerMoves DEF Becomes
    <3>2. Context' = Context /\ \A i \in 1..Context : contexts'[i] = IF i = Context THEN "unmounted" ELSE contexts[i]
      BY <1>0, <2>1, <2>3, LeavesContext DEF States
    <3>3. disk = "formatted"
      BY <2>1 DEF Serving
    <3>4. story'.faults /\ story'.wild = story.wild
      BY <1>0, <2>3, <3>3 DEF Fault, StoryTypes
    <3> QED
      BY <1>c, <2>1, <2>3, <3>1, <3>2, <3>4 DEF Serving, OneMounted, LastMounted
  <2> QED
    BY <1>5, <2>2, <2>3 DEF LeaveMount
<1> QED
  BY <1>1, <1>2, <1>3, <1>4, <1>5 DEF Mounting

(* Formatting: unmount, erase, format, mount again.                        *)
LEMMA ServingFormats ==
    ASSUME LfsTypes, LfsTypes', LfsFlags, OneMounted, Serving, ~story.wild, Formatting("shell"), ~story'.stuck
    PROVE  Serving' /\ OneMounted' /\ ~story'.wild
<1>0. /\ UserTypes /\ StoryTypes /\ contexts \in Seq(States) /\ contexts' \in Seq(States) /\ files \in [1..Handles -> 0..Context]
      /\ \A t \in Users : user[t].file \in 1..Handles
  BY DEF LfsTypes, UserTypes, StoryTypes
<1>u. "shell" \in Users /\ "filesystem" \in Users \ {"shell"} /\ Users = {"filesystem", "shell"}
  BY DEF Users
<1>c. Context \in Nat /\ DOMAIN contexts = 1..Context /\ Context' \in Nat /\ DOMAIN contexts' = 1..Context'
  BY <1>0 DEF Context
<1> USE DEF Phase, FileRight, DiskRight, Claimed, Emptying, InTest, LfsPlaces, Inside
<1>1. CASE Unmount("shell")
  <2>1. user["shell"].pc = "unmount" /\ mounted
    BY <1>1 DEF Unmount, In, Serving
  <2>2. To("shell", "lfs_unmount") /\ ~mounted' /\ UNCHANGED <<disk, contexts, files, story>>
    BY <1>1, <2>1 DEF Unmount
  <2>3. /\ user'["shell"].pc = "lfs_unmount" /\ user'["shell"].was = user["shell"].was
        /\ user'["filesystem"].pc = user["filesystem"].pc
    BY <1>0, <1>u, <2>2, ToMoves DEF Becomes
  <2> QED
    BY <2>1, <2>2, <2>3 DEF Serving, OneMounted, LastMounted, Context
<1>2. CASE EnterUnmount("shell")
  <2>1. user["shell"].pc = "lfs_unmount" /\ UNCHANGED <<disk, mounted, contexts, files>>
    BY <1>2 DEF EnterUnmount, In
  <2>2. Enter("shell", "unmounting", 1, ContextIs({"mounted"}))
    BY <1>2 DEF EnterUnmount
  <2>3. /\ user'["shell"].pc = "unmounting" /\ user'["shell"].ctx = Context /\ user'["shell"].was = user["shell"].was
        /\ user'["filesystem"].pc = user["filesystem"].pc
    BY <1>0, <1>u, <2>2, EnterMoves DEF Becomes
  <2>4. ContextIs({"mounted"})
    BY <2>1 DEF Serving, ContextIs, LastMounted
  <2>5. ~story'.wild
    BY <1>0, <1>u, <2>2, <2>4, EnterStory DEF Serving
  <2> QED
    BY <2>1, <2>3, <2>5 DEF Serving, OneMounted, LastMounted, Context
<1>3. CASE LeaveUnmount("shell")
  <2>1. user["shell"].pc = "unmounting" /\ UNCHANGED <<disk, files>> /\ user["shell"].ctx = Context /\ LastMounted /\ ~mounted
    BY <1>3 DEF LeaveUnmount, In, Serving
  <2>2. Leaves("shell", "unmounted") /\ UNCHANGED <<mounted, story>>
    <3>1. story' = [story EXCEPT !.stuck = TRUE] => story'.stuck
      BY <1>0 DEF StoryTypes
    <3> QED
      BY <1>3, <3>1 DEF LeaveUnmount
  <2>3. /\ user'["shell"].pc = "erase" /\ user'["shell"].was = user["shell"].was
        /\ user'["filesystem"].pc = user["filesystem"].pc
    BY <1>0, <1>3, <1>u, ToMoves DEF LeaveUnmount, Becomes
  <2>4. Context' = Context /\ \A i \in 1..Context : contexts'[i] = IF i = Context THEN "unmounted" ELSE contexts[i]
    BY <1>0, <2>1, <2>2, LeavesContext DEF States
  <2> QED
    BY <1>c, <2>1, <2>2, <2>3, <2>4 DEF Serving, OneMounted, LastMounted
<1>4. CASE EraseChip("shell")
  <2>1. user["shell"].pc = "erase" /\ UNCHANGED <<mounted, contexts, files, story>>
    BY <1>4 DEF EraseChip, In
  <2>2. /\ user'["shell"].pc = "erasing" /\ user'["shell"].was = user["shell"].was
        /\ user'["filesystem"].pc = user["filesystem"].pc
    BY <1>0, <1>4, <1>u, ToMoves DEF EraseChip, Becomes
  <2> QED
    BY <2>1, <2>2 DEF Serving, OneMounted, LastMounted, Context
<1>5. CASE ChipErased("shell")
  <2>1. user["shell"].pc = "erasing" /\ UNCHANGED <<mounted, contexts, files>>
    BY <1>5 DEF ChipErased, In
  <2>2. CASE To("shell", "lfs_format") /\ UNCHANGED story
    <3>1. /\ user'["shell"].pc = "lfs_format" /\ user'["shell"].was = user["shell"].was
          /\ user'["filesystem"].pc = user["filesystem"].pc
      BY <1>0, <1>u, <2>2, ToMoves DEF Becomes
    <3> QED
      BY <2>1, <2>2, <3>1 DEF Serving, OneMounted, LastMounted, Context
  <2>3. CASE Answer("shell", FALSE) /\ Fault
    <3>1. user'["shell"].pc = "idle" /\ ~user'["shell"].told /\ user'["filesystem"].pc = user["filesystem"].pc
      BY <1>0, <1>u, <2>3, AnswerMoves DEF Becomes
    <3>2. story'.faults /\ story'.wild = story.wild
      BY <1>0, <2>3 DEF Fault, StoryTypes
    <3> QED
      BY <2>1, <3>1, <3>2 DEF Serving, OneMounted, LastMounted, Context
  <2> QED
    BY <1>5, <2>2, <2>3 DEF ChipErased
<1>6. CASE EnterFormat("shell")
  <2>1. user["shell"].pc = "lfs_format" /\ UNCHANGED <<mounted, contexts, files>>
    BY <1>6 DEF EnterFormat, In
  <2>2. Enter("shell", "formatting", 1, ContextIs({"fresh", "unmounted"}))
    BY <1>6 DEF EnterFormat
  <2>3. /\ user'["shell"].pc = "formatting" /\ user'["shell"].ctx = Context /\ user'["shell"].was = user["shell"].was
        /\ user'["filesystem"].pc = user["filesystem"].pc
    BY <1>0, <1>u, <2>2, EnterMoves DEF Becomes
  <2>4. ContextIs({"fresh", "unmounted"})
    <3>1. Context # 0 /\ contexts[Context] # "mounted"
      BY <2>1 DEF Serving, LastMounted
    <3>2. contexts[Context] \in States
      BY <1>0, <1>c, <3>1
    <3> QED
      BY <3>1, <3>2 DEF ContextIs, States
  <2>5. ~story'.wild /\ story'.faults = story.faults
    BY <1>0, <1>u, <2>2, <2>4, EnterStory DEF Serving
  <2> QED
    BY <2>1, <2>3, <2>5 DEF Serving, OneMounted, LastMounted, Context
<1>7. CASE LeaveFormat("shell")
  <2>1. user["shell"].pc = "formatting" /\ UNCHANGED <<mounted, files>> /\ user["shell"].ctx = Context
    BY <1>7 DEF LeaveFormat, In, Serving
  <2>2. CASE /\ disk' = "formatted" /\ Leaves("shell", "unmounted") /\ UNCHANGED story
             /\ IF user["shell"].was THEN To("shell", "mount") ELSE Answer("shell", TRUE)
    <3>1. Context' = Context /\ \A i \in 1..Context : contexts'[i] = IF i = Context THEN "unmounted" ELSE contexts[i]
      BY <1>0, <2>1, <2>2, LeavesContext DEF States
    <3>2. CASE user["shell"].was
      <4>1. user'["shell"].pc = "mount" /\ user'["filesystem"].pc = user["filesystem"].pc
        BY <1>0, <1>u, <2>2, <3>2, ToMoves DEF Becomes
      <4> QED
        BY <1>c, <2>1, <2>2, <3>1, <4>1 DEF Serving, OneMounted, LastMounted
    <3>3. CASE ~user["shell"].was
      <4>1. user'["shell"].pc = "idle" /\ user'["filesystem"].pc = user["filesystem"].pc
        BY <1>0, <1>u, <2>2, <3>3, AnswerMoves DEF Becomes
      <4> QED
        BY <1>c, <2>1, <2>2, <3>1, <3>3, <4>1 DEF Serving, OneMounted, LastMounted
    <3> QED
      BY <3>2, <3>3
  <2>3. CASE Answer("shell", FALSE) /\ Fault /\ UNCHANGED <<disk, contexts>>
    <3>1. user'["shell"].pc = "idle" /\ ~user'["shell"].told /\ user'["filesystem"].pc = user["filesystem"].pc
      BY <1>0, <1>u, <2>3, AnswerMoves DEF Becomes
    <3>2. story'.faults /\ story'.wild = story.wild
      BY <1>0, <2>3 DEF Fault, StoryTypes
    <3> QED
      BY <2>1, <2>3, <3>1, <3>2 DEF Serving, OneMounted, LastMounted, Context
  <2> QED
    BY <1>7, <2>2, <2>3 DEF LeaveFormat
<1> QED
  BY <1>1, <1>2, <1>3, <1>4, <1>5, <1>6, <1>7 DEF Formatting

(* The test of a file works on the context the file was opened in.         *)
LEMMA ServingTests ==
    ASSUME LfsTypes, LfsTypes', LfsFlags, OneMounted, Serving, ~story.wild, Testing("shell")
    PROVE  Serving' /\ OneMounted' /\ ~story'.wild
<1>0. /\ UserTypes /\ StoryTypes /\ contexts \in Seq(States) /\ contexts' \in Seq(States) /\ files \in [1..Handles -> 0..Context]
      /\ \A t \in Users : user[t].file \in 1..Handles
  BY DEF LfsTypes, UserTypes, StoryTypes
<1>u. "shell" \in Users /\ "filesystem" \in Users \ {"shell"} /\ Users = {"filesystem", "shell"}
  BY DEF Users
<1>c. Context \in Nat /\ DOMAIN contexts = 1..Context /\ Context' \in Nat /\ DOMAIN contexts' = 1..Context'
  BY <1>0 DEF Context
<1> USE DEF Phase, FileRight, DiskRight, Claimed, Emptying, InTest, LfsPlaces, Inside
<1>s. UNCHANGED <<disk, mounted, contexts>> /\ UNCHANGED Context
  BY DEF Testing, Create, Created, Write, Written, Close, Closed, Reopen, Reopened, Read, ReadDone, Context
<1>n. OneMounted' /\ (LastMounted' <=> LastMounted)
  BY <1>s DEF OneMounted, LastMounted
<1>f. Fault => story'.faults /\ story'.wild = story.wild
  BY <1>0 DEF Fault, StoryTypes
<1>1. ASSUME NEW told, Answer("shell", told), UNCHANGED files \/ UNCHANGED files, UNCHANGED story \/ Fault,
             told => user["shell"].pc \in InTest,
             user["shell"].pc \in {"create"} \cup InTest
      PROVE  Serving' /\ ~story'.wild
  <2>1. /\ user'["shell"].pc = "idle" /\ user'["shell"].told = told
        /\ user'["filesystem"].pc = user["filesystem"].pc
    BY <1>0, <1>1, <1>u, AnswerMoves DEF Becomes
  <2>2. (mounted <=> LastMounted) /\ (told => disk = "formatted") /\ (LastMounted => disk = "formatted")
    BY <1>1 DEF Serving
  <2>3. ~mounted => Context <= 1 \/ story.faults
    BY <1>1 DEF Serving
  <2>4. ~story'.wild /\ (story.faults => story'.faults)
    BY <1>1, <1>f
  <2>5. user'["shell"].told => told
    BY <2>1
  <2>6. mounted' <=> mounted
    BY <1>s
  <2>7. disk' = disk /\ Context' = Context
    BY <1>s
  <2> QED
    BY <1>n, <2>1, <2>2, <2>3, <2>4, <2>5, <2>6, <2>7 DEF Serving
<1>2. ASSUME NEW pc \in InTest, NEW proper, NEW file \in 1..Handles,
             Enter("shell", pc, file, proper), mounted, LastMounted, proper,
             UNCHANGED files,
             pc \in {"creating", "reopening"} => files[file] = 0,
             pc \in {"write", "read"} => files[file] \in {0, Context},
             pc \in {"writing", "close", "closing", "reading"} => files[file] = Context
      PROVE  Serving' /\ ~story'.wild
  <2>1. /\ user'["shell"].pc = pc /\ user'["shell"].ctx = Context /\ user'["shell"].file = file
        /\ user'["filesystem"].pc = user["filesystem"].pc
    BY <1>0, <1>2, <1>u, EnterMoves DEF Becomes
  <2>2. ~story'.wild
    BY <1>0, <1>2, <1>u, EnterStory DEF Serving
  <2>3. disk = "formatted"
    BY <1>2 DEF Serving
  <2> QED
    BY <1>2, <1>n, <1>s, <2>1, <2>2, <2>3 DEF Serving
<1>3. ASSUME NEW pc \in InTest, To("shell", pc), mounted, LastMounted, pc \notin {"creating", "reopening"},
             UNCHANGED story \/ Fault,
             pc \in {"write", "read"} => files'[user["shell"].file] \in {0, Context},
             pc \in {"writing", "close", "closing", "reading"} => files'[user["shell"].file] = Context
      PROVE  Serving' /\ ~story'.wild
  <2>1. /\ user'["shell"].pc = pc /\ user'["shell"].file = user["shell"].file
        /\ user'["filesystem"].pc = user["filesystem"].pc
    BY <1>0, <1>3, <1>u, ToMoves DEF Becomes
  <2>2. ~story'.wild
    BY <1>3, <1>f
  <2>3. disk = "formatted"
    BY <1>3 DEF Serving
  <2> QED
    BY <1>3, <1>n, <1>s, <2>1, <2>2, <2>3 DEF Serving
<1>4. ASSUME NEW pc \in {"creating", "reopening"}, NEW then, Open("shell", pc, then), UNCHANGED files,
             user["shell"].pc \in {"create", "reopen"}
      PROVE  Serving' /\ ~story'.wild
  <2>1. CASE ~mounted \/ ClosedFiles = {}
    BY <1>1, <1>4, <2>1 DEF Open
  <2>2. CASE mounted /\ ClosedFiles # {}
    <3>1. LastMounted
      BY <1>4, <2>2 DEF Serving
    <3>2. Enter("shell", pc, FirstClosed, ContextIs({"mounted"})) /\ ContextIs({"mounted"})
      BY <1>4, <2>2, <3>1 DEF Open, LastMounted, ContextIs
    <3>3. FirstClosed \in 1..Handles /\ files[FirstClosed] = 0
      BY <1>0, <2>2, FirstClosedType
    <3> QED
      BY <1>2, <1>4, <2>2, <3>1, <3>2, <3>3
  <2> QED
    BY <2>1, <2>2
<1>5. ASSUME NEW pc \in {"writing", "reading"}, OnFile("shell", pc), UNCHANGED files,
             user["shell"].pc \in {"write", "read"}
      PROVE  Serving' /\ ~story'.wild
  <2>1. files[user["shell"].file] \in {0, Context} /\ mounted /\ LastMounted
    BY <1>5 DEF Serving
  <2>2. CASE files[user["shell"].file] = 0
    BY <1>1, <1>5, <2>2 DEF OnFile
  <2>3. CASE files[user["shell"].file] = Context /\ files[user["shell"].file] # 0
    <3>1. PICK proper : /\ Enter("shell", pc, user["shell"].file, proper)
                        /\ proper = (ContextIs({"mounted"}) /\ files[user["shell"].file] = Context)
      BY <1>5, <2>3 DEF OnFile
    <3>2. proper
      BY <2>1, <2>3, <3>1 DEF ContextIs, LastMounted
    <3> QED
      BY <1>0, <1>2, <1>5, <1>u, <2>1, <2>3, <3>1, <3>2
  <2> QED
    BY <2>1, <2>2, <2>3
<1>6. ASSUME NEW then \in {"write", "read"}, Opened("shell", then), user["shell"].pc \in {"creating", "reopening"}
      PROVE  Serving' /\ ~story'.wild
  <2>1. mounted /\ LastMounted /\ user["shell"].ctx = Context /\ user["shell"].file \in 1..Handles
    BY <1>0, <1>6, <1>u DEF Serving
  <2>2. To("shell", then) /\ (UNCHANGED story \/ Fault)
    BY <1>6 DEF Opened
  <2>3. files'[user["shell"].file] \in {0, Context}
    <3>1. CASE files' = [files EXCEPT ![user["shell"].file] = user["shell"].ctx]
      BY <1>0, <2>1, <3>1
    <3>2. CASE UNCHANGED files
      <4>1. files[user["shell"].file] \in {0, Context}
        BY <1>6 DEF Serving
      <4> QED
        BY <3>2, <4>1
    <3> QED
      BY <1>6, <3>1, <3>2 DEF Opened
  <2> QED
    BY <1>3, <1>6, <2>1, <2>2, <2>3
<1>7. CASE Create("shell")
  BY <1>n, <1>4, <1>7 DEF Create, In
<1>8. CASE Reopen("shell")
  BY <1>n, <1>4, <1>8 DEF Reopen, In
<1>9. CASE Created("shell")
  BY <1>n, <1>6, <1>9 DEF Created, In
<1>10. CASE Reopened("shell")
  BY <1>n, <1>6, <1>10 DEF Reopened, In
<1>11. CASE Write("shell")
  BY <1>n, <1>5, <1>11 DEF Write, In
<1>12. CASE Read("shell")
  BY <1>n, <1>5, <1>12 DEF Read, In
<1>13. CASE Written("shell")
  <2>1. user["shell"].pc = "writing" /\ UNCHANGED files
    BY <1>13 DEF Written, In
  <2>2. CASE To("shell", "close") /\ UNCHANGED story
    BY <1>n, <1>3, <2>1, <2>2 DEF Serving
  <2>3. CASE Answer("shell", FALSE) /\ Fault
    BY <1>n, <1>1, <2>1, <2>3
  <2> QED
    BY <1>13, <2>2, <2>3 DEF Written
<1>14. CASE Close("shell")
  <2>1. user["shell"].pc = "close" /\ UNCHANGED files /\ files[user["shell"].file] = Context /\ mounted /\ LastMounted
    BY <1>14 DEF Close, In, Serving
  <2>2. PICK proper : /\ Enter("shell", "closing", user["shell"].file, proper)
                      /\ proper = (ContextIs({"mounted"}) /\ files[user["shell"].file] = Context)
    BY <1>14 DEF Close
  <2>3. proper
    BY <2>1, <2>2 DEF ContextIs, LastMounted
  <2> QED
    BY <1>0, <1>2, <1>n, <1>u, <2>1, <2>2, <2>3
<1>15. CASE Closed("shell")
  BY <1>n, <1>3, <1>15 DEF Closed, In, Serving
<1>16. CASE ReadDone("shell")
  <2>1. user["shell"].pc = "reading" /\ UNCHANGED files
    BY <1>16 DEF ReadDone, In
  <2>2. CASE Answer("shell", TRUE) /\ UNCHANGED story
    BY <1>n, <1>1, <2>1, <2>2
  <2>3. CASE Answer("shell", FALSE) /\ Fault
    BY <1>n, <1>1, <2>1, <2>3
  <2> QED
    BY <1>16, <2>2, <2>3 DEF ReadDone
<1> QED
  BY <1>7, <1>8, <1>9, <1>10, <1>11, <1>12, <1>13, <1>14, <1>15, <1>16 DEF Testing

(* The filesystem task mounts at the start; the shell waits. *)
LEMMA StartMounts ==
    ASSUME LfsTypes, LfsTypes', LfsFlags, OneMounted, AtStart, ~story.wild, Mounting("filesystem")
    PROVE  (AtStart' \/ Serving') /\ OneMounted' /\ ~story'.wild
<1>0. /\ UserTypes /\ StoryTypes /\ contexts \in Seq(States) /\ contexts' \in Seq(States) /\ files \in [1..Handles -> 0..Context]
  BY DEF LfsTypes, UserTypes, StoryTypes
<1>u. "filesystem" \in Users /\ "shell" \in Users \ {"filesystem"} /\ Users = {"shell", "filesystem"}
  BY DEF Users
<1>c. Context \in Nat /\ DOMAIN contexts = 1..Context /\ Context' \in Nat /\ DOMAIN contexts' = 1..Context'
  BY <1>0 DEF Context
<1> USE DEF Phase, FileRight, DiskRight, Claimed, Emptying, InTest, LfsPlaces, Inside
<1>1. CASE ClaimMount("filesystem")
  <2>1. user["filesystem"].pc = "mount" /\ ~mounted
    BY <1>1 DEF ClaimMount, In, AtStart, Serving
  <2>2. To("filesystem", "init") /\ mounted'
    BY <1>1, <2>1 DEF ClaimMount
  <2>3. UNCHANGED <<disk, contexts, files, story>>
    BY <1>1 DEF ClaimMount
  <2>4. user'["filesystem"].pc = "init" /\ user'["shell"] = user["shell"]
    BY <1>0, <1>u, <2>2, ToMoves DEF Becomes
  <2> QED
    BY <2>1, <2>2, <2>3, <2>4 DEF AtStart, Serving, OneMounted, LastMounted, Context
<1>2. CASE InitDisk("filesystem")
  <2>1. user["filesystem"].pc = "init" /\ UNCHANGED <<disk, contexts, files>>
    BY <1>2 DEF InitDisk, In
  <2>2. CASE To("filesystem", "allocate") /\ UNCHANGED <<mounted, story>>
    <3>1. user'["filesystem"].pc = "allocate" /\ user'["shell"] = user["shell"]
      BY <1>0, <1>u, <2>2, ToMoves DEF Becomes
    <3> QED
      BY <2>1, <2>2, <3>1 DEF AtStart, Serving, OneMounted, LastMounted, Context
  <2>3. CASE Answer("filesystem", FALSE) /\ mounted' = FALSE /\ Fault
    <3>1. user'["filesystem"].pc = "idle" /\ ~user'["filesystem"].told /\ user'["shell"] = user["shell"]
      BY <1>0, <1>u, <2>3, AnswerMoves DEF Becomes
    <3>2. story'.faults /\ story'.wild = story.wild
      BY <1>0, <2>3 DEF Fault, StoryTypes
    <3> QED
      BY <2>1, <2>3, <3>1, <3>2 DEF AtStart, Serving, OneMounted, LastMounted, Context
  <2> QED
    BY <1>2, <2>2, <2>3 DEF InitDisk
<1>3. CASE NewContext("filesystem")
  <2>1. user["filesystem"].pc = "allocate" /\ UNCHANGED <<disk, mounted, files, story>>
    BY <1>3 DEF NewContext, In
  <2>2. user'["filesystem"].pc = "lfs_mount" /\ user'["shell"] = user["shell"]
    BY <1>0, <1>3, <1>u, ToMoves DEF NewContext, Becomes
  <2>3. /\ Context' = Context + 1 /\ contexts'[Context'] = "fresh"
        /\ \A i \in 1..Context : contexts'[i] = contexts[i]
    BY <1>0, <1>3 DEF NewContext, Context, States
  <2>4. \A i \in DOMAIN contexts' : contexts'[i] # "mounted"
    BY <1>c, <2>1, <2>3 DEF AtStart, Serving, OneMounted, LastMounted
  <2> QED
    BY <1>c, <2>1, <2>2, <2>3, <2>4 DEF AtStart, Serving, OneMounted, LastMounted
<1>4. CASE EnterMount("filesystem")
  <2>1. user["filesystem"].pc = "lfs_mount" /\ UNCHANGED <<disk, mounted, contexts, files>>
    BY <1>4 DEF EnterMount, In
  <2>2. Enter("filesystem", "mounting", 1, ContextIs({"fresh"}))
    BY <1>4 DEF EnterMount
  <2>3. user'["filesystem"].pc = "mounting" /\ user'["filesystem"].ctx = Context /\ user'["shell"] = user["shell"]
    BY <1>0, <1>u, <2>2, EnterMoves DEF Becomes
  <2>4. ContextIs({"fresh"})
    BY <2>1 DEF AtStart, Serving, ContextIs
  <2>5. ~story'.wild /\ story'.faults = story.faults
    BY <1>0, <1>u, <2>2, <2>4, EnterStory DEF AtStart, Serving
  <2> QED
    BY <2>1, <2>3, <2>5 DEF AtStart, Serving, OneMounted, LastMounted, Context
<1>5. CASE LeaveMount("filesystem")
  <2>1. user["filesystem"].pc = "mounting" /\ UNCHANGED <<disk, files>> /\ user["filesystem"].ctx = Context
    BY <1>5 DEF LeaveMount, In, AtStart, Serving
  <2>2. CASE disk = "formatted" /\ Leaves("filesystem", "mounted") /\ Answer("filesystem", TRUE) /\ UNCHANGED <<mounted, story>>
    <3>1. user'["filesystem"].pc = "idle" /\ user'["shell"] = user["shell"]
      BY <1>0, <1>u, <2>2, AnswerMoves DEF Becomes
    <3>2. Context' = Context /\ \A i \in 1..Context : contexts'[i] = IF i = Context THEN "mounted" ELSE contexts[i]
      BY <1>0, <2>1, <2>2, LeavesContext DEF States
    <3> QED
      BY <1>c, <2>1, <2>2, <3>1, <3>2 DEF AtStart, Serving, OneMounted, LastMounted
  <2>3. CASE /\ Leaves("filesystem", "unmounted") /\ mounted' = FALSE /\ Answer("filesystem", FALSE)
             /\ IF disk = "formatted" THEN Fault ELSE UNCHANGED story
    <3>1. user'["filesystem"].pc = "idle" /\ ~user'["filesystem"].told /\ user'["shell"] = user["shell"]
      BY <1>0, <1>u, <2>3, AnswerMoves DEF Becomes
    <3>2. Context' = Context /\ \A i \in 1..Context : contexts'[i] = IF i = Context THEN "unmounted" ELSE contexts[i]
      BY <1>0, <2>1, <2>3, LeavesContext DEF States
    <3>4. story'.wild = story.wild
      BY <1>0, <2>3 DEF Fault, StoryTypes
    <3> QED
      BY <1>c, <2>1, <2>3, <3>1, <3>2, <3>4 DEF AtStart, Serving, OneMounted, LastMounted
  <2> QED
    BY <1>5, <2>2, <2>3 DEF LeaveMount
<1> QED
  BY <1>1, <1>2, <1>3, <1>4, <1>5 DEF Mounting

(* The invariant holds when the firmware starts for the first time. *)
LEMMA LfsStart == LfsInit => LfsInv
<1> SUFFICES ASSUME LfsInit PROVE LfsInv
  OBVIOUS
<1>0. /\ mounted = FALSE /\ contexts = <<>> /\ disk \in {"blank", "formatted"} /\ boots = 1 /\ commands = 0
      /\ files = [h \in 1..Handles |-> 0]
      /\ user = [t \in Users |-> IF t = "shell" THEN Resting ELSE [Resting EXCEPT !.pc = "mount"]]
      /\ story = [raced |-> FALSE, stuck |-> FALSE, wild |-> FALSE, faults |-> FALSE, tests |-> 0]
  BY DEF LfsInit, Start
<1>1. Context = 0 /\ contexts \in Seq(States) /\ DOMAIN contexts = {}
  BY <1>0 DEF Context
<1>2. PICK r : r = [Resting EXCEPT !.pc = "mount"]
  OBVIOUS
<1>3. IsUser(Resting) /\ Resting.pc = "idle" /\ Resting.ctx = 0 /\ Resting.file = 1
  BY DEF IsUser, Resting
<1>4. IsUser(r) /\ r.pc = "mount" /\ r.ctx = 0 /\ r.file = 1
  BY <1>2, <1>3 DEF IsUser
<1>5. Resting.was = FALSE /\ Resting.told = FALSE
  BY DEF Resting
<1>6. r.was = FALSE /\ r.told = FALSE
  <2>1. r.was = Resting.was /\ r.told = Resting.told
    BY <1>2, <1>3 DEF IsUser
  <2> QED
    BY <1>5, <2>1
<1>7. /\ DOMAIN user = Users /\ user["shell"] = Resting /\ user["filesystem"] = r
      /\ Users = {"shell", "filesystem"}
  BY <1>0, <1>2 DEF Users
<1>8. LfsFlags
  BY <1>0, <1>5, <1>6, <1>7, Zenon DEF LfsFlags
<1>9. LfsTypes
  <2>1. story.tests \in 0..commands /\ IsStory(story)
    BY <1>0 DEF IsStory
  <2>2. \A t \in Users : IsUser(user[t]) /\ user[t].ctx \in 0..Context /\ user[t].file \in 1..Handles
    BY <1>1, <1>3, <1>4, <1>7, LittleFsAssumption
  <2>3. files \in [1..Handles -> 0..Context] /\ boots \in 1..MaxBoots /\ commands \in 0..MaxCommands
    BY <1>0, <1>1, LittleFsAssumption
  <2> QED
    BY <1>0, <1>1, <1>7, <2>1, <2>2, <2>3 DEF LfsTypes, IsUser, IsStory
<1>10. TameInv
  BY <1>0, <1>1, <1>3, <1>4, <1>5, <1>7 DEF TameInv, OneMounted, AtStart, Phase, Claimed, Emptying, InTest, LastMounted
<1> QED
  BY <1>8, <1>9, <1>10 DEF LfsInv

(* After a power failure the firmware starts again. *)
LEMMA PowerStarts == ASSUME PowerCycle PROVE TameInv'
<1>0. /\ mounted' = FALSE /\ contexts' = <<>>
      /\ user' = [t \in Users |-> IF t = "shell" THEN Resting ELSE [Resting EXCEPT !.pc = "mount"]]
      /\ story' = [raced |-> FALSE, stuck |-> FALSE, wild |-> FALSE, faults |-> FALSE, tests |-> 0]
  BY DEF PowerCycle, Start
<1>1. Context' = 0 /\ DOMAIN contexts' = {}
  BY <1>0 DEF Context
<1>2. PICK r : r = [Resting EXCEPT !.pc = "mount"]
  OBVIOUS
<1>3. Resting.pc = "idle" /\ ~Resting.told
  BY DEF Resting
<1>4. r.pc = "mount"
  BY <1>2 DEF Resting
<1>5. user'["shell"] = Resting /\ user'["filesystem"] = r
  BY <1>0, <1>2 DEF Users
<1> QED
  BY <1>0, <1>1, <1>3, <1>4, <1>5 DEF TameInv, OneMounted, AtStart, Phase, Claimed, Emptying, InTest, LastMounted

(* Whoever raced or is stuck stays so until the power fails. *)
LEMMA StaysWild ==
    ASSUME LfsTypes, LfsFlags, [LfsNext]_lfsVars, ~PowerCycle, Tame' PROVE Tame
<1>0. IsStory(story) /\ StoryTypes
  BY DEF LfsTypes, IsStory, StoryTypes
<1>1. CASE FormatCommand \/ TestCommand
  <2>1. PICK x : x = (story.raced \/ ~In("filesystem", "idle"))
    OBVIOUS
  <2>2. \E n : story' = [story EXCEPT !.raced = x, !.tests = n]
    BY <1>1, <2>1 DEF FormatCommand, TestCommand, Command
  <2>3. story'.raced = x /\ story'.stuck = story.stuck
    BY <1>0, <2>2 DEF IsStory
  <2> QED
    BY <2>1, <2>3 DEF Tame
<1>2. CASE ~(FormatCommand \/ TestCommand)
  <2>1. \/ UNCHANGED story
        \/ story' = [story EXCEPT !.faults = TRUE]
        \/ story' = [story EXCEPT !.stuck = TRUE]
        \/ \E t \in Users : \E pc, file, proper : Enter(t, pc, file, proper)
    BY <1>2 DEF LfsNext, Mounting, ClaimMount, InitDisk, NewContext, Fault, Open, OnFile,
         EnterMount, LeaveMount, Formatting, Unmount, EnterUnmount, LeaveUnmount, EraseChip, ChipErased,
         EnterFormat, LeaveFormat, Testing, Create, Created, Opened, Write, Written, Close, Closed, Reopen,
         Reopened, Read, ReadDone, lfsVars, Users
  <2>2. CASE \E t \in Users : \E pc, file, proper : Enter(t, pc, file, proper)
    <3>1. story'.raced = story.raced /\ story'.stuck = story.stuck
      BY <1>0, <2>2, EnterStory
    <3> QED
      BY <3>1 DEF Tame
  <2>3. CASE story' = [story EXCEPT !.faults = TRUE]
    <3>1. story'.raced = story.raced /\ story'.stuck = story.stuck
      BY <1>0, <2>3 DEF IsStory
    <3> QED
      BY <3>1 DEF Tame
  <2>4. CASE story' = [story EXCEPT !.stuck = TRUE]
    <3>1. story'.raced = story.raced /\ story'.stuck
      BY <1>0, <2>4 DEF IsStory
    <3> QED
      BY <3>1 DEF Tame
  <2> QED
    BY <2>1, <2>2, <2>3, <2>4 DEF Tame
<1> QED
  BY <1>1, <1>2

(* A command that is given when the mount has ended finds the file system  *)
(* at rest.                                                                *)
LEMMA CommandServes ==
    ASSUME LfsTypes, LfsTypes', LfsFlags, ~story.wild, OneMounted, AtStart \/ Serving, Tame',
           FormatCommand \/ TestCommand
    PROVE  Serving' /\ OneMounted' /\ ~story'.wild
<1>0. UserTypes /\ IsStory(story) /\ contexts \in Seq(States)
  BY DEF LfsTypes, UserTypes, IsStory
<1>c. Context \in Nat /\ DOMAIN contexts = 1..Context
  BY <1>0 DEF Context
<1>1. PICK pc, was, n :
         /\ Command(pc, was, n)
         /\ \/ pc = "create" /\ was = FALSE
            \/ /\ pc = IF Context = 0 THEN "idle" ELSE IF mounted THEN "unmount" ELSE "erase"
               /\ was = mounted
  BY DEF FormatCommand, TestCommand
<1>2. /\ user'["shell"].pc = pc /\ ~user'["shell"].told /\ user'["shell"].was = was
      /\ user'["filesystem"] = user["filesystem"]
  BY <1>0, <1>1, CommandMoves DEF Becomes, Users
<1>3. user["filesystem"].pc = "idle" /\ story'.wild = story.wild /\ story'.faults = story.faults
  <2>1. PICK x : x = (story.raced \/ ~In("filesystem", "idle"))
    OBVIOUS
  <2>2. story' = [story EXCEPT !.raced = x, !.tests = story.tests + n]
    BY <1>1, <2>1 DEF Command
  <2>3. story'.raced = x /\ story'.wild = story.wild /\ story'.faults = story.faults
    BY <1>0, <2>2 DEF IsStory
  <2> QED
    BY <2>1, <2>3 DEF Tame, In
<1>4. Serving /\ user["shell"].pc = "idle"
  BY <1>1, <1>3 DEF AtStart, Claimed, Command, In
<1>5. UNCHANGED <<disk, mounted, contexts, files>> /\ UNCHANGED Context
  BY <1>1 DEF Command, Context
<1>6. OneMounted' /\ (LastMounted' <=> LastMounted)
  BY <1>5 DEF OneMounted, LastMounted
<1>7. /\ mounted <=> LastMounted
      /\ LastMounted => disk = "formatted"
      /\ ~mounted => Context <= 1 \/ story.faults
  BY <1>4 DEF Serving, Phase, DiskRight
<1>8. LastMounted => Context # 0
  BY DEF LastMounted
<1>10. CASE pc = "create" /\ was = FALSE
  BY <1>2, <1>3, <1>5, <1>6, <1>7, <1>8, <1>10
     DEF Serving, Phase, FileRight, DiskRight, LfsPlaces, Claimed, Emptying, InTest
<1>11. CASE pc = "idle" /\ Context = 0
  BY <1>2, <1>3, <1>5, <1>6, <1>7, <1>8, <1>11
     DEF Serving, Phase, FileRight, DiskRight, LfsPlaces, Claimed, Emptying, InTest
<1>12. CASE pc = "unmount" /\ mounted /\ was = mounted /\ Context # 0
  BY <1>2, <1>3, <1>5, <1>6, <1>7, <1>8, <1>12
     DEF Serving, Phase, FileRight, DiskRight, LfsPlaces, Claimed, Emptying, InTest
<1>13. CASE pc = "erase" /\ ~mounted /\ was = mounted /\ Context # 0
  BY <1>2, <1>3, <1>5, <1>6, <1>7, <1>8, <1>13
     DEF Serving, Phase, FileRight, DiskRight, LfsPlaces, Claimed, Emptying, InTest
<1>14. Serving'
  BY <1>1, <1>10, <1>11, <1>12, <1>13
<1> QED
  BY <1>3, <1>6, <1>14

(* Every step keeps the phases right while the story is tame. *)
LEMMA TameStep ==
    ASSUME LfsTypes, LfsTypes', LfsFlags, TameInv, [LfsNext]_lfsVars PROVE TameInv'
<1>1. CASE PowerCycle
  BY <1>1, PowerStarts
<1>2. CASE ~PowerCycle
  <2> SUFFICES ASSUME Tame' PROVE ~story'.wild /\ OneMounted' /\ (AtStart' \/ Serving')
    BY DEF TameInv
  <2>1. Tame
    BY <1>2, StaysWild
  <2>2. ~story.wild /\ OneMounted /\ (AtStart \/ Serving)
    BY <2>1 DEF TameInv
  <2>3. CASE FormatCommand \/ TestCommand
    BY <2>2, <2>3, CommandServes
  <2>4. CASE Mounting("filesystem")
    <3>1. user["filesystem"].pc # "idle"
      BY <2>4 DEF Mounting, ClaimMount, InitDisk, NewContext, EnterMount, LeaveMount, In
    <3>2. AtStart
      BY <2>2, <3>1 DEF Serving
    <3> QED
      BY <2>2, <2>4, <3>2, StartMounts
  <2>5. CASE Mounting("shell") \/ Formatting("shell") \/ Testing("shell")
    <3>1. user["shell"].pc # "idle"
      BY <2>5 DEF Mounting, ClaimMount, InitDisk, NewContext, EnterMount, LeaveMount, In,
           Formatting, Unmount, EnterUnmount, LeaveUnmount, EraseChip, ChipErased,
           EnterFormat, LeaveFormat, Testing, Create, Created, Write, Written, Close, Closed, Reopen,
           Reopened, Read, ReadDone
    <3>2. Serving
      BY <2>2, <3>1 DEF AtStart
    <3>3. ~story'.stuck
      BY DEF Tame
    <3> QED
      BY <2>2, <2>5, <3>2, <3>3, ServingMounts, ServingFormats, ServingTests
  <2>6. CASE UNCHANGED lfsVars
    <3>1. UNCHANGED <<disk, mounted, contexts, files, user, story>>
      BY <2>6 DEF lfsVars
    <3> QED
      BY <2>2, <3>1 DEF OneMounted, AtStart, Serving, Phase, FileRight, DiskRight, LastMounted, Context
  <2> QED
    BY <1>2, <2>3, <2>4, <2>5, <2>6 DEF LfsNext, Users
<1> QED
  BY <1>1, <1>2

(* The inductive invariant of the wrapper around littlefs. *)
THEOREM LfsInvariant == LfsSpec => []LfsInv
<1>1. LfsInv /\ [LfsNext]_lfsVars => LfsInv'
  BY LfsTypesStep, LfsFlagsStep, TameStep DEF LfsInv
<1> QED
  BY <1>1, LfsStart, PTL DEF LfsSpec

(* The variables have their types. *)
THEOREM LfsTypeCorrect == LfsSpec => []LfsTypeOK
<1>1. LfsInv => LfsTypeOK
  <2> SUFFICES ASSUME LfsInv PROVE LfsTypeOK
    OBVIOUS
  <2>1. LfsFlags /\ LfsTypes
    BY DEF LfsInv
  <2>2. story.tests \in 0..MaxCommands
    BY <2>1, LittleFsAssumption DEF LfsTypes
  <2>3. story \in [raced : BOOLEAN, stuck : BOOLEAN, wild : BOOLEAN, faults : BOOLEAN, tests : 0..MaxCommands]
    BY <2>1, <2>2, Zenon DEF LfsTypes, LfsFlags
  <2>4. \A t \in Users : user[t].was \in BOOLEAN /\ user[t].told \in BOOLEAN
    BY <2>1, Zenon DEF LfsFlags
  <2>5. mounted \in BOOLEAN
    BY <2>1, Zenon DEF LfsFlags
  <2>6. /\ disk \in {"blank", "formatted", "torn"}
        /\ boots \in 1..MaxBoots /\ commands \in 0..MaxCommands
        /\ contexts \in Seq({"fresh", "mounted", "unmounted"})
        /\ files \in [1..Handles -> 0..Context]
        /\ \A t \in Users : user[t].ctx \in 0..Context /\ user[t].file \in 1..Handles
    BY <2>1 DEF LfsTypes, States
  <2> QED
    BY <2>3, <2>4, <2>5, <2>6, Zenon DEF LfsTypeOK
<1> QED
  BY <1>1, LfsInvariant, PTL

(* The two tasks never use the library at once, nor on a context or a file *)
(* that is not right for the call, unless the shell was given a command    *)
(* while the file system was being mounted, or an unmount failed: nothing  *)
(* in filesystem.hpp but the order of the calls keeps them apart.          *)
THEOREM WildCorrect == LfsSpec => []WildOnlyInRace
<1>1. LfsInv => WildOnlyInRace
  BY DEF LfsInv, TameInv, Tame, WildOnlyInRace
<1> QED
  BY <1>1, LfsInvariant, PTL

(* m_mounted tells the truth while nothing runs, with the same exceptions: *)
(* the disk is formatted and the last context the only mounted one, or     *)
(* none is mounted; a command that reported success left a formatted disk; *)
(* and without a fault of the device the file system is mounted again.     *)
THEOREM FlagCorrect == LfsSpec => []FlagTellsTruth
<1>1. LfsInv => FlagTellsTruth
  <2> SUFFICES ASSUME LfsInv, Quiet, ~story.raced, ~story.stuck
      PROVE  /\ mounted => disk = "formatted" /\ ContextIs({"mounted"})
             /\ \A i \in DOMAIN contexts : contexts[i] = "mounted" <=> mounted /\ i = Context
             /\ user["shell"].told => disk = "formatted"
             /\ ~mounted => Context <= 1 \/ story.faults
    BY DEF FlagTellsTruth
  <2>1. user["shell"].pc = "idle" /\ user["filesystem"].pc = "idle"
    BY DEF Quiet, In, Users
  <2>2. OneMounted /\ Serving
    BY <2>1 DEF LfsInv, TameInv, Tame, AtStart, Claimed
  <2>3. /\ mounted <=> LastMounted
        /\ LastMounted => disk = "formatted"
        /\ user["shell"].told => disk = "formatted"
        /\ ~mounted => Context <= 1 \/ story.faults
    BY <2>1, <2>2 DEF Serving, Phase, DiskRight
  <2>4. LastMounted => Context # 0
    BY DEF LastMounted
  <2>5. \A i \in DOMAIN contexts : contexts[i] = "mounted" <=> mounted /\ i = Context
    <3> SUFFICES ASSUME NEW i \in DOMAIN contexts PROVE contexts[i] = "mounted" <=> mounted /\ i = Context
      OBVIOUS
    <3>1. ASSUME contexts[i] = "mounted" PROVE mounted /\ i = Context
      <4>1. i = Context /\ i # 0
        BY <2>2, <3>1 DEF OneMounted, LfsInv, LfsTypes
      <4> QED
        BY <2>3, <3>1, <4>1 DEF LastMounted
    <3>2. ASSUME mounted, i = Context PROVE contexts[i] = "mounted"
      BY <2>3, <3>2 DEF LastMounted
    <3> QED
      BY <3>1, <3>2
  <2> QED
    BY <2>3, <2>4, <2>5 DEF ContextIs, LastMounted
<1> QED
  BY <1>1, LfsInvariant, PTL
=============================================================================

--------------------------- MODULE UartPort_proofs ---------------------------
(***************************************************************************)
(* Proofs about the two sides of the serial port and about the port.       *)
(* For every number of readers, buffer size and byte count, read() gives   *)
(* the bytes of the line in order, without repeating one and without a     *)
(* gap until the DMA laps the reader.  For any tasks, sizes and numbers of *)
(* calls, the bytes of a write leave in order and together, and a write    *)
(* which reports all of them is right.  The port has both.                 *)
(***************************************************************************)
EXTENDS UartPort, TLAPS

(*---------------------------- The receiver ------------------------------*)

LEMMA InitTypes == Init => TypeOK
<1> SUFFICES ASSUME Init PROVE TypeOK
  OBVIOUS
<1> USE UartAssumption DEF Init, Slots
<1>1. /\ wpos \in Slots /\ written \in 0..MaxBytes /\ rpos \in 0..N
      /\ holder \in Readers \cup {NoReader}
      /\ last \in Int /\ phantoms \in Nat
  OBVIOUS
<1>2. irq \in BOOLEAN /\ idle \in BOOLEAN /\ sem \in BOOLEAN /\ lost \in BOOLEAN
  OBVIOUS
<1>3. buf \in [Slots -> Int]
  OBVIOUS
<1>4. pc \in [Readers -> {"idle", "lock", "check", "wait", "take", "load"}]
  OBVIOUS
<1>5. /\ left \in [Readers -> Nat] /\ polls \in [Readers -> Nat]
      /\ index \in [Readers -> 0..N]
  OBVIOUS
<1>6. tmo \in [Readers -> Nat \cup {Forever}]
  OBVIOUS
<1> QED
  BY <1>1, <1>2, <1>3, <1>4, <1>5, <1>6 DEF TypeOK

LEMMA NextTypes == TypeOK /\ LeftInv /\ [Next]_vars => TypeOK' /\ LeftInv'
<1> SUFFICES ASSUME TypeOK, LeftInv, [Next]_vars
             PROVE  TypeOK' /\ LeftInv'
  OBVIOUS
<1> USE UartAssumption DEF TypeOK, LeftInv, Slots
<1>1. CASE DmaStore
  BY <1>1 DEF DmaStore, reader
<1>2. CASE LineIdle
  BY <1>2 DEF LineIdle, reader, ghosts
<1>3. CASE InterruptHandler
  BY <1>3 DEF InterruptHandler, reader, ghosts
<1>4. ASSUME NEW r \in Readers, Call(r) PROVE TypeOK' /\ LeftInv'
  BY <1>4 DEF Call, line, ghosts
<1>5. ASSUME NEW r \in Readers, Lock(r) PROVE TypeOK' /\ LeftInv'
  BY <1>5 DEF Lock, line, ghosts
<1>6. ASSUME NEW r \in Readers, Check(r) PROVE TypeOK' /\ LeftInv'
  BY <1>6 DEF Check, line, ghosts
<1>7. ASSUME NEW r \in Readers, Woken(r) PROVE TypeOK' /\ LeftInv'
  BY <1>7 DEF Woken, line, ghosts
<1>8. ASSUME NEW r \in Readers, PollAgain(r) PROVE TypeOK' /\ LeftInv'
  BY <1>8 DEF PollAgain, line, ghosts
<1>9. ASSUME NEW r \in Readers, TimedOut(r) PROVE TypeOK' /\ LeftInv'
  BY <1>9 DEF TimedOut, line, ghosts
<1>10. ASSUME NEW r \in Readers, Take(r) PROVE TypeOK' /\ LeftInv'
  BY <1>10 DEF Take, line, ghosts
<1>11. ASSUME NEW r \in Readers, Load(r) PROVE TypeOK' /\ LeftInv'
  <2>1. index[r] \in 0..N /\ left[r] \in Nat /\ left[r] >= 1
    BY <1>11 DEF Load
  <2>2. last' \in Int /\ phantoms' \in Nat
    BY <1>11, <2>1 DEF Load
  <2>3. left[r] # 1 => left[r] - 1 >= 1
    BY <2>1
  <2>4. left' \in [Readers -> Nat] /\ polls' \in [Readers -> Nat]
    BY <1>11, <2>1 DEF Load
  <2>5. /\ holder' \in Readers \cup {NoReader}
        /\ pc' \in [Readers -> {"idle", "lock", "check", "wait", "take", "load"}]
    BY <1>11 DEF Load
  <2>6. LeftInv'
    BY <1>11, <2>1, <2>3 DEF Load
  <2>7. UNCHANGED <<buf, wpos, written, irq, idle, sem, rpos, tmo, index, lost>>
    BY <1>11 DEF Load, line
  <2> QED
    BY <2>2, <2>4, <2>5, <2>6, <2>7
<1>12. CASE UNCHANGED vars
  BY <1>12 DEF vars, line, reader, ghosts
<1> QED
  BY <1>1, <1>2, <1>3, <1>4, <1>5, <1>6, <1>7, <1>8, <1>9, <1>10, <1>11,
     <1>12 DEF Next, Read

-----------------------------------------------------------------------------
(* Only the owner of m_read_lock is past the lock. *)
LEMMA NextLock == TypeOK /\ LockInv /\ [Next]_vars => LockInv'
<1> SUFFICES ASSUME TypeOK, LockInv, [Next]_vars
             PROVE  LockInv'
  OBVIOUS
<1> USE UartAssumption DEF TypeOK, LockInv
<1>1. CASE DmaStore
  BY <1>1 DEF DmaStore, reader
<1>2. CASE LineIdle
  BY <1>2 DEF LineIdle, reader
<1>3. CASE InterruptHandler
  BY <1>3 DEF InterruptHandler, reader
<1>4. ASSUME NEW r \in Readers, Call(r) PROVE LockInv'
  BY <1>4 DEF Call
<1>5. ASSUME NEW r \in Readers, Read(r) PROVE LockInv'
  BY <1>5 DEF Read, Lock, Check, Woken, PollAgain, TimedOut, Take, Load
<1>6. CASE UNCHANGED vars
  BY <1>6 DEF vars, reader
<1> QED
  BY <1>1, <1>2, <1>3, <1>4, <1>5, <1>6 DEF Next

-----------------------------------------------------------------------------
DataInv == IndexInv /\ BufferInv /\ OrderInv /\ GapInv /\ LapInv

(* A step that neither moves data nor lets a reader begin or end a copy. *)
Quiet == /\ UNCHANGED <<buf, wpos, written, rpos, index, last, lost, phantoms>>
         /\ \A r \in Readers : pc'[r] = "take" => pc[r] = "take"
         /\ \A r \in Readers : pc'[r] = "load" <=> pc[r] = "load"

LEMMA InitData == Init => DataInv
<1> SUFFICES ASSUME Init PROVE DataInv
  OBVIOUS
<1> USE UartAssumption DEF Init, Slots, Age, Front, Copying, Unread
<1>1. IndexInv
  BY DEF IndexInv
<1>2. BufferInv
  BY DEF BufferInv
<1>3. OrderInv
  BY DEF OrderInv
<1>4. GapInv
  BY DEF GapInv
<1>5. LapInv
  BY DEF LapInv
<1> QED
  BY <1>1, <1>2, <1>3, <1>4, <1>5 DEF DataInv

LEMMA QuietData == DataInv /\ Quiet => DataInv'
<1> SUFFICES ASSUME DataInv, Quiet PROVE DataInv'
  OBVIOUS
<1> USE DEF DataInv, Quiet
<1>1. IndexInv'
  BY DEF IndexInv
<1>2. BufferInv'
  BY DEF BufferInv, Age, Slots
<1>3. OrderInv'
  <2>1. /\ Front' = Front /\ \A i \in Int : Age(i)' = Age(i)
        /\ \A r \in Readers : Copying(r)' <=> Copying(r)
    BY DEF Front, Age, Copying
  <2>2. Age(Front)' = Age(Front) /\ Age(rpos)' = Age(rpos)
    BY DEF Front, Age
  <2>3. \A r \in Readers : Age(index[r])' = Age(index[r])
    BY DEF Age
  <2>4. /\ last' \in -1..(written' - 1)
        /\ Front' # wpos' => last' < written' - Age(Front)'
    BY <2>1, <2>2 DEF OrderInv
  <2>5. ASSUME NEW r \in Readers
        PROVE  /\ pc'[r] = "take" /\ rpos' # N => last' < written' - Age(rpos)'
               /\ Copying(r)' => last' < written' - Age(index[r])'
    BY <2>1, <2>2, <2>3 DEF OrderInv
  <2> QED
    BY <2>4, <2>5 DEF OrderInv
<1>4. GapInv'
  BY DEF GapInv, Age, Front, Copying, Unread
<1>5. LapInv'
  BY DEF LapInv
<1> QED
  BY <1>1, <1>2, <1>3, <1>4, <1>5

(* A store makes every slot one step older but the one it replaces. *)
LEMMA StoreData == TypeOK /\ DataInv /\ DmaStore => DataInv'
<1> SUFFICES ASSUME TypeOK, DataInv, DmaStore PROVE DataInv'
  OBVIOUS
<1> USE UartAssumption DEF TypeOK, DataInv, DmaStore, Slots, reader
<1>1. \A i \in Slots : Age(i)' = IF i = wpos THEN 1 ELSE Age(i) + 1
  BY DEF Age
<1>2. Age(wpos) = N /\ \A i \in Slots : Age(i) \in 1..N /\ (Age(i) = N => i = wpos)
  BY DEF Age
<1>3. Front \in Slots /\ Front' = Front
  BY DEF Front
<1>4. \A r \in Readers : (Copying(r)' <=> Copying(r)) /\ (Copying(r) => index[r] \in Slots)
  BY DEF Copying
<1>5. IndexInv'
  BY DEF IndexInv
<1>6. BufferInv'
  <2> SUFFICES ASSUME NEW i \in Slots PROVE buf'[i] = written' - Age(i)'
    BY DEF BufferInv
  <2>1. buf[i] = written - Age(i) /\ Age(i) \in 1..N
    BY <1>2 DEF BufferInv
  <2>2. CASE i = wpos
    <3>1. buf'[i] = written
      BY <2>2
    <3>2. Age(i)' = 1
      BY <1>1, <2>2
    <3> QED
      BY <3>1, <3>2
  <2>3. CASE i # wpos
    <3>1. buf'[i] = buf[i]
      BY <2>3
    <3>2. Age(i)' = Age(i) + 1
      BY <1>1, <2>3
    <3> QED
      BY <2>1, <3>1, <3>2
  <2> QED
    BY <2>2, <2>3
<1>7. OrderInv'
  <2>1. ASSUME NEW i \in Slots, last < written - Age(i)
        PROVE  last < written' - Age(i)'
    <3>1. CASE i = wpos
      BY <1>1, <1>2, <2>1, <3>1
    <3>2. CASE i # wpos
      <4>1. Age(i)' = Age(i) + 1 /\ Age(i) \in 1..N
        BY <1>1, <1>2, <3>2
      <4> QED
        BY <2>1, <4>1
    <3> QED
      BY <3>1, <3>2
  <2>2. last' \in -1..(written' - 1)
    BY DEF OrderInv
  <2>3. Front' # wpos' => last' < written' - Age(Front)'
    <3>1. CASE Front = wpos
      BY <1>1, <1>3, <3>1 DEF OrderInv
    <3>2. CASE Front # wpos
      BY <1>3, <2>1, <3>2 DEF OrderInv
    <3> QED
      BY <3>1, <3>2
  <2>4. ASSUME NEW r \in Readers, pc[r] = "take", rpos # N
        PROVE  last' < written' - Age(rpos)'
    BY <2>1, <2>4 DEF OrderInv
  <2>5. ASSUME NEW r \in Readers, Copying(r)
        PROVE  last' < written' - Age(index[r])'
    BY <1>4, <2>1, <2>5 DEF OrderInv
  <2> QED
    BY <1>3, <1>4, <2>2, <2>3, <2>4, <2>5 DEF OrderInv
<1>8. GapInv'
  <2> SUFFICES ASSUME ~lost' PROVE GapInv'
    BY DEF GapInv
  <2>1. ~lost /\ ~(buf[wpos] > last)
    OBVIOUS
  <2>2. buf[wpos] = written - N
    BY <1>2 DEF BufferInv
  <2>3. Unread < N /\ Unread' = Unread + 1 /\ Unread \in 0..N
    BY <2>1, <2>2 DEF Unread, OrderInv
  <2>4. ASSUME NEW i \in Slots, Age(i) = IF Unread = 0 THEN N ELSE Unread
        PROVE  Age(i)' = Unread'
    <3>1. CASE Unread = 0
      BY <1>1, <1>2, <2>3, <2>4, <3>1
    <3>2. CASE Unread # 0
      <4>1. Age(i) = Unread /\ Age(i) # N
        BY <2>3, <2>4, <3>2
      <4>2. i # wpos
        BY <1>2, <4>1
      <4> QED
        BY <1>1, <2>3, <4>1, <4>2
    <3> QED
      BY <3>1, <3>2
  <2>5. (\A r \in Readers : ~Copying(r)) => Age(Front)' = Unread'
    BY <1>3, <2>1, <2>4 DEF GapInv
  <2>6. ASSUME NEW r \in Readers, Copying(r)
        PROVE  Age(index[r])' = Unread'
    <3>1. index[r] \in Slots /\ Age(index[r]) = Unread
      BY <1>4, <2>1, <2>6 DEF GapInv
    <3>2. Unread # 0
      BY <1>2, <3>1
    <3> QED
      BY <2>4, <3>1, <3>2
  <2> QED
    BY <1>3, <1>4, <2>3, <2>5, <2>6 DEF GapInv
<1>9. LapInv'
  BY DEF LapInv
<1> QED
  BY <1>5, <1>6, <1>7, <1>8, <1>9

(* Only one reader is past the lock, so no other one copies or will copy. *)
LEMMA Alone ==
    ASSUME LockInv, NEW r \in Readers, pc[r] \notin {"idle", "lock"},
           NEW q \in Readers, q # r
    PROVE  pc[q] \in {"idle", "lock"}
BY DEF LockInv

(* A reader that found the buffer non-empty may copy. *)
LEMMA CheckData ==
    ASSUME TypeOK, LockInv, DataInv, NEW r \in Readers, Check(r)
    PROVE  DataInv'
<1> USE UartAssumption DEF TypeOK, DataInv, Check, line, ghosts
<1>1. CASE Empty
  <2>1. Quiet
    BY <1>1 DEF Quiet
  <2> QED
    BY <2>1, QuietData
<1>2. CASE ~Empty
  <2>1. /\ UNCHANGED <<buf, wpos, written, rpos, index, last, lost, phantoms>>
        /\ pc[r] = "check" /\ pc' = [pc EXCEPT ![r] = "take"]
        /\ rpos # wpos
    BY <1>2 DEF Empty
  <2>2. \A q \in Readers : pc'[q] = "load" <=> pc[q] = "load"
    BY <2>1
  <2>3. \A q \in Readers : Copying(q)' <=> Copying(q)
    BY <2>1, <2>2 DEF Copying
  <2>4. IndexInv'
    BY <2>1, <2>2 DEF IndexInv
  <2>5. BufferInv'
    BY <2>1 DEF BufferInv, Age, Slots
  <2>6. OrderInv'
    <3>1. /\ last' \in -1..(written' - 1)
          /\ Front' # wpos' => last' < written' - Age(Front)'
      BY <2>1 DEF OrderInv, Front, Age
    <3>2. ASSUME NEW q \in Readers, rpos # N
          PROVE  last < written - Age(rpos)
      BY <2>1, <3>2 DEF OrderInv, Front
    <3>3. Age(rpos)' = Age(rpos)
      BY <2>1 DEF Age
    <3>4. ASSUME NEW q \in Readers, Copying(q)'
          PROVE  last' < written' - Age(index[q])'
      BY <2>1, <2>3, <3>4 DEF OrderInv, Age
    <3> QED
      BY <2>1, <3>1, <3>2, <3>3, <3>4 DEF OrderInv
  <2>7. GapInv'
    BY <2>1, <2>3 DEF GapInv, Age, Front, Unread
  <2>8. LapInv'
    BY <2>1, <2>2 DEF LapInv
  <2> QED
    BY <2>4, <2>5, <2>6, <2>7, <2>8
<1> QED
  BY <1>1, <1>2

(* The slot after one written k stores ago was written k - 1 stores ago. *)
LEMMA AgeOfNext ==
    ASSUME TypeOK, NEW i \in Slots, NEW j \in Slots,
           j = IF i + 1 = N THEN 0 ELSE i + 1
    PROVE  /\ Age(i) \in 1..N
           /\ Age(j) = IF Age(i) = 1 THEN N ELSE Age(i) - 1
           /\ Age(i) = 1 <=> j = wpos
BY UartAssumption DEF TypeOK, Slots, Age

(* The read position moves on before the slot is copied. *)
LEMMA TakeData ==
    ASSUME TypeOK, LockInv, DataInv, NEW r \in Readers, Take(r)
    PROVE  DataInv'
<1> USE UartAssumption DEF TypeOK, DataInv
<1>1. /\ UNCHANGED <<buf, wpos, written, last, lost, phantoms>>
      /\ pc[r] = "take" /\ pc' = [pc EXCEPT ![r] = "load"]
      /\ index' = [index EXCEPT ![r] = rpos]
      /\ rpos' = IF rpos = N THEN 0 ELSE rpos + 1
  BY DEF Take, line, ghosts
<1>2. \A q \in Readers : q # r => pc[q] \in {"idle", "lock"} /\ pc'[q] = pc[q]
  BY <1>1, Alone
<1>3. \A q \in Readers : ~Copying(q) /\ pc[q] # "load"
  BY <1>1, <1>2 DEF Copying
<1>4. \A q \in Readers : (pc'[q] = "load" <=> q = r) /\ pc'[q] # "take"
  BY <1>1, <1>2
<1>5. index'[r] = rpos /\ (Copying(r)' <=> rpos # N)
  BY <1>1 DEF Copying
<1>6. \A q \in Readers : Copying(q)' => q = r
  BY <1>4 DEF Copying
<1>7. IndexInv'
  BY <1>1, <1>4, <1>5 DEF IndexInv
<1>8. BufferInv'
  BY <1>1 DEF BufferInv, Age, Slots
<1>9. LapInv'
  BY <1>1, <1>3, <1>4, <1>5 DEF LapInv
<1>10. Age(Front)' = IF Front' < wpos THEN wpos - Front' ELSE wpos - Front' + N
  BY <1>1 DEF Age
<1>11. CASE rpos = N
  <2>1. Front = 0 /\ Front' = 0 /\ Age(Front)' = Age(Front) /\ Unread' = Unread
    BY <1>1, <1>11 DEF Front, Age, Unread
  <2>2. \A q \in Readers : ~Copying(q)'
    BY <1>5, <1>6, <1>11
  <2>3. OrderInv'
    BY <1>1, <1>4, <2>1, <2>2 DEF OrderInv
  <2>4. GapInv'
    BY <1>1, <1>3, <2>1, <2>2 DEF GapInv
  <2> QED
    BY <1>7, <1>8, <1>9, <2>3, <2>4
<1>12. CASE rpos # N
  <2>1. rpos \in Slots /\ Front = rpos /\ last < written - Age(rpos)
    BY <1>1, <1>12 DEF OrderInv, Slots, Front
  <2>2. Front' \in Slots /\ Front' = IF rpos + 1 = N THEN 0 ELSE rpos + 1
    BY <1>1, <1>12, <2>1 DEF Slots, Front
  <2>3. Age(rpos) \in 1..N
    BY <2>1, <2>2, AgeOfNext
  <2>4. Front' # wpos => Age(Front)' = Age(rpos) - 1
    <3>1. ASSUME NEW j \in Slots, j = IF rpos + 1 = N THEN 0 ELSE rpos + 1, j # wpos
          PROVE  Age(j) = Age(rpos) - 1
      BY <2>1, <3>1, AgeOfNext
    <3> QED
      BY <1>10, <2>2, <3>1 DEF Age
  <2>5. OrderInv'
    <3>1. last' \in -1..(written' - 1)
      BY <1>1 DEF OrderInv
    <3>2. Front' # wpos' => last' < written' - Age(Front)'
      BY <1>1, <2>1, <2>3, <2>4
    <3>3. last' < written' - Age(index[r])'
      BY <1>1, <1>5, <2>1 DEF Age
    <3> QED
      BY <1>4, <1>6, <3>1, <3>2, <3>3 DEF OrderInv
  <2>6. GapInv'
    <3> SUFFICES ASSUME ~lost' PROVE GapInv'
      BY DEF GapInv
    <3>1. ~lost /\ Unread \in Int /\ Unread' = Unread /\ Unread <= N
      BY <1>1 DEF GapInv, Unread
    <3>2. Age(rpos) = IF Unread = 0 THEN N ELSE Unread
      BY <1>3, <2>1, <3>1 DEF GapInv
    <3>3. Unread # 0
      BY <2>1, <2>3 DEF Unread
    <3>4. Age(index[r])' = Unread'
      BY <1>1, <1>5, <3>1, <3>2, <3>3 DEF Age
    <3> QED
      BY <1>5, <1>6, <1>12, <3>1, <3>4 DEF GapInv
  <2> QED
    BY <1>7, <1>8, <1>9, <2>5, <2>6
<1> QED
  BY <1>11, <1>12

(* What a copy of slot i, the one before Front, hands out. *)
LEMMA CopyStep ==
    ASSUME TypeOK, DataInv, NEW r \in Readers, pc[r] = "load", index[r] # N
    PROVE  /\ index[r] \in Slots /\ rpos = index[r] + 1
           /\ buf[index[r]] = written - Age(index[r])
           /\ Age(index[r]) \in 1..N
           /\ Age(Front) = IF Age(index[r]) = 1 THEN N ELSE Age(index[r]) - 1
           /\ Age(index[r]) = 1 <=> Front = wpos
           /\ last < buf[index[r]]
           /\ ~lost => buf[index[r]] = last + 1
<1> USE UartAssumption DEF TypeOK, DataInv
<1>1. index[r] \in Slots /\ rpos = index[r] + 1 /\ Copying(r)
  BY DEF IndexInv, Slots, Copying
<1>2. buf[index[r]] = written - Age(index[r])
  BY <1>1 DEF BufferInv
<1>3. Front \in Slots /\ Front = IF index[r] + 1 = N THEN 0 ELSE index[r] + 1
  BY <1>1 DEF Front, Slots
<1>4. /\ Age(index[r]) \in 1..N
      /\ Age(Front) = IF Age(index[r]) = 1 THEN N ELSE Age(index[r]) - 1
      /\ Age(index[r]) = 1 <=> Front = wpos
  BY <1>1, <1>3, AgeOfNext
<1>5. last < buf[index[r]]
  BY <1>1, <1>2, <1>4 DEF OrderInv
<1>6. ~lost => buf[index[r]] = last + 1
  BY <1>1, <1>2, <1>4 DEF GapInv, Unread
<1> QED
  BY <1>1, <1>2, <1>4, <1>5, <1>6

LEMMA LoadData ==
    ASSUME TypeOK, LockInv, DataInv, NEW r \in Readers, Load(r)
    PROVE  DataInv'
<1> USE UartAssumption DEF TypeOK, DataInv
<1>1. /\ UNCHANGED <<buf, wpos, written, rpos, index, lost>>
      /\ pc[r] = "load"
      /\ IF index[r] = N
         THEN phantoms' = phantoms + 1 /\ last' = last
         ELSE last' = buf[index[r]] /\ phantoms' = phantoms
  BY DEF Load, line
<1>2. \A q \in Readers : pc'[q] # "load" /\ pc'[q] # "take" /\ ~Copying(q)'
  <2>1. ASSUME NEW q \in Readers, q # r
        PROVE  pc'[q] = pc[q] /\ pc[q] \in {"idle", "lock"}
    BY <1>1, <2>1, Alone DEF Load
  <2>2. pc'[r] \in {"idle", "check"}
    BY DEF Load
  <2> QED
    BY <2>1, <2>2 DEF Copying
<1>3. IndexInv'
  BY <1>2 DEF IndexInv
<1>4. BufferInv'
  BY <1>1 DEF BufferInv, Age, Slots
<1>5. Front' = Front /\ Age(Front)' = Age(Front)
  BY <1>1 DEF Front, Age
<1>6. CASE index[r] = N
  <2>1. last' = last /\ phantoms' = phantoms + 1 /\ rpos = 0
    BY <1>1, <1>6 DEF IndexInv
  <2>2. OrderInv'
    BY <1>1, <1>2, <1>5, <2>1 DEF OrderInv
  <2>3. \A q \in Readers : ~Copying(q)
    <3>1. ASSUME NEW q \in Readers, q # r PROVE ~Copying(q)
      BY <1>1, <3>1, Alone DEF Copying
    <3> QED
      BY <1>6, <3>1 DEF Copying
  <2>4. GapInv'
    BY <1>1, <1>2, <1>5, <2>1, <2>3 DEF GapInv, Unread
  <2>5. LapInv'
    <3>1. ~lost => last + 1 = N * phantoms + N
      BY <1>1, <1>6 DEF LapInv
    <3>2. N * (phantoms + 1) + 0 = N * phantoms + N
      OBVIOUS
    <3> QED
      BY <1>1, <1>2, <2>1, <3>1, <3>2 DEF LapInv
  <2> QED
    BY <1>3, <1>4, <2>2, <2>4, <2>5
<1>7. CASE index[r] # N
  <2>1. last' = buf[index[r]] /\ phantoms' = phantoms
    BY <1>1, <1>7
  <2>2. /\ index[r] \in Slots /\ rpos = index[r] + 1
        /\ buf[index[r]] = written - Age(index[r])
        /\ Age(index[r]) \in 1..N
        /\ Age(Front) = IF Age(index[r]) = 1 THEN N ELSE Age(index[r]) - 1
        /\ Age(index[r]) = 1 <=> Front = wpos
        /\ last < buf[index[r]]
        /\ ~lost => buf[index[r]] = last + 1
    BY <1>1, <1>7, CopyStep
  <2>3. OrderInv'
    <3>1. last' \in -1..(written' - 1)
      BY <1>1, <2>1, <2>2 DEF OrderInv
    <3>2. Front' # wpos' => last' < written' - Age(Front)'
      BY <1>1, <1>5, <2>1, <2>2
    <3> QED
      BY <1>2, <3>1, <3>2 DEF OrderInv
  <2>4. GapInv'
    <3>1. Unread' = Age(index[r]) - 1
      BY <1>1, <2>1, <2>2 DEF Unread
    <3>2. Age(Front)' = IF Unread' = 0 THEN N ELSE Unread'
      BY <1>5, <2>2, <3>1
    <3> QED
      BY <1>2, <2>2, <3>1, <3>2 DEF GapInv
  <2>5. LapInv'
    <3>1. ~lost => last + 1 = N * phantoms + index[r]
      BY <1>1 DEF LapInv
    <3>2. ~lost => last' + 1 = N * phantoms + rpos
      <4>1. N * phantoms \in Int /\ index[r] \in Int /\ rpos = index[r] + 1
        BY <2>2 DEF Slots
      <4>2. ~lost => last' = last + 1
        BY <2>1, <2>2
      <4> QED
        BY <3>1, <4>1, <4>2
    <3> QED
      BY <1>1, <1>2, <2>1, <3>2 DEF LapInv
  <2> QED
    BY <1>3, <1>4, <2>3, <2>4, <2>5
<1> QED
  BY <1>6, <1>7

-----------------------------------------------------------------------------
(* Inv is inductive: it is preserved by every step of every actor. *)
LEMMA InvInductive == Inv /\ [Next]_vars => Inv'
<1> SUFFICES ASSUME Inv, [Next]_vars PROVE Inv'
  OBVIOUS
<1>1. TypeOK /\ LeftInv /\ LockInv /\ DataInv
  BY DEF Inv, DataInv
<1>2. TypeOK' /\ LeftInv' /\ LockInv'
  BY <1>1, NextTypes, NextLock
<1>3. DataInv'
  <2>1. CASE DmaStore
    BY <1>1, <2>1, StoreData
  <2>2. CASE LineIdle \/ InterruptHandler \/ UNCHANGED vars
    <3>1. Quiet
      BY <2>2 DEF LineIdle, InterruptHandler, vars, line, reader, ghosts, Quiet
    <3> QED
      BY <1>1, <3>1, QuietData
  <2>3. ASSUME NEW r \in Readers,
               Call(r) \/ Lock(r) \/ Woken(r) \/ PollAgain(r) \/ TimedOut(r)
        PROVE  DataInv'
    <3>1. Quiet
      BY <1>1, <2>3
         DEF TypeOK, Call, Lock, Woken, PollAgain, TimedOut, line, ghosts, Quiet
    <3> QED
      BY <1>1, <3>1, QuietData
  <2>4. ASSUME NEW r \in Readers, Check(r) PROVE DataInv'
    BY <1>1, <2>4, CheckData
  <2>5. ASSUME NEW r \in Readers, Take(r) PROVE DataInv'
    BY <1>1, <2>5, TakeData
  <2>6. ASSUME NEW r \in Readers, Load(r) PROVE DataInv'
    BY <1>1, <2>6, LoadData
  <2> QED
    BY <2>1, <2>2, <2>3, <2>4, <2>5, <2>6 DEF Next, Read
<1> QED
  BY <1>2, <1>3 DEF Inv, DataInv

(* In every reachable state the variables have their types, one reader is  *)
(* past the lock, and positions, slots and history agree.                  *)
THEOREM InvCorrect == Spec => []Inv
<1>1. Init => Inv
  <2>1. Init => LeftInv /\ LockInv
    BY DEF Init, LeftInv, LockInv
  <2> QED
    BY <2>1, InitTypes, InitData DEF Inv, DataInv
<1> QED
  BY <1>1, InvInductive, PTL DEF Spec

(* empty() turns a reader away with bytes unread only when the buffer is   *)
(* full, or one short of full with the reader at its first slot.           *)
THEOREM EmptyCorrect == Spec => []EmptyMeansDrainedOrFull
<1>1. Inv => EmptyMeansDrainedOrFull
  <2> SUFFICES ASSUME Inv, NEW r \in Readers, pc[r] = "wait", Empty, ~lost
               PROVE  Unread = 0 \/ Unread = N \/ (Unread = N - 1 /\ rpos = 0)
    BY DEF EmptyMeansDrainedOrFull
  <2> USE UartAssumption DEF Inv, TypeOK
  <2>1. \A q \in Readers : ~Copying(q)
    <3>1. ASSUME NEW q \in Readers, q # r PROVE ~Copying(q)
      BY <3>1, Alone DEF Copying
    <3> QED
      BY <3>1 DEF Copying
  <2>2. Age(Front) = IF Unread = 0 THEN N ELSE Unread
    BY <2>1 DEF GapInv
  <2> Unread \in Int
    BY DEF Unread
  <2>3. CASE rpos = wpos
    BY <2>2, <2>3 DEF Age, Front, Slots
  <2>4. CASE rpos = 0 /\ wpos = N - 1
    BY <2>2, <2>4 DEF Age, Front, Slots
  <2> QED
    BY <2>3, <2>4 DEF Empty
<1> QED
  BY <1>1, InvCorrect, PTL

(* read() hands out one byte from behind the buffer per lap of N bytes. *)
THEOREM PhantomCorrect == Spec => []OnePhantomPerLap
<1>1. Inv => OnePhantomPerLap
  BY DEF Inv, LapInv, OnePhantomPerLap
<1> QED
  BY <1>1, InvCorrect, PTL

(* The driver implements the abstract stream: the bytes of the line in     *)
(* order, none twice, none missing until the DMA laps the reader.          *)
THEOREM StreamCorrect == Spec => ImplementsStream
<1>1. Init => Stream!Init
  BY DEF Init, Stream!Init
<1>2. Inv /\ [Next]_vars => [Stream!Next]_(Stream!vars)
  <2> SUFFICES ASSUME Inv, [Next]_vars PROVE Stream!Next \/ UNCHANGED Stream!vars
    BY DEF Stream!vars
  <2>1. TypeOK /\ DataInv
    BY DEF Inv, DataInv
  <2>2. CASE DmaStore
    <3>1. wpos \in Slots /\ buf[wpos] = written - N /\ written \in Int /\ last \in Int
      BY <2>1, UartAssumption DEF TypeOK, DataInv, BufferInv, Slots, Age
    <3>2. buf[wpos] > last <=> Stream!Unread >= N
      BY <3>1, UartAssumption DEF Stream!Unread
    <3> QED
      BY <2>2, <3>2 DEF DmaStore, Stream!Next, Stream!Arrive
  <2>3. CASE LineIdle \/ InterruptHandler \/ UNCHANGED vars
    BY <2>3 DEF LineIdle, InterruptHandler, vars, line, ghosts, Stream!vars
  <2>4. ASSUME NEW r \in Readers,
               Call(r) \/ Lock(r) \/ Check(r) \/ Woken(r) \/ PollAgain(r)
                 \/ TimedOut(r) \/ Take(r)
        PROVE  UNCHANGED Stream!vars
    BY <2>4 DEF Call, Lock, Check, Woken, PollAgain, TimedOut, Take, line,
                ghosts, Stream!vars
  <2>5. ASSUME NEW r \in Readers, Load(r)
        PROVE  Stream!Next \/ UNCHANGED Stream!vars
    <3>1. CASE index[r] = N
      BY <2>5, <3>1 DEF Load, line, Stream!vars
    <3>2. CASE index[r] # N
      <4>1. pc[r] = "load" /\ last' = buf[index[r]] /\ UNCHANGED <<written, lost>>
        BY <2>5, <3>2 DEF Load, line
      <4>2. /\ buf[index[r]] \in Int /\ last < buf[index[r]]
            /\ buf[index[r]] < written
            /\ ~lost => buf[index[r]] = last + 1
        BY <2>1, <3>2, <4>1, CopyStep, UartAssumption DEF TypeOK
      <4>3. buf[index[r]] \in 0..(MaxBytes - 1)
        BY <2>1, <4>2, UartAssumption DEF TypeOK, DataInv, OrderInv
      <4>4. Stream!Deliver(buf[index[r]])
        BY <2>1, <4>1, <4>2 DEF TypeOK, Stream!Deliver
      <4> QED
        BY <4>3, <4>4 DEF Stream!Next
    <3> QED
      BY <3>1, <3>2
  <2> QED
    BY <2>2, <2>3, <2>4, <2>5 DEF Next, Read
<1> QED
  BY <1>1, <1>2, InvCorrect, PTL DEF Spec, Stream!Spec, ImplementsStream

(*--------------------------- The transmitter -----------------------------*)

Byte == [by : Senders \cup {NoWriter}, n : Nat]

SendTypes ==
    /\ tdr \in Byte /\ shift \in Byte
    /\ lock \in Writers \cup {NoWriter}
    /\ writer \in [Senders -> [pc : {"idle", "lock", "empty", "store", "complete"}, calls : 0..MaxWrites,
                               size : Sizes \cup {0}, stored : Nat, out : Nat, told : {"none", "all", "nothing"}]]
    /\ (tdr.by = NoWriter => tdr = Nothing) /\ (shift.by = NoWriter => shift = Nothing)

SendFlags ==
    /\ complete \in BOOLEAN /\ spoilt \in BOOLEAN
    /\ arrived \in [received : 0..MaxReceived, rx : BOOLEAN]

(* A task past m_write_lock owns it; the interrupt never waits for it. *)
Writing(a) == writer[a].pc \in {"empty", "store", "complete"}
LockHeld == /\ \A t \in Writers : Writing(t) => lock = t
            /\ writer[Isr].pc # "lock"

(* How many bytes of a writer are on their way. *)
One(b) == IF b THEN 1 ELSE 0
OnTheirWay(a) == One(shift.by = a) + One(tdr.by = a)

(* What is in the registers is what was stored and is not yet out, in the  *)
(* order in which it was stored.                                           *)
InOrder ==
    /\ \A a \in Senders :
          /\ writer[a].stored = writer[a].out + OnTheirWay(a)
          /\ shift.by = a => shift.n = writer[a].out + 1
          /\ tdr.by = a => tdr.n = writer[a].stored

(* Where a writer stands tells what it has stored and what is left of it.  *)
Progress ==
    \A a \in Senders :
        /\ writer[a].pc = "lock" => writer[a].stored = 0 /\ writer[a].size > 0
        /\ writer[a].pc \in {"empty", "store"} => writer[a].stored < writer[a].size
        /\ writer[a].pc = "complete" => writer[a].stored = writer[a].size
        /\ ~Writing(a) => OnTheirWay(a) = 0 /\ writer[a].out \in {0, writer[a].size}
        /\ writer[a].told = "all" => ~Writing(a) /\ writer[a].out = writer[a].size

(* The data register that was seen empty stays empty, for a task as long   *)
(* as no interrupt writes; and the flag tells that nothing is on its way.  *)
RegisterInv ==
    /\ writer[Isr].pc = "store" => tdr = Nothing
    /\ InTasks => \A t \in Writers : writer[t].pc = "store" => tdr = Nothing
    /\ complete => tdr = Nothing /\ shift = Nothing

SendInv == /\ SendTypes /\ SendFlags /\ LockHeld /\ InOrder /\ Progress /\ RegisterInv
           /\ spoilt = FALSE

LEMMA SendInitInv == SendInit => SendInv
<1> SUFFICES ASSUME SendInit PROVE SendInv
  OBVIOUS
<1> USE TransmitterAssumption DEF SendInit, Nothing, Senders, Isr, NoWriter
<1>1. SendTypes
  BY DEF SendTypes, Byte
<1>2. SendFlags
  <2>1. complete \in BOOLEAN /\ spoilt \in BOOLEAN
    OBVIOUS
  <2>2. arrived \in [received : 0..MaxReceived, rx : BOOLEAN]
    OBVIOUS
  <2> QED
    BY <2>1, <2>2 DEF SendFlags
<1>3. LockHeld /\ InOrder /\ Progress
  BY DEF LockHeld, InOrder, Progress, Writing, OnTheirWay, One
<1>4. RegisterInv
  BY DEF RegisterInv, InTasks
<1> QED
  BY <1>1, <1>2, <1>3, <1>4 DEF SendInv

LEMMA SendNextFlags == SendFlags /\ [SendNext]_sendVars => SendFlags'
<1> SUFFICES ASSUME SendFlags, [SendNext]_sendVars PROVE SendFlags'
  OBVIOUS
<1> USE TransmitterAssumption DEF SendFlags
<1>1. complete' \in BOOLEAN
  BY DEF SendNext, SendWork, WriteStep, Begin, GoOut, ByteArrives, ReceiveInterrupt,
         CallWrite, LockWrite, SeeEmpty, StoreByte, SeeComplete, WriteTimeout, sendVars
<1>2. spoilt' \in BOOLEAN
  BY DEF SendNext, SendWork, WriteStep, Begin, GoOut, ByteArrives, ReceiveInterrupt,
         CallWrite, LockWrite, SeeEmpty, StoreByte, SeeComplete, WriteTimeout, sendVars
<1>3. arrived' \in [received : 0..MaxReceived, rx : BOOLEAN]
  <2>1. CASE ByteArrives
    BY <2>1 DEF ByteArrives
  <2>2. CASE ReceiveInterrupt
    BY <2>2 DEF ReceiveInterrupt
  <2>3. CASE UNCHANGED arrived
    BY <2>3
  <2> QED
    BY <2>1, <2>2, <2>3
       DEF SendNext, SendWork, WriteStep, Begin, GoOut, CallWrite, LockWrite, SeeEmpty,
           StoreByte, SeeComplete, WriteTimeout, sendVars
<1> QED
  BY <1>1, <1>2, <1>3

(* Taking the lock moves nothing but the writer's place. *)
LEMMA LockWriteInv ==
    ASSUME SendInv, NEW a \in Senders, LockWrite(a)
    PROVE  SendTypes' /\ LockHeld' /\ InOrder' /\ Progress' /\ RegisterInv' /\ spoilt' = FALSE
<1>1. /\ lock = NoWriter /\ lock' = a /\ writer[a].pc = "lock"
      /\ writer' = [writer EXCEPT ![a].pc = "empty"]
      /\ UNCHANGED <<tdr, shift, complete, spoilt>>
  BY DEF LockWrite
<1>2. a \in Writers
  BY <1>1 DEF SendInv, LockHeld, Senders
<1>3. SendTypes'
  BY <1>1, <1>2 DEF SendInv, SendTypes
<1>4. /\ writer'[a].pc = "empty"
      /\ \A b \in Senders : /\ writer'[b].stored = writer[b].stored /\ writer'[b].out = writer[b].out
                            /\ writer'[b].size = writer[b].size /\ writer'[b].told = writer[b].told
                            /\ b # a => writer'[b].pc = writer[b].pc
  BY <1>1 DEF SendInv, SendTypes
<1>5. LockHeld'
  BY <1>1, <1>2, <1>4, TransmitterAssumption DEF SendInv, LockHeld, Writing, Senders, Isr, NoWriter
<1>6. InOrder' /\ \A b \in Senders : OnTheirWay(b)' = OnTheirWay(b)
  BY <1>1, <1>4 DEF SendInv, InOrder, OnTheirWay
<1>7. Progress'
  <2>1. writer[a].stored = 0 /\ writer[a].size > 0 /\ writer[a].told # "all"
    BY <1>1 DEF SendInv, Progress, Writing, SendTypes, InOrder
  <2> QED
    BY <1>1, <1>4, <1>6, <2>1 DEF SendInv, Progress, Writing
<1>8. RegisterInv'
  BY <1>1, <1>2, <1>4, TransmitterAssumption DEF SendInv, RegisterInv, InTasks, Isr, Senders
<1> QED
  BY <1>1, <1>3, <1>5, <1>6, <1>7, <1>8 DEF SendInv

LEMMA SendNextInv ==
    SendInv /\ [SendNext]_sendVars
      => SendTypes' /\ LockHeld' /\ InOrder' /\ Progress' /\ RegisterInv' /\ spoilt' = FALSE
<1> SUFFICES ASSUME SendInv, [SendNext]_sendVars
             PROVE  SendTypes' /\ LockHeld' /\ InOrder' /\ Progress' /\ RegisterInv' /\ spoilt' = FALSE
  OBVIOUS
<1> DEFINE Goal == SendTypes' /\ LockHeld' /\ InOrder' /\ Progress' /\ RegisterInv' /\ spoilt' = FALSE
<1> USE TransmitterAssumption DEF SendInv, SendTypes, Byte, LockHeld, Writing, InOrder, Progress,
        RegisterInv, OnTheirWay, One, InTasks, Senders, Isr, NoWriter, Nothing
<1>1. CASE Begin
  BY <1>1 DEF Begin
<1>2. CASE GoOut
  <2>1. /\ shift.by \in Senders /\ tdr' = Nothing /\ shift' = tdr /\ UNCHANGED <<lock, arrived>>
        /\ writer' = [writer EXCEPT ![shift.by].out = @ + 1]
        /\ complete' = (complete \/ tdr = Nothing)
    BY <1>2 DEF GoOut
  <2>2. Writing(shift.by) /\ ~complete
    BY <2>1
  <2>3. /\ \A a \in Senders : /\ writer'[a].pc = writer[a].pc /\ writer'[a].size = writer[a].size
                              /\ writer'[a].stored = writer[a].stored
                              /\ writer'[a].told = writer[a].told
                              /\ a # shift.by => writer'[a].out = writer[a].out
        /\ writer'[shift.by].out = writer[shift.by].out + 1
    BY <2>1
  <2>4. SendTypes' /\ LockHeld'
    BY <2>1, <2>3
  <2>5. InOrder'
    BY <2>1, <2>3
  <2>6. Progress'
    BY <2>1, <2>2, <2>3
  <2>7. RegisterInv'
    BY <2>1, <2>2, <2>3
  <2>8. shift.by # Isr => \A t \in Writers \ {shift.by} : ~Halfway(t)
    <3> SUFFICES ASSUME shift.by # Isr, NEW t \in Writers \ {shift.by} PROVE ~Halfway(t)
      OBVIOUS
    <3>1. ~Writing(t)
      BY <2>1, <2>2
    <3>2. writer[t].out \in {0, writer[t].size}
      BY <3>1
    <3> QED
      BY <3>2 DEF Halfway
  <2>9. spoilt' = FALSE
    BY <1>2, <2>1, <2>8 DEF GoOut
  <2> QED
    BY <2>4, <2>5, <2>6, <2>7, <2>9
<1>3. CASE ByteArrives
  BY <1>3 DEF ByteArrives
<1>4. CASE ReceiveInterrupt
  BY <1>4 DEF ReceiveInterrupt
<1>5. ASSUME NEW a \in Senders, CallWrite(a) PROVE Goal
  BY <1>5 DEF CallWrite, Runs
<1>6. ASSUME NEW a \in Senders, LockWrite(a) PROVE Goal
  BY <1>6, LockWriteInv
<1>7. ASSUME NEW a \in Senders, SeeEmpty(a) PROVE Goal
  BY <1>7 DEF SeeEmpty, Runs
<1>8. ASSUME NEW a \in Senders, StoreByte(a) PROVE Goal
  BY <1>8 DEF StoreByte, Runs
<1>9. ASSUME NEW a \in Senders, SeeComplete(a) PROVE Goal
  BY <1>9 DEF SeeComplete, Returns, Runs
<1>10. ASSUME NEW a \in Senders, WriteTimeout(a) PROVE Goal
  BY <1>10 DEF WriteTimeout, Returns, Runs
<1>11. CASE UNCHANGED sendVars
  BY <1>11 DEF sendVars
<1> QED
  BY <1>1, <1>2, <1>3, <1>4, <1>5, <1>6, <1>7, <1>8, <1>9, <1>10, <1>11
     DEF SendNext, SendWork, WriteStep

LEMMA SendInvariant == SendSpec => []SendInv
<1>1. SendInv /\ [SendNext]_sendVars => SendInv'
  BY SendNextFlags, SendNextInv DEF SendInv
<1> QED
  BY <1>1, SendInitInv, PTL DEF SendSpec

(* What the line carries is what the writers wrote: the bytes of a task's  *)
(* write() leave in order, none is lost to the interrupt's and none of     *)
(* another task's is among them; and it reports all of them only when the  *)
(* last has left the shift register.                                       *)
THEOREM LineCorrect == SendSpec => []LineCarriesWrites
<1>1. SendInv => LineCarriesWrites
  <2> SUFFICES ASSUME SendInv PROVE LineCarriesWrites
    OBVIOUS
  <2>1. SendTypeOK
    BY DEF SendInv, SendTypes, SendFlags, SendTypeOK, Byte
  <2> QED
    BY <2>1 DEF SendInv, Progress, LineCarriesWrites
<1> QED
  BY <1>1, SendInvariant, PTL

-----------------------------------------------------------------------------
(* What the hardware and the writers can do, by the guards of their steps. *)
CanBegin   == shift = Nothing /\ tdr # Nothing
CanGoOut   == shift # Nothing
CanStep(a) == Runs(a) /\ \/ writer[a].pc = "lock" /\ lock = NoWriter
                         \/ writer[a].pc = "empty" /\ tdr = Nothing
                         \/ writer[a].pc = "store"
                         \/ writer[a].pc = "complete" /\ complete
                         \/ writer[a].pc = "complete" /\ a # Isr /\ tdr = Nothing /\ shift = Nothing
WorkLeft == CanBegin \/ CanGoOut \/ \E a \in Senders : CanStep(a)

(* Nobody but its own polling takes the flag the interrupt waits for.      *)
FlagStays == writer[Isr].pc = "complete" /\ tdr = Nothing /\ shift = Nothing => complete

(* A lock that is taken is held by a writer past it. *)
LockUsed == lock # NoWriter => lock \in Writers /\ Writing(lock)

LEMMA FlagAndLock ==
    SendInv /\ FlagStays /\ LockUsed /\ [SendNext]_sendVars => FlagStays' /\ LockUsed'
<1> SUFFICES ASSUME SendInv, FlagStays, LockUsed, [SendNext]_sendVars
             PROVE  FlagStays' /\ LockUsed'
  OBVIOUS
<1> USE TransmitterAssumption DEF SendInv, SendTypes, Byte, LockHeld, Writing, Progress,
        FlagStays, LockUsed, InTasks, Senders, Isr, NoWriter, Nothing
<1>1. CASE Begin
  BY <1>1 DEF Begin
<1>2. CASE GoOut
  <2>1. /\ shift.by \in Senders /\ tdr' = Nothing /\ shift' = tdr /\ UNCHANGED lock
        /\ writer' = [writer EXCEPT ![shift.by].out = @ + 1]
        /\ complete' = (complete \/ tdr = Nothing)
    BY <1>2 DEF GoOut
  <2>2. \A a \in Senders : writer'[a].pc = writer[a].pc
    BY <2>1
  <2>3. FlagStays'
    BY <2>1, <2>2
  <2>4. LockUsed'
    BY <2>1, <2>2
  <2> QED
    BY <2>3, <2>4
<1>3. CASE ByteArrives
  BY <1>3 DEF ByteArrives
<1>4. CASE ReceiveInterrupt
  BY <1>4 DEF ReceiveInterrupt
<1>5. ASSUME NEW a \in Senders, CallWrite(a) PROVE FlagStays' /\ LockUsed'
  BY <1>5 DEF CallWrite, Runs
<1>6. ASSUME NEW a \in Senders, LockWrite(a) PROVE FlagStays' /\ LockUsed'
  BY <1>6 DEF LockWrite, Runs
<1>7. ASSUME NEW a \in Senders, SeeEmpty(a) PROVE FlagStays' /\ LockUsed'
  BY <1>7 DEF SeeEmpty, Runs
<1>8. ASSUME NEW a \in Senders, StoreByte(a) PROVE FlagStays' /\ LockUsed'
  BY <1>8 DEF StoreByte, Runs
<1>9. ASSUME NEW a \in Senders, SeeComplete(a) PROVE FlagStays' /\ LockUsed'
  BY <1>9 DEF SeeComplete, Returns, Runs
<1>10. ASSUME NEW a \in Senders, WriteTimeout(a) PROVE FlagStays' /\ LockUsed'
  BY <1>10 DEF WriteTimeout, Returns, Runs
<1>11. CASE UNCHANGED sendVars
  BY <1>11 DEF sendVars
<1> QED
  BY <1>1, <1>2, <1>3, <1>4, <1>5, <1>6, <1>7, <1>8, <1>9, <1>10, <1>11
     DEF SendNext, SendWork, WriteStep

(* As long as a write is under way, of a task or of the interrupt, the     *)
(* guard of a step holds that goes on with it: no writer waits for a flag, *)
(* a register or a lock that nobody gives back.                            *)
THEOREM WorkIsLeft == SendSpec => []((\E a \in Senders : writer[a].pc # "idle") => WorkLeft)
<1>1. SendInit => FlagStays /\ LockUsed
  BY TransmitterAssumption DEF SendInit, FlagStays, LockUsed, Senders, Isr
<1>2. SendInv /\ FlagStays /\ LockUsed => ((\E a \in Senders : writer[a].pc # "idle") => WorkLeft)
  <2> SUFFICES ASSUME SendInv, FlagStays, LockUsed, NEW a \in Senders, writer[a].pc # "idle",
                      shift = Nothing, tdr = Nothing
               PROVE  \E b \in Senders : CanStep(b)
    BY DEF WorkLeft, CanBegin, CanGoOut
  <2>0. \A b \in Senders : writer[b].pc \in {"idle", "lock", "empty", "store", "complete"}
    BY DEF SendInv, SendTypes
  <2>1. CASE ~InTasks
    <3>1. Isr \in Senders /\ Runs(Isr) /\ writer[Isr].pc \in {"empty", "store", "complete"}
      BY <2>0, <2>1 DEF SendInv, LockHeld, InTasks, Senders, Runs
    <3>2. CanStep(Isr)
      BY <3>1 DEF CanStep, FlagStays
    <3> QED
      BY <3>1, <3>2
  <2>2. CASE InTasks
    <3>1. a # Isr /\ \A b \in Senders : Runs(b)
      BY <2>2 DEF InTasks, Runs
    <3>2. ASSUME NEW b \in Senders, b # Isr, Writing(b) PROVE CanStep(b)
      BY <3>1, <3>2 DEF Writing, CanStep
    <3>3. CASE Writing(a)
      BY <3>1, <3>2, <3>3
    <3>4. CASE writer[a].pc = "lock" /\ lock = NoWriter
      BY <3>1, <3>4 DEF CanStep
    <3>5. CASE lock # NoWriter
      <4>1. lock \in Senders /\ lock # Isr /\ Writing(lock)
        BY <3>5, TransmitterAssumption DEF LockUsed, Senders, Isr
      <4> QED
        BY <3>2, <4>1
    <3> QED
      BY <2>0, <3>3, <3>4, <3>5 DEF Writing
  <2> QED
    BY <2>1, <2>2
<1> QED
  BY <1>1, <1>2, FlagAndLock, SendInvariant, PTL DEF SendSpec

-----------------------------------------------------------------------------
(* Every step of the port is a step of a side, or leaves the side alone.   *)
LEMMA SidesStep == [PortNext]_portVars => [Next]_vars /\ [SendNext]_sendVars
BY DEF PortNext, portVars

(* The port behaves as its receiver and as its transmitter.                *)
THEOREM PortSides == PortSpec => Spec /\ SendSpec
<1>1. PortInit => Init /\ SendInit
  BY DEF PortInit
<1> QED
  BY <1>1, SidesStep, PTL DEF PortSpec, Spec, SendSpec

(* So the received bytes are the stream of the line, and the sent ones     *)
(* what the writers wrote.                                                 *)
THEOREM PortCorrect ==
    PortSpec => /\ [](Inv /\ EmptyMeansDrainedOrFull /\ OnePhantomPerLap /\ LineCarriesWrites)
                /\ ImplementsStream
BY PortSides, InvCorrect, EmptyCorrect, PhantomCorrect, LineCorrect, StreamCorrect, PTL
==============================================================================

-------------------------------- MODULE Rtc --------------------------------
(***************************************************************************)
(* The calendar of the processor and the tasks that read and set it.  The  *)
(* calendar is read through shadow registers, first the time and then the  *)
(* date; reading the time freezes the shadow of the date until the date    *)
(* has been read, so that midnight may pass in between.  It is set in its  *)
(* initialisation mode, where it stands still.  The display, the sensor    *)
(* task and the shell all call get_time(), which takes no lock; only the   *)
(* shell calls set_time().                                                 *)
(***************************************************************************)
EXTENDS Naturals

CONSTANTS Readers,    \* the tasks that read, the shell among them
          LastTime,   \* the last time of a day; times are 0..LastTime
          FirstDate,  \* the date at start
          SetTimes,   \* what rtc-set-time is given
          SetDates,   \* what rtc-set-date is given: day, month, year of four digits
          MaxTicks,   \* bound: steps of the calendar
          MaxSet      \* bound: commands that set the clock

ASSUME RtcAssumption ==
    /\ "shell" \in Readers /\ LastTime \in Nat \ {0}
    /\ MaxTicks \in Nat /\ MaxSet \in Nat
    /\ SetTimes \subseteq 0..LastTime

(* A date is one the calendar's fields and rtc-set-date can hold. *)
ASSUME DatesAssumption ==
    /\ FirstDate \in [day : 1..31, month : 1..12, year : 0..99]
    /\ SetDates \subseteq [day : 1..31, month : 1..12, year : 2000..2099]

VARIABLES
    running,   \* whether the oscillator of the calendar runs
    calendar,  \* the time and date it counts
    phase,     \* "free", "asked" (INIT is set) or "init" (INITF is set)
    shadow,    \* what get_time() finds in the registers
    frozen,    \* the shadow of the date waits for its being read
    synced,    \* RSF: the shadows were copied since it was cleared
    reader,    \* each task in get_time(): pc, time, and what the calendar
               \* showed since, until another task came in between
    setting,   \* rtc-set-time or rtc-set-date in the shell: op, pc, tm
    ticks, sets,
    torn,      \* history: a reading nobody disturbed showed no one instant
    failed     \* history: init() or a set_time() gave up, and the running
               \* calendar was not copied to the shadows since

rtcVars == <<running, calendar, phase, shadow, frozen, synced, reader,
             setting, ticks, sets, torn, failed>>

Nobody == [op |-> "none", pc |-> "idle", time |-> 0, date |-> FirstDate]
Ready  == [pc |-> "idle", time |-> 0, seen |-> {}]

-----------------------------------------------------------------------------
(* The registers hold decimal digits.  Month is declared four bits wide    *)
(* and has five, so its tens are neither read nor written; Year is eight   *)
(* bits wide and begins at the tens, so its units are neither.             *)

Shown(date) == [date EXCEPT !.month = @ % 10, !.year = @ \div 10]

Byte(n) == n % 256

(* tm_year is counted from 1900 by get_time() and from 0 by rtc-set-date;  *)
(* set_time() takes it for the latter, in a byte of which the last digit   *)
(* gets to the tens.  2048 keeps the byte's argument above zero.           *)
YearRead(tens) == tens + 100
TensWritten(tmYear) == Byte(tmYear + 2048 - 2000) % 10

(* Writing the date over what the register shows.                          *)
Merged(register, tm) ==
    [day |-> tm.day, month |-> (10 * (register.month \div 10)) + (tm.month % 10),
     year |-> (10 * TensWritten(tm.year)) + (register.year % 10)]

-----------------------------------------------------------------------------
(* The calendar itself.  A month that Merged() left and that is none is    *)
(* counted on in the five bits it has.                                     *)

DaysOf(date) == CASE date.month = 2             -> IF date.year % 4 = 0 THEN 29 ELSE 28
                  [] date.month \in {4, 6, 9, 11} -> 30
                  [] OTHER                        -> 31

Tomorrow(date) ==
    IF date.day < DaysOf(date) THEN [date EXCEPT !.day = @ + 1]
    ELSE IF date.month = 12
         THEN [day |-> 1, month |-> 1, year |-> (date.year + 1) % 100]
         ELSE [day |-> 1, month |-> (date.month + 1) % 20, year |-> date.year]

Later(c) == IF c.time < LastTime THEN [c EXCEPT !.time = @ + 1]
            ELSE [time |-> 0, date |-> Tomorrow(c.date)]

Shows(c) == [time |-> c.time, date |-> Shown(c.date)]

(* What the calendar shows next belongs to every reading under way.        *)
Witnessed(c) ==
    [t \in Readers |-> IF reader[t].seen = {} THEN reader[t]
                       ELSE [reader[t] EXCEPT !.seen = @ \union {Shows(c)}]]

Tick ==
    /\ running /\ phase # "init" /\ ticks < MaxTicks
    /\ ticks' = ticks + 1 /\ calendar' = Later(calendar)
    /\ shadow' = IF ~synced THEN shadow
                 ELSE [time |-> calendar'.time,
                       date |-> IF frozen THEN shadow.date ELSE calendar'.date]
    /\ reader' = Witnessed(calendar')
    /\ UNCHANGED <<running, phase, frozen, synced, setting, sets, torn, failed>>

(* The crystal may start late or fail. *)
Oscillator ==
    /\ running' = ~running
    /\ UNCHANGED <<calendar, phase, shadow, frozen, synced, reader, setting,
                   ticks, sets, torn, failed>>

EnterInit ==
    /\ running /\ phase = "asked" /\ phase' = "init" /\ synced' = FALSE
    /\ UNCHANGED <<running, calendar, shadow, frozen, reader, setting, ticks,
                   sets, torn, failed>>

Disturbing == [u \in Readers |-> [reader[u] EXCEPT !.seen = {}]]

(* After a failure, a reading under way may hold what was shown before.    *)
CopyShadows ==
    /\ running /\ phase # "init" /\ ~synced /\ synced' = TRUE
    /\ shadow' = [time |-> calendar.time,
                  date |-> IF frozen THEN shadow.date ELSE calendar.date]
    /\ reader' = IF failed THEN Disturbing ELSE reader
    /\ failed' = (failed /\ phase # "free")
    /\ UNCHANGED <<running, calendar, phase, frozen, setting, ticks, sets, torn>>

-----------------------------------------------------------------------------
(* get_time(): the time, then the date. *)

Writing == setting.pc \notin {"idle", "read"}

(* Whoever else is between the two registers is disturbed, and disturbs.   *)
Met(t) == \E u \in Readers \ {t} : reader[u].pc # "idle"

ReadTime(t) ==
    /\ reader[t].pc = "idle"
    /\ frozen' = TRUE
    /\ reader' = [Disturbing EXCEPT
                     ![t] = [pc |-> "date", time |-> shadow.time,
                             seen |-> IF Met(t) \/ Writing THEN {}
                                      ELSE {Shows(calendar)}]]
    /\ UNCHANGED <<running, calendar, phase, shadow, synced, ticks, torn, failed>>

Thawed == [shadow EXCEPT !.date = IF synced THEN calendar.date ELSE @]

ReadDate(t) ==
    /\ reader[t].pc = "date"
    /\ torn' = (torn \/ /\ reader[t].seen # {} /\ ~failed
                        /\ [time |-> reader[t].time, date |-> Shown(shadow.date)]
                              \notin reader[t].seen)
    /\ frozen' = FALSE /\ shadow' = Thawed
    /\ reader' = [reader EXCEPT ![t] = Ready]
    /\ UNCHANGED <<running, calendar, phase, synced, ticks, failed>>

(* The display every second, the journal of the sensor task, get_fattime() *)
(* and rtc-get-time.                                                       *)
Reading(t) ==
    /\ t = "shell" => setting.pc = "idle"
    /\ ReadTime(t) \/ ReadDate(t)
    /\ UNCHANGED <<setting, sets>>

-----------------------------------------------------------------------------
(* rtc-set-time and rtc-set-date: get_time(), some fields replaced, and    *)
(* set_time(), whose two waits end after 2 s.                              *)

SetCommand ==
    /\ setting.pc = "idle" /\ sets < MaxSet /\ ReadTime("shell")
    /\ sets' = sets + 1
    /\ \/ \E n \in SetTimes :
             setting' = [Nobody EXCEPT !.op = "set-time", !.pc = "read", !.time = n]
       \/ \E d \in SetDates :
             setting' = [Nobody EXCEPT !.op = "set-date", !.pc = "read", !.date = d]

SetRead ==
    /\ setting.pc = "read" /\ ReadDate("shell") /\ UNCHANGED sets
    /\ setting' =
          IF setting.op = "set-date"
          THEN [setting EXCEPT !.pc = "enable", !.time = reader["shell"].time]
          ELSE [setting EXCEPT !.pc = "enable",
                               !.date = [Shown(shadow.date) EXCEPT !.year = YearRead(@)]]

SetOnly == UNCHANGED <<running, reader, ticks, sets, torn, failed>>
SetGoes(pc) == setting' = [setting EXCEPT !.pc = pc]

(* initialization_mode::enable(): at once when the mode is on, or INIT is  *)
(* set and INITF waited for.  When that fails, INIT stays set, and the     *)
(* calendar may stop later, until the next command finds the mode on.      *)
EnableInit ==
    /\ setting.pc = "enable"
    /\ \/ phase = "init" /\ SetGoes("time") /\ UNCHANGED phase
       \/ phase # "init" /\ SetGoes("wait") /\ phase' = "asked"
    /\ reader' = Disturbing
    /\ UNCHANGED <<running, calendar, shadow, frozen, synced, ticks, sets, torn, failed>>

InitEnabled ==
    /\ setting.pc = "wait" /\ phase = "init" /\ SetGoes("time")
    /\ SetOnly /\ UNCHANGED <<calendar, phase, shadow, frozen, synced>>

GiveUp ==
    /\ ~running
    /\ \/ setting.pc = "wait" /\ phase # "init"
       \/ setting.pc = "sync" /\ ~synced
    /\ setting' = Nobody /\ failed' = TRUE
    /\ UNCHANGED <<running, calendar, phase, shadow, frozen, synced, reader,
                   ticks, sets, torn>>

(* Editing a register reads it first: the time freezes the date, the date  *)
(* lets go of it.                                                          *)
WriteTime ==
    /\ setting.pc = "time" /\ SetGoes("date")
    /\ calendar' = [calendar EXCEPT !.time = setting.time]
    /\ frozen' = TRUE
    /\ SetOnly /\ UNCHANGED <<phase, shadow, synced>>

WriteDate ==
    /\ setting.pc = "date" /\ SetGoes("leave")
    /\ calendar' = [calendar EXCEPT !.date = Merged(shadow.date, setting.date)]
    /\ frozen' = FALSE
    /\ SetOnly /\ UNCHANGED <<phase, shadow, synced>>

LeaveInit ==
    /\ setting.pc = "leave" /\ SetGoes("invalidate") /\ phase' = "free"
    /\ SetOnly /\ UNCHANGED <<calendar, shadow, frozen, synced>>

(* The shadows are in use, whatever is_shadow_registers_bypass_enabled()   *)
(* is called: set_time() waits until they have been copied.                *)
(* Mutant of Invalidate: returning as if the shadows were not in use. *)
InvalidateSkipped ==
    /\ setting.pc = "invalidate" /\ setting' = Nobody
    /\ SetOnly /\ UNCHANGED <<calendar, phase, shadow, frozen, synced>>

Invalidate ==
    /\ setting.pc = "invalidate" /\ SetGoes("sync") /\ synced' = FALSE
    /\ SetOnly /\ UNCHANGED <<calendar, phase, shadow, frozen>>

Synchronised ==
    /\ setting.pc = "sync" /\ synced /\ setting' = Nobody
    /\ SetOnly /\ UNCHANGED <<calendar, phase, shadow, frozen, synced>>

SetTime == \/ SetCommand \/ SetRead \/ EnableInit \/ InitEnabled \/ GiveUp
           \/ WriteTime \/ WriteDate \/ LeaveInit \/ Invalidate \/ Synchronised

-----------------------------------------------------------------------------
(* init() has left the initialisation mode, and the shadows were copied    *)
(* before the tasks run; or it has given up, INIT is left set, the shadows *)
(* show what a reset makes of them, and nobody asks for the result.        *)
RtcInit ==
    /\ calendar = [time |-> LastTime, date |-> FirstDate]
    /\ \/ /\ running = TRUE /\ phase = "free" /\ synced = TRUE /\ failed = FALSE
          /\ shadow = calendar
       \/ /\ running = FALSE /\ phase = "asked" /\ synced = FALSE /\ failed = TRUE
          /\ shadow = [time |-> 0, date |-> [day |-> 1, month |-> 1, year |-> 0]]
    /\ frozen = FALSE /\ reader = [t \in Readers |-> Ready] /\ setting = Nobody
    /\ ticks = 0 /\ sets = 0 /\ torn = FALSE

RtcNext == \/ Tick \/ Oscillator \/ EnterInit \/ CopyShadows
           \/ (\E t \in Readers : Reading(t)) \/ SetTime

RtcSpec == RtcInit /\ [][RtcNext]_rtcVars

-----------------------------------------------------------------------------
RtcTypeOK ==
    /\ running \in BOOLEAN /\ frozen \in BOOLEAN /\ synced \in BOOLEAN
    /\ torn \in BOOLEAN /\ failed \in BOOLEAN
    /\ ticks \in 0..MaxTicks /\ sets \in 0..MaxSet
    /\ calendar.time \in 0..LastTime /\ shadow.time \in 0..LastTime
    /\ calendar.date \in [day : 1..31, month : 0..19, year : 0..99]
    /\ phase \in {"free", "asked", "init"}
    /\ \A t \in Readers : reader[t].pc \in {"idle", "date"}
    /\ setting.pc \in {"idle", "read", "enable", "wait", "time", "date",
                       "leave", "invalidate", "sync"}

(* A task that reads the clock while no other does shows a time and a date *)
(* that belonged together at one instant of its reading, also when         *)
(* midnight passes between the two registers and right after the clock was *)
(* set: the time is read first, and set_time() waits for the copy.  Where  *)
(* init() or set_time() gave up this holds again from the next copy on.    *)
ReadsOneInstant == ~torn
=============================================================================

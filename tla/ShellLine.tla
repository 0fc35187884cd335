----------------------------- MODULE ShellLine -----------------------------
(***************************************************************************)
(* The command shell: the bytes of the terminal, the line being edited,    *)
(* what the terminal shows of it, the history, the completion and the      *)
(* program a line runs.  One key is one step of the shell's task.          *)
(***************************************************************************)
EXTENDS Naturals, FiniteSets, SequencesExt

CONSTANTS Letters,      \* the letters of names and arguments
          Commands,     \* the names of the command list, sorted
          Completing,   \* those that complete their argument, as cat
          Entries,      \* the names in the directory
          HistorySize,  \* k_max_count
          MaxLine,      \* k_max_line, the size of the buffers for a line
          MaxTyped,     \* bound: the characters of the line and the saved ones
          MaxEntered    \* bound: the lines entered

(* No name of the list is the beginning of another. *)
ASSUME CommandsAssumption ==
    \A i, j \in DOMAIN Commands : i # j => ~IsPrefix(Commands[i], Commands[j])

ASSUME ShellAssumption == /\ HistorySize \in Nat \ {0, 1} /\ MaxLine \in Nat
                          /\ MaxTyped \in Nat /\ MaxEntered \in Nat

VARIABLES branch,    \* where get() is: "key", or in a sequence "escape", "control"
          line,      \* m_input_buffer
          terminal,  \* row: the row the terminal's cursor is at the end of;
                     \* cursor: m_cursor_position; logged: m_log_stream_used
          history,   \* m_command_history, m_count, m_position
          entered,   \* history: the lines that were saved
          strayed    \* history: a completion that found nothing, or a
                     \* control byte, came since the row was last drawn

shellVars == <<branch, line, terminal, history, entered, strayed>>

(* The bytes of a line: those one can see, the zero that completing puts   *)
(* there, and the control bytes that stand for no key: a carriage return   *)
(* or line feed and a tab are that only after ESC or ESC [, where get()    *)
(* hands on every byte it does not expect; the others anywhere.            *)
Blank    == " "
Nul      == "nul"
Return   == "return"
TabByte  == "tab"
Controls == {Return, TabByte, "control"}
Typed    == Letters \cup {Blank}
Bytes    == Typed \cup Controls \cup {Nul}
Separators == {Blank, Nul, Return}

ASSUME NamesAssumption ==
    /\ Letters \cap ({Blank, Nul} \cup Controls) = {}
    /\ Commands \in Seq(Seq(Letters)) /\ Entries \in Seq(Seq(Typed))

(* The n-th of a set of places. *)
Nth(S, n) == CHOOSE i \in S : Cardinality({k \in S : k <= i}) = n

(* split_arguments: the words between the separators.  A tab ends a word   *)
(* but is skipped by none: it is an empty word where one may begin.        *)
Starts(s) == {i \in DOMAIN s : /\ s[i] \notin Separators
                              /\ i > 1 => s[i - 1] \in Separators \cup {TabByte}}
Ending(s, i) == CHOOSE j \in (i - 1)..Len(s) :
                    /\ \A k \in i..j : s[k] \notin Separators \cup {TabByte}
                    /\ j < Len(s) => s[j + 1] \in Separators \cup {TabByte}
Words(s) == LET starts == Starts(s)
            IN  [n \in 1..Cardinality(starts) |->
                    LET i == Nth(starts, n) IN SubSeq(s, i, Ending(s, i))]

(* The bound: the characters of the line and of those entered before it. *)
Held == Len(line) + FoldLeft(LAMBDA n, s : n + Len(s), 0, entered)

Known(name) == \E i \in DOMAIN Commands : Commands[i] = name

ShellInit == /\ branch = "key" /\ line = <<>>
             /\ terminal = [row |-> <<>>, cursor |-> 0, logged |-> FALSE]
             /\ history = [slots |-> [i \in 0..(HistorySize - 1) |-> <<>>],
                           count |-> 0, position |-> 0]
             /\ entered = <<>> /\ strayed = FALSE

-----------------------------------------------------------------------------
(* The terminal.  What it shows after a control byte is not followed: that *)
(* row stands for any.                                                     *)

Prompt  == [i \in 1..6 |-> "prompt"]
Garbled == <<Nul>>
Stray(s) == \E i \in DOMAIN s : s[i] \in Controls \cup {Nul}

(* put(): every byte but a carriage return or line feed moves the cursor.  *)
Drawn(row, s) == IF row = Garbled \/ Stray(s) THEN Garbled ELSE row \o s
Moved(cursor, s) == cursor + Cardinality({i \in DOMAIN s : s[i] # Return})

(* Mutant of Put: the output of a program is not left first. *)
PutAfterOutput(t, s) == [row |-> Drawn(t.row, s), cursor |-> Moved(t.cursor, s), logged |-> FALSE]

Put(t, s) == [row    |-> Drawn(IF t.logged THEN <<>> ELSE t.row, s),
              cursor |-> Moved(IF t.logged THEN 0 ELSE t.cursor, s),
              logged |-> FALSE]

Prompted   == [row |-> Prompt, cursor |-> 0, logged |-> FALSE]
Redrawn(s) == Put(Prompted, s)

(* Mutant of Erased: the cursor is counted back twice. *)
ErasedTwice(t, s) == [t EXCEPT !.row = s, !.cursor = t.cursor - 2]

(* replace(): left by as much as the line became shorter, but by no more   *)
(* than the prompt is long, and clear to the end.                          *)
Erased(t, s) ==
    LET left == IF t.cursor > Len(s) THEN Min({t.cursor - Len(s), Len(Prompt)}) ELSE 0
        kept == IF left > Len(t.row) THEN 0 ELSE Len(t.row) - left
    IN  [t EXCEPT !.row = IF @ = Garbled THEN @ ELSE SubSeq(@, 1, kept), !.cursor = Len(s)]

-----------------------------------------------------------------------------
(* The keys. *)

Append1(c) == /\ Held < MaxTyped
              /\ line' = Append(line, c) /\ terminal' = Put(terminal, <<c>>)
              /\ strayed' = (strayed \/ c \in Controls)
              /\ UNCHANGED <<history, entered>>

Backspace ==
    /\ IF line = <<>> THEN UNCHANGED <<line, terminal>>
       ELSE line' = Front(line) /\ terminal' = Erased(terminal, Front(line))
    /\ UNCHANGED <<history, entered, strayed>>

(* The line is replaced and drawn again. *)
Draw(s) == line' = s /\ terminal' = Redrawn(s) /\ strayed' = Stray(s)

(* find_common_length(): one too few where all of s begins t.              *)
Common(s, t) == IF IsPrefix(s, t) THEN Len(s) - 1
                ELSE CHOOSE n \in 0..Len(s) :
                         /\ n <= Len(t) /\ SubSeq(s, 1, n) = SubSeq(t, 1, n)
                         /\ n < Len(t) => s[n + 1] # t[n + 1]

(* The candidate of try_auto_complete_program_name(): of the commands that *)
(* go on after the typed characters one, and how much of them is common.   *)
Extends(name, s) == Len(name) > Len(s) /\ IsPrefix(s, name)

(* Mutant of Narrow: every command becomes the candidate. *)
NarrowLast(best, name) ==
    IF best.length = 0 THEN [name |-> name, length |-> Len(name) - 1]
    ELSE [name |-> name, length |-> Common(best.name, name)]

Narrow(best, name) ==
    LET candidate == IF best.name = <<>> THEN [name |-> name, length |-> Len(name)] ELSE best
        common    == Common(candidate.name, name)
    IN  IF candidate.length > common THEN [name |-> name, length |-> common] ELSE candidate

Matches(s) == {i \in DOMAIN Commands : Extends(Commands[i], s)}

Candidate(s) ==
    LET Try(best, name) == IF Extends(name, s) THEN Narrow(best, name) ELSE best
        best == FoldLeft(Try, [name |-> <<>>, length |-> 0], Commands)
    IN  IF Cardinality(Matches(s)) = 1 THEN best.name ELSE SubSeq(best.name, 1, best.length)

CompleteName == LET found == Candidate(line) IN
    /\ Len(Words(line)) < 2
    /\ IF found = <<>>
       THEN line' = Append(line, Nul) /\ strayed' = TRUE /\ UNCHANGED terminal
       ELSE Draw(found)

(* filesystem_autocomplete_helper(): the first entry of the directory that *)
(* begins with the argument, or nothing, as when it cannot be opened and   *)
(* where the argument is a single character.                               *)
FirstMatch(hint) ==
    {<<>>} \cup {Entries[i] : i \in {k \in DOMAIN Entries :
        /\ Len(hint) > 1 /\ IsPrefix(hint, Entries[k])
        /\ \A j \in 1..(k - 1) : ~IsPrefix(hint, Entries[j])}}

CompleteArgument == LET words == Words(line) IN
    /\ Len(words) > 1
    /\ \E found \in (IF words[1] \in Completing THEN FirstMatch(words[2]) ELSE {<<>>}) :
           IF found = <<>> THEN UNCHANGED <<line, terminal, strayed>>
           ELSE Draw(words[1] \o <<Blank>> \o found)

ListCommands == line = <<>> /\ Draw(<<>>)

(* A line that does not fit m_arg_line is out of the model.                *)
Tab == /\ Len(line) < MaxLine
       /\ \/ ListCommands
          \/ line # <<>> /\ Held <= MaxTyped /\ (CompleteName \/ CompleteArgument)
       /\ UNCHANGED <<history, entered>>

(* The history.  push() counts first and so leaves slot 0 to the last of a *)
(* round; next() and prev() walk the slots, next() only the first count.   *)
Before(s) == IF \E i \in DOMAIN s : s[i] = Nul
             THEN SubSeq(s, 1, (CHOOSE i \in DOMAIN s : s[i] = Nul
                                        /\ \A k \in 1..(i - 1) : s[k] # Nul) - 1)
             ELSE s

(* A line that does not fit with its zero is not kept. *)
Fits(s) == Len(Before(s)) + 1 < MaxLine

(* Mutant of Save: the last slot is never used again. *)
SaveShort(s) ==
    IF Fits(s)
    THEN [history EXCEPT !.count = @ + 1,
                         !.slots[IF history.count + 1 < HistorySize THEN history.count + 1
                                 ELSE (history.count + 1) % (HistorySize - 1)] = Before(s)]
    ELSE history

Save(s) ==
    IF Fits(s)
    THEN [history EXCEPT !.count = @ + 1,
                         !.slots[(history.count + 1) % HistorySize] = Before(s)]
    ELSE history

NextPosition == LET p == history.position + 1
                IN  IF p \in {HistorySize, history.count} THEN 0 ELSE p
PrevPosition == LET recent == IF history.count < HistorySize THEN history.count ELSE HistorySize
                IN  (IF history.position = 0 THEN recent ELSE history.position) - 1

Recall(position) ==
    /\ IF history.count = 0 THEN UNCHANGED <<line, terminal, history, strayed>>
       ELSE LET saved == history.slots[position] IN
            /\ history' = [history EXCEPT !.position = position]
            /\ IF saved = <<>> THEN UNCHANGED <<line, terminal, strayed>>
               ELSE Draw(saved)
    /\ UNCHANGED entered

Up   == Recall(NextPosition)
Down == Recall(PrevPosition)

(* Enter: the words are saved and run, whatever the program prints. *)
Enter ==
    /\ Len(entered) < MaxEntered /\ Len(line) < MaxLine
    /\ LET words == Words(line)
           runs  == words # <<>> /\ Known(words[1])
       IN  /\ history' = IF words = <<>> THEN history ELSE Save(line)
           /\ entered' = IF words # <<>> /\ Fits(line) THEN Append(entered, Before(line))
                         ELSE entered
           /\ \E prints \in (IF runs THEN BOOLEAN ELSE {FALSE}) :
                  terminal' = IF prints THEN [Prompted EXCEPT !.logged = TRUE, !.row = <<"output">>]
                              ELSE Prompted
    /\ line' = <<>> /\ strayed' = FALSE

-----------------------------------------------------------------------------
(* get(): the keys the bytes stand for.  A byte that does not go on with a *)
(* sequence is a key of its own.                                           *)

Key(k) == branch' = "key" /\ k

ReadByte(c)   == /\ branch = "control" => c \notin {"A", "B", "C", "D", "F", "H"}
                 /\ branch = "escape" => c # "["
                 /\ branch = "key" => c \notin {Return, TabByte}
                 /\ Key(Append1(c))
ReadControl   == branch = "key" /\ (Key(Backspace) \/ Key(Tab) \/ Key(Enter))
ReadEscape    == branch = "key" /\ branch' = "escape"
                 /\ UNCHANGED <<line, terminal, history, entered, strayed>>
ReadBracket   == branch = "escape" /\ branch' = "control"
                 /\ UNCHANGED <<line, terminal, history, entered, strayed>>
ReadArrow     == branch = "control" /\ (Key(Up) \/ Key(Down))
ReadOtherKey  == branch = "control" /\ Key(UNCHANGED <<line, terminal, history, entered, strayed>>)

ShellNext == \/ \E c \in Typed \cup Controls : ReadByte(c)
             \/ ReadControl \/ ReadEscape \/ ReadBracket \/ ReadArrow \/ ReadOtherKey

ShellSpec == ShellInit /\ [][ShellNext]_shellVars

-----------------------------------------------------------------------------
(* What is checked. *)

(* The variables have their types. *)
ShellTypeOK ==
    /\ branch \in {"key", "escape", "control"}
    /\ line \in Seq(Bytes)
    /\ DOMAIN terminal = {"row", "cursor", "logged"} /\ terminal.cursor \in Nat
    /\ history.count \in Nat /\ history.position \in 0..(HistorySize - 1)
    /\ strayed \in BOOLEAN

(* As long as every completion found something and no control byte got     *)
(* into the line, since the row was last drawn: the row shows what the     *)
(* shell holds in its line, after the prompt or where the output of a      *)
(* program pushed it to a new row, and the cursor is where the shell       *)
(* believes it to be: over typing, erasing, completing, recalled lines and *)
(* the output of programs (shell.hpp, refresh_inputline()).                *)
ScreenShowsLine ==
    ~strayed /\ line # <<>> => /\ terminal.row \in {Prompt \o line, line}
                               /\ terminal.cursor = Len(line) /\ ~Stray(line)

(* A completed name is all that the names that go on after the typed       *)
(* characters have in common: it is the beginning of every one of them and *)
(* no longer beginning is; a name that alone goes on is completed entirely.*)
CompletesToCommonPrefix ==
    [][(Tab /\ line' # line /\ Len(Words(line)) < 2 /\ Matches(line) # {}) =>
          /\ \A i \in Matches(line) : IsPrefix(line', Commands[i])
          /\ \A c \in Letters : \E i \in Matches(line) : ~IsPrefix(Append(line', c), Commands[i])
          /\ IsPrefix(line, line')]_shellVars

(* Of the lines that fit: once as many as the history keeps were entered,  *)
(* its slots are the last ones; and before that no slot holds anything but *)
(* a line that was entered (shell_history.hpp): with fewer lines the       *)
(* newest is out of reach of next() and prev(), which is why the rest is   *)
(* not claimed.                                                            *)
Recent == LET n == Len(entered) IN
    {entered[i] : i \in {k \in 1..n : k + HistorySize > n}}
HistoryKeepsRecent ==
    LET kept == {history.slots[i] : i \in 0..(HistorySize - 1)} IN
    IF history.count < HistorySize THEN kept \subseteq Recent \cup {<<>>} ELSE kept = Recent
=============================================================================

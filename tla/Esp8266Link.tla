---------------------------- MODULE Esp8266Link ----------------------------
(***************************************************************************)
(* The AT-command link to the ESP8266 module: one UART, two tasks.  The    *)
(* WiFi task wakes every 300 ms, takes m_lock and listens for unsolicited  *)
(* lines (run()); the shell's HTTP client opens, uses and closes sockets   *)
(* by writing a command and reading until an expected line comes or the    *)
(* timeout passes (execute_command(), wait()).  open() and close() hold    *)
(* m_lock while they wait; writing to a socket does not.  Either task      *)
(* collects the lines it did not expect in m_unsolicited_responses, and    *)
(* only the WiFi task carries them out.                                    *)
(*                                                                         *)
(* A line travels as two halves, so that a wait that starts or ends in the *)
(* middle of one loses it: wait() has a buffer of its own.                 *)
(***************************************************************************)
EXTENDS Naturals, Sequences, FiniteSetsExt

CONSTANTS Links,      \* the link numbers that have a socket
          Impatience, \* whether a timeout may pass although an answer is on
                      \* its way: TRUE, FALSE or either
          MaxCalls,   \* bound: the commands the client gives, for both cases
          Torn,       \* a line may arrive in two parts, with a pause between
          Sends       \* whether the client also writes to its sockets

ASSUME LinkAssumption ==
    /\ Links \subseteq Nat /\ Links # {} /\ IsFiniteSet(Links)
    /\ Impatience \subseteq BOOLEAN /\ MaxCalls \in [BOOLEAN -> Nat]
    /\ Torn \in BOOLEAN /\ Sends \in BOOLEAN

VARIABLES
    impatient, \* the case of this behaviour
    cmds,    \* what the tasks wrote and the module has not yet read
    mode,    \* the link whose data the module waits for, or "command"
    up,      \* the links the module has open
    line,    \* the halves of lines the module has yet to transmit
    uart,    \* the halves that can be read
    lock,    \* m_lock: who holds it, or "free"
    state,   \* m_state of the socket of each link
    events,  \* m_unsolicited_responses
    wifi,    \* run(): pc, again, copy, and the half of a line in its rb
    client,  \* the client: pc, slot, and the half of a line in its rb
    ticket,  \* history: the number of the client's command
    history  \* wrote: something was written to a socket;
             \* missed: a task read the end of a line without its beginning;
             \* misled: open() or close() took something else for its answer;
             \* lied: a write was reported done and its data was not sent

module == <<cmds, mode, up, line>>
vars == <<impatient, module, uart, lock, state, events, wifi, client, ticket,
          history>>

(* A line of the module: its text, its link and the command it answers.    *)
Line(text, link, cmd) == [text |-> text, link |-> link, cmd |-> cmd]
Halves(l) == <<[line |-> l, last |-> FALSE], [line |-> l, last |-> TRUE]>>
Say(texts, link, cmd) ==
    [i \in 1..(2 * Len(texts)) |->
        Halves(Line(texts[(i + 1) \div 2], link, cmd))[2 - (i % 2)]]

Init == /\ impatient \in Impatience
        /\ cmds = <<>> /\ mode = "command" /\ up = {} /\ line = <<>>
        /\ uart = <<>> /\ lock = "free" /\ events = <<>>
        /\ state = [l \in Links |-> "disconnected"]
        /\ wifi = [pc |-> "sleep", again |-> FALSE, copy |-> <<>>,
                   part |-> <<>>]
        /\ client = [pc |-> "idle", slot |-> Min(Links), part |-> <<>>]
        /\ ticket = 0
        /\ history = [wrote |-> FALSE, missed |-> FALSE, misled |-> FALSE,
                      lied |-> FALSE]

-----------------------------------------------------------------------------
(* The module. *)

(* AT+CIPSTART: the connection is made, refused, or already there.         *)
Start(c) ==
    /\ c.op = "start" /\ mode = "command"
    /\ \/ /\ c.link \notin up
          /\ up' = up \union {c.link}
          /\ line' = line \o Say(<<"CONNECT", "OK">>, c.link, c.cmd)
       \/ /\ c.link \notin up
          /\ line' = line \o Say(<<"ERROR">>, c.link, c.cmd)
          /\ UNCHANGED up
       \/ /\ c.link \in up
          /\ line' = line \o Say(<<"ALREADY CONNECTED", "ERROR">>, c.link, c.cmd)
          /\ UNCHANGED up
    /\ UNCHANGED mode

(* AT+CIPCLOSE. *)
Stop(c) ==
    /\ c.op = "stop" /\ mode = "command"
    /\ up' = up \ {c.link}
    /\ line' = line \o Say(IF c.link \in up THEN <<"CLOSED", "OK">>
                           ELSE <<"ERROR">>, c.link, c.cmd)
    /\ UNCHANGED mode

(* AT+CIPSENDEX, after which the module takes what comes for data. *)
Prompt(c) ==
    /\ c.op = "send" /\ mode = "command"
    /\ \/ /\ c.link \in up
          /\ mode' = "data"
          /\ line' = line \o Say(<<"OK", "> ">>, c.link, c.cmd)
       \/ /\ c.link \notin up
          /\ line' = line \o Say(<<"ERROR">>, c.link, c.cmd)
          /\ UNCHANGED mode
    /\ UNCHANGED up

(* Whatever is written now is sent, a command too. *)
SendData(c) ==
    /\ mode = "data" /\ mode' = "command"
    /\ \E text \in {"SEND OK", "SEND FAIL"} :
          line' = line \o Say(<<text>>, c.link,
                              IF c.op = "data" THEN c.cmd ELSE 0)
    /\ UNCHANGED up

(* Data the module did not ask for is no command it knows. *)
Reject(c) ==
    /\ c.op = "data" /\ mode = "command"
    /\ line' = line \o Say(<<"ERROR">>, c.link, 0)
    /\ UNCHANGED <<mode, up>>

Execute ==
    /\ cmds # <<>> /\ cmds' = Tail(cmds)
    /\ LET c == Head(cmds) IN
       Start(c) \/ Stop(c) \/ Prompt(c) \/ SendData(c) \/ Reject(c)
    /\ UNCHANGED <<impatient, uart, lock, state, events, wifi, client, ticket,
                   history>>

PeerCloses ==
    \E l \in up :
       /\ up' = up \ {l}
       /\ line' = line \o Say(<<"CLOSED">>, l, 0)
       /\ UNCHANGED <<impatient, cmds, mode, uart, lock, state, events, wifi, client,
                      ticket, history>>

Transmit ==
    \E n \in (IF Torn THEN {1} ELSE {2}) :
       /\ line # <<>>
       /\ uart' = uart \o SubSeq(line, 1, n)
       /\ line' = SubSeq(line, n + 1, Len(line))
       /\ UNCHANGED <<impatient, cmds, mode, up, lock, state, events, wifi, client,
                      ticket, history>>

-----------------------------------------------------------------------------
(* wait(): one more half arrives.  Rows are compared with the end of what  *)
(* was read since wait() began; FAIL comes before SEND FAIL in the table,  *)
(* and the second half of SEND OK alone looks like OK.                     *)

Whole(part, h) == h.last /\ part # <<>>
                  /\ part[1].text = h.line.text /\ part[1].link = h.line.link

HalfMissing(part, h) == h.last /\ ~Whole(part, h)

Response(part, h) ==
    CASE h.last /\ h.line.text = "SEND FAIL"                      -> "FAIL"
      [] h.last /\ h.line.text = "SEND OK" /\ ~Whole(part, h)     -> "OK"
      [] Whole(part, h) /\ h.line.text # "SEND FAIL"              -> h.line.text
      [] OTHER                                                    -> "nothing"

Remember(h) == IF h.last THEN <<>> ELSE <<h.line>>

(* What the task does not expect is queued; only changes of a connection   *)
(* mean anything to handle(), so the model queues no other.                *)
Queued(response, h) ==
    IF response \in {"CONNECT", "CLOSED"}
    THEN <<[code |-> response, link |-> h.line.link]>> ELSE <<>>

-----------------------------------------------------------------------------
(* The WiFi task, run(). *)

WifiOnly == UNCHANGED <<impatient, module, client, ticket, history>>

(* Mutant of WifiLock: run() without its lock guard. *)
WifiLockForgotten ==
    /\ wifi.pc = "sleep"
    /\ wifi' = [wifi EXCEPT !.pc = "copy", !.again = FALSE]
    /\ WifiOnly /\ UNCHANGED <<uart, lock, state, events>>

WifiLock ==
    /\ wifi.pc = "sleep" /\ lock = "free"
    /\ lock' = "wifi"
    /\ wifi' = [wifi EXCEPT !.pc = "copy", !.again = FALSE]
    /\ WifiOnly /\ UNCHANGED <<uart, state, events>>

(* handle_unsolicited_responses(): copy the queue, then clear it ... *)
WifiCopy ==
    /\ wifi.pc = "copy"
    /\ wifi' = [wifi EXCEPT !.pc = "clear", !.copy = events]
    /\ WifiOnly /\ UNCHANGED <<uart, lock, state, events>>

WifiClear ==
    /\ wifi.pc = "clear"
    /\ events' = IF wifi.copy = <<>> THEN events ELSE <<>>
    /\ wifi' = [wifi EXCEPT !.pc = "handle"]
    /\ WifiOnly /\ UNCHANGED <<uart, lock, state>>

(* ... then carry out one entry after the other. *)
WifiHandle ==
    /\ wifi.pc = "handle" /\ wifi.copy # <<>>
    /\ LET e == Head(wifi.copy) IN
       state' = [state EXCEPT ![e.link] = IF e.code = "CONNECT"
                                          THEN "connected" ELSE "disconnected"]
    /\ wifi' = [wifi EXCEPT !.copy = Tail(wifi.copy)]
    /\ WifiOnly /\ UNCHANGED <<uart, lock, events>>

(* Between the two rounds, wait() with a timeout of 0 and nothing expected.*)
WifiListen ==
    /\ wifi.pc = "handle" /\ wifi.copy = <<>> /\ ~wifi.again
    /\ wifi' = [wifi EXCEPT !.pc = "listen", !.part = <<>>]
    /\ WifiOnly /\ UNCHANGED <<uart, lock, state, events>>

WifiRead ==
    /\ wifi.pc = "listen" /\ uart # <<>>
    /\ LET h == Head(uart) IN
       /\ events' = events \o Queued(Response(wifi.part, h), h)
       /\ wifi' = [wifi EXCEPT !.part = Remember(h)]
       /\ history' = [history EXCEPT !.missed = @ \/ HalfMissing(wifi.part, h)]
    /\ uart' = Tail(uart)
    /\ UNCHANGED <<impatient, module, client, ticket, lock, state>>

WifiQuiet ==
    /\ wifi.pc = "listen" /\ uart = <<>>
    /\ wifi' = [wifi EXCEPT !.pc = "copy", !.again = TRUE, !.part = <<>>]
    /\ WifiOnly /\ UNCHANGED <<uart, lock, state, events>>

WifiUnlock ==
    /\ wifi.pc = "handle" /\ wifi.copy = <<>> /\ wifi.again
    /\ lock' = "free"
    /\ wifi' = [wifi EXCEPT !.pc = "sleep"]
    /\ WifiOnly /\ UNCHANGED <<uart, state, events>>

WifiRun == \/ WifiCopy \/ WifiClear \/ WifiHandle \/ WifiListen
           \/ WifiRead \/ WifiQuiet \/ WifiUnlock

-----------------------------------------------------------------------------
(* The client: open(), write() and close(), one at a time. *)

ClientOnly == UNCHANGED <<impatient, mode, up, line, wifi>>

Expected(pc) ==
    CASE pc = "openwait"   -> {"OK", "ERROR", "FAIL", "ALREADY CONNECTED"}
      [] pc = "closewait"  -> {"OK", "ERROR", "FAIL"}
      [] pc = "sendwait"   -> {"OK", "ERROR"}
      [] pc = "promptwait" -> {"> "}
      [] pc = "sentwait"   -> {"SEND OK", "SEND FAIL"}
      [] OTHER             -> {}

Waiting   == Expected(client.pc) # {}
UnderLock == client.pc \in {"openwait", "closewait"}   \* holding m_lock

(* Where the client goes with an answer. *)
After(pc, answer) ==
    CASE pc = "openwait" /\ answer \in {"OK", "ALREADY CONNECTED"} -> "poll"
      [] pc = "openwait" /\ answer \in {"ERROR", "FAIL"}           -> "openfailed"
      [] pc = "closewait" /\ answer = "OK"                         -> "closed"
      [] pc = "closewait" /\ answer # "OK"                         -> "idle"
      [] pc = "sendwait" /\ answer = "OK"                          -> "promptwait"
      [] pc = "promptwait" /\ answer = "> "                        -> "sentwait"
      [] OTHER                                                     -> "using"

(* write() reports its data sent on SEND OK, not (as in the mutant) on all *)
(* but SEND FAIL.                                                          *)
ReportedUnlessFail(pc, answer) == pc = "sentwait" /\ answer # "SEND FAIL"
Reported(pc, answer) == pc = "sentwait" /\ answer = "SEND OK"

Command(op) ==
    /\ ticket' = ticket + 1
    /\ cmds' = Append(cmds, [op |-> op, link |-> client.slot, cmd |-> ticket'])

(* The first socket that is not open is claimed. *)
Open ==
    /\ client.pc = "idle" /\ ticket < MaxCalls[impatient]
    /\ LET closed == {l \in Links : state[l] = "disconnected"} IN
       /\ closed # {}
       /\ client' = [client EXCEPT !.pc = "openlock", !.slot = Min(closed)]
       /\ state' = [state EXCEPT ![Min(closed)] = "connecting"]
    /\ ClientOnly /\ UNCHANGED <<cmds, uart, lock, events, ticket, history>>

OpenCommand ==
    /\ client.pc = "openlock" /\ lock = "free"
    /\ lock' = "client" /\ Command("start")
    /\ client' = [client EXCEPT !.pc = "openwait"]
    /\ ClientOnly /\ UNCHANGED <<uart, state, events, history>>

(* Mutant of OpenFailed: the state is not reset. *)
OpenFailedConnecting ==
    /\ client.pc = "openfailed"
    /\ client' = [client EXCEPT !.pc = "idle"]
    /\ ClientOnly /\ UNCHANGED <<cmds, uart, lock, state, events, ticket,
                                 history>>

OpenFailed ==
    /\ client.pc = "openfailed"
    /\ state' = [state EXCEPT ![client.slot] = "disconnected"]
    /\ client' = [client EXCEPT !.pc = "idle"]
    /\ ClientOnly /\ UNCHANGED <<cmds, uart, lock, events, ticket, history>>

(* wait() reads one more half.  An answer ends it, and with it the scope   *)
(* of the lock that open() and close() hold; the prompt is answered with   *)
(* the data.                                                               *)
(* (ReleaseOnClose is a mutant of Release: open() keeps the lock.) *)
ReleaseOnClose == IF client.pc = "closewait" THEN "free" ELSE lock
Release == IF UnderLock THEN "free" ELSE lock

ClientAnswered ==
    /\ Waiting /\ uart # <<>> /\ uart' = Tail(uart)
    /\ LET h == Head(uart)
           answer == Response(client.part, h)
       IN /\ answer \in Expected(client.pc)
          /\ client' = [client EXCEPT !.pc = After(client.pc, answer),
                                      !.part = <<>>]
          /\ history' =
                [history EXCEPT
                    !.missed = @ \/ HalfMissing(client.part, h),
                    !.misled = @ \/ (UnderLock /\ h.line.cmd # ticket),
                    !.lied = @ \/ (Reported(client.pc, answer)
                                    /\ h.line.cmd # ticket)]
    /\ lock' = Release
    /\ cmds' = IF client.pc = "promptwait"
               THEN Append(cmds, [op |-> "data", link |-> client.slot,
                                  cmd |-> ticket])
               ELSE cmds
    /\ ClientOnly /\ UNCHANGED <<state, events, ticket>>

ClientQueues ==
    /\ Waiting /\ uart # <<>> /\ uart' = Tail(uart)
    /\ LET h == Head(uart)
           answer == Response(client.part, h)
       IN /\ answer \notin Expected(client.pc)
          /\ client' = [client EXCEPT !.part = Remember(h)]
          /\ events' = events \o Queued(answer, h)
          /\ history' = [history EXCEPT !.missed =
                            @ \/ HalfMissing(client.part, h)]
    /\ ClientOnly /\ UNCHANGED <<cmds, lock, state, ticket>>

(* The read of wait() runs out of time.  execute_command() then returns    *)
(* the first value of atcode_type, and that is k_ok; write() alone tests   *)
(* for the missing prompt.                                                 *)
Silent == cmds = <<>> /\ line = <<>>

AfterTimeout(pc) ==
    IF pc = "promptwait" THEN "using" ELSE After(pc, "OK")

ClientTimeout ==
    /\ Waiting /\ uart = <<>> /\ (impatient \/ Silent)
    /\ client' = [client EXCEPT !.pc = AfterTimeout(client.pc), !.part = <<>>]
    /\ lock' = Release
    /\ history' = [history EXCEPT !.misled = @ \/ UnderLock,
                                  !.lied = @ \/ Reported(client.pc, "OK")]
    /\ ClientOnly /\ UNCHANGED <<cmds, uart, state, events, ticket>>

(* open() polls the state, and gives up without resetting it. *)
PollConnected ==
    /\ client.pc = "poll" /\ state[client.slot] = "connected"
    /\ client' = [client EXCEPT !.pc = "using"]
    /\ ClientOnly /\ UNCHANGED <<cmds, uart, lock, state, events, ticket,
                                 history>>

(* Mutant of PollTimeout: without a deadline. *)
PollTimeoutClosed ==
    /\ client.pc = "poll" /\ state[client.slot] = "disconnected"
    /\ client' = [client EXCEPT !.pc = "idle"]
    /\ ClientOnly /\ UNCHANGED <<cmds, uart, lock, state, events, ticket,
                                 history>>

PollTimeout ==
    /\ client.pc = "poll" /\ state[client.slot] # "connected"
    /\ \/ impatient
       \/ Silent /\ uart = <<>> /\ events = <<>> /\ wifi.pc = "sleep"
    /\ client' = [client EXCEPT !.pc = "idle"]
    /\ ClientOnly /\ UNCHANGED <<cmds, uart, lock, state, events, ticket,
                                 history>>

(* The HTTP client leaves a socket open once it has read the body. *)
Leave ==
    /\ client.pc = "using"
    /\ client' = [client EXCEPT !.pc = "idle"]
    /\ ClientOnly /\ UNCHANGED <<cmds, uart, lock, state, events, ticket,
                                 history>>

StartClose ==
    /\ client.pc = "using" /\ ticket < MaxCalls[impatient]
    /\ state[client.slot] # "disconnected"
    /\ client' = [client EXCEPT !.pc = "closelock"]
    /\ ClientOnly /\ UNCHANGED <<cmds, uart, lock, state, events, ticket,
                                 history>>

CloseCommand ==
    /\ client.pc = "closelock" /\ lock = "free"
    /\ lock' = "client" /\ Command("stop")
    /\ client' = [client EXCEPT !.pc = "closewait"]
    /\ ClientOnly /\ UNCHANGED <<uart, state, events, history>>

CloseDone ==
    /\ client.pc = "closed"
    /\ state' = [state EXCEPT ![client.slot] = "disconnected"]
    /\ client' = [client EXCEPT !.pc = "idle"]
    /\ ClientOnly /\ UNCHANGED <<cmds, uart, lock, events, ticket, history>>

(* operator<< writes whatever the state of the socket, and without m_lock. *)
Send ==
    /\ Sends /\ client.pc = "using" /\ ticket < MaxCalls[impatient]
    /\ Command("send")
    /\ client' = [client EXCEPT !.pc = "sendwait"]
    /\ history' = [history EXCEPT !.wrote = TRUE]
    /\ ClientOnly /\ UNCHANGED <<uart, lock, state, events>>

ClientRun == \/ OpenFailed \/ ClientAnswered \/ ClientQueues \/ ClientTimeout
             \/ PollConnected \/ PollTimeout \/ CloseDone
ClientTakesLock == OpenCommand \/ CloseCommand

Next == \/ Execute \/ PeerCloses \/ Transmit
        \/ WifiLock \/ WifiRun
        \/ Open \/ Leave \/ StartClose \/ Send \/ ClientTakesLock \/ ClientRun

Spec == Init /\ [][Next]_vars

(* The tasks run, and timeouts pass; the module need not answer.  The WiFi *)
(* task sleeps 300 ms with the lock free, so a task that waits for the     *)
(* lock gets it.  A patient timeout waits for the module, which owes       *)
(* nothing: that case is for safety.                                       *)
FairSpec == /\ Spec
            /\ impatient => /\ WF_vars(WifiRun) /\ WF_vars(ClientRun)
                            /\ SF_vars(ClientTakesLock)

-----------------------------------------------------------------------------
TypeOK ==
    /\ cmds \in Seq([op : {"start", "stop", "send", "data"}, link : Links,
                     cmd : 1..MaxCalls[impatient]])
    /\ mode \in {"command", "data"} /\ up \subseteq Links
    /\ lock \in {"free", "wifi", "client"}
    /\ state \in [Links -> {"disconnected", "connecting", "connected"}]
    /\ events \in Seq([code : {"CONNECT", "CLOSED"}, link : Links])
    /\ wifi.pc \in {"sleep", "copy", "clear", "handle", "listen"}
    /\ client.pc \in {"idle", "openlock", "openwait", "openfailed", "poll",
                      "using", "closelock", "closewait", "closed",
                      "sendwait", "promptwait", "sentwait"}
    /\ client.slot \in Links /\ ticket \in 0..MaxCalls[impatient]
    /\ history \in [wrote : BOOLEAN, missed : BOOLEAN, misled : BOOLEAN,
                     lied : BOOLEAN]

(* As long as nothing is written to sockets and timeouts outlast the       *)
(* module, open() and close() act on the module's answer to the command    *)
(* they gave, never on one to an earlier command or on silence: m_lock     *)
(* keeps the WiFi task from reading their answers, even half of one.       *)
CommandsToldTrue == ~impatient /\ ~history.wrote => ~history.misled

(* A write that is reported done sent its own data, although write() holds *)
(* no lock, the WiFi task may take its answers away and the module may     *)
(* take a command for data.                                                *)
SendsToldTrue == ~impatient => ~history.lied

(* What a task is told of a command, it may believe. *)
ToldTrue == CommandsToldTrue /\ SendsToldTrue

(* Whenever the link is at rest, the sockets are connected that the module *)
(* has connections for, and none is left between: the peer's closing, a    *)
(* queued event of an earlier connection and open() and close() meet in    *)
(* every order.  Writing, which takes no lock, and a line that run() reads *)
(* half of lose events and are excluded.                                   *)
AtRest == /\ cmds = <<>> /\ line = <<>> /\ uart = <<>> /\ events = <<>>
          /\ wifi.pc = "sleep" /\ client.pc \in {"idle", "using"}
SocketFollowsModem ==
    ~impatient /\ AtRest /\ ~history.wrote /\ ~history.missed =>
              \A l \in Links :
                 state[l] = IF l \in up THEN "connected" ELSE "disconnected"

(* m_lock always comes free, whatever is lost and whenever timeouts pass:  *)
(* every return of open(), close() and run() gives it back.                *)
LockComesFree == impatient => []<>(lock = "free")

(* open() comes back, with a socket or without.                            *)
OpenReturns ==
    impatient /\ client.pc = "openlock" ~> client.pc \in {"idle", "using"}
=============================================================================

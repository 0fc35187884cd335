# Verification of the data logger firmware

TLA+ models of the firmware in `src/`, model-checked with TLC; safety
properties of the serial port, the socket stream, the link to the WiFi module,
the memory allocator, the four storage components and the four of the console
are also proved with TLAPS. The firmware runs on an STM32L4 under FreeRTOS: six tasks (display, filesystem, shell, WiFi, USB, sensor), the interrupt handlers of the
UARTs, DMA, SD card, USB and external lines, and an ESP8266 module on a serial
line. All paths below are relative to `src/src/`.

1. [Inventory](#1-inventory)
2. [The modules](#2-the-modules)
3. [The runs](#3-the-runs)
4. [Fairness](#4-fairness)
5. [What is proved](#5-what-is-proved)
6. [Findings](#6-findings)
7. [What is not modelled, and why](#7-what-is-not-modelled-and-why)
8. [Plan](#8-plan)

`PROJECT.json` maps every definition to the lines it models, and lists the
components, the runs, the hazards of the code with the properties that cover
them, one mutant of the code for every property, and the theorems.

## 1. Inventory

The source is layered: L0 base library, L1 processor, L2 operating system,
L3 device trees, L4 peripherals, L5 devices, L6 filesystems, L7 globals,
L8 tasks and shell commands, L9 ports of FreeRTOS, TinyUSB, FatFs, LittleFs.

| Component | State | Operations | What is hard | What makes it correct |
|---|---|---|---|---|
| UART receiver, `L4-hal/stm32l4/stm32l4_uart.hpp` | circular buffer, read position, semaphore, read lock | interrupt handler, `empty`, `read` | the DMA, the interrupt and several readers interleave; full and empty look alike; late or missing wakeups | bytes in order, none twice, none lost until the DMA laps the reader; a waiting reader is served |
| UART transmitter, same file | write lock, data and shift register, completion flag | `write` of tasks, `write` of interrupts | interrupts write in the middle of a task's span and clear the flag it polls | the bytes of a write leave in order and together; a write returns |
| DMA, `stm32l4_dma.hpp` | transfer counter | `start`, `read_position`, interrupt | overwrites what nobody read | covered by the receiver |
| ESP8266 socket stream, `L5-devices/esp8266/esp8266_socket.hpp`, `feed_socket` in `esp8266_wifi_device.hpp` | span of a stack buffer, two atomic counters, two semaphores | `notify`, `feed`, `read` | unprotected span, 5 s timeouts on both sides, failing reads of the module | the reader gets the bytes of the chunks; counters stay above zero; no wakeup lost |
| ESP8266 command link, `esp8266_wifi_device.hpp`, `command/esp8266_command_socket.hpp` | `m_lock`, `m_unsolicited_responses`, state of each socket, what is on the serial line | `run`, `wait`, `execute_command`, `open`, `close`, `write` | two tasks read one serial line; answers, events and timeouts in any order; writes take no lock | commands act on their own answers; sockets follow the module; the lock comes free |
| ESP8266 parsers and ring buffer, `parse/`, `L0-base/ring_buffer`, `L0-base/modem` | ring buffer, parser state, one record | suffix match, `+IPD`, `+CWLAP` | a parser takes over in the middle of a line; the buffer goes round; timeouts in mid-line | events and records are what the line says |
| HTTP, `L0-base/http`, `command_wifi.hpp` | parser buffer, message, body stream | write and read requests and responses, route | positions in a text; where a body ends; early close, late bytes | what is handed on is what was sent; the command ends |
| Heap allocator, `L0-base/memory` | block list, free list, header flags, count | `allocate` and `deallocate`, plain and aligned | long sequences of calls; flags that go stale; a byte that overlaps a header | memory granted is as large as asked for and nobody else's |
| Locks, tasks, signals, `L2-operating-system` | semaphores, flags, notification bits | `lock`, `try_lock`, `signal`, `wait` | signals that merge; calls from interrupts | exclusion, no lost signal; modelled where they are used |
| Shell, `L0-base/shell` | line, cursor, history, key automaton | keys, completion, history | index arithmetic; line and screen are kept apart | the line run is the line shown |
| LittleFs and FAT filesystems, `L6-filesystem` | mounted flag, context, three file handles | `mount`, `unmount`, `format`, `open`, file operations | the boot task mounts while the shell formats; half-failed steps; files nobody closes; power failures | no use of an unmounted context; the flag tells the truth |
| NOR flash, `stm32l4_octospi.hpp` | HAL handle, geometry | erase, program, read, poll | multi-step commands of two tasks without a lock | steps of two commands do not mix; what is reported was done |
| SD card, `stm32l4_sdmmc.hpp` | HAL handle, two locks, two semaphores | read and write blocks, interrupt | late completion after a timeout | a call returns when its data is there |
| USB CDC and mass storage, `cdc_usb_device.hpp`, `L9-porting/tinyusb` | TinyUSB queues, semaphore | read, write, callbacks | second user of the SD card | – |
| External interrupts, joystick, sensor task, LED | handler table, pending flags, notification bits | dispatch, signal, report | shared vectors; an edge in the middle of a routine | every enabled line is served, every key reported |
| Calendar, `stm32l4_rtc.hpp`, `command_rtc.hpp` | calendar and shadow registers, initialisation mode | `get_time`, `set_time` | two registers read without a lock; midnight; encodings | time and date of one instant; setting the one leaves the other |
| Display task, `display_task.h` | status, notification bits, panel | redraw, on, off, invert | signals merged; a bus that fails unseen | the panel follows the commands; the clock goes on |
| I2C, LEDs, inputs, logging, registers, device trees, processor support | initialised flags | blocking calls | little | – |

How they interact. The WiFi task calls `run()` every 300 ms; it reads the
serial line through the UART receiver, queues what the module says unasked,
sets the socket states and feeds the sockets. The shell task calls the HTTP
client, which opens a socket (a command and its answer over the same serial
line), writes the request and reads the response from the socket. Everything
that allocates goes through the heap allocator, the FreeRTOS objects through
one instance and the standard library through another. Filesystem, shell and
sensor tasks share the two filesystems and, below them, the flash and the SD
card; the USB mass-storage callbacks share the SD card. Shell commands signal
the sensor task (LED) and the display task; interrupts signal the sensor task
(keys). The shell, the display, the journal and FatFs read the calendar.

## 2. The modules

| Module | What it is |
|---|---|
| `LossyStream` | abstract: what a circular receive buffer can promise |
| `UartReceiver` | the receive side of the UART driver with its DMA |
| `UartTransmitter` | the send side of the UART driver |
| `UartPort` | the two sides, side by side |
| `UartPort_proofs` | theorems about the two sides and `UartPort` |
| `SocketStream` | received data from the module to the reader of a socket |
| `SocketStream_proofs` | theorems about `SocketStream` |
| `Esp8266Link` | commands, answers and events on the serial line to the module |
| `Esp8266Link_proofs` | theorems about `Esp8266Link` |
| `AtResponses` | the ring buffer, the response table and the parsers behind `wait()` |
| `HttpMessages` | URLs, requests, responses and headers as texts |
| `HttpExchange` | the HTTP client and server over one connection |
| `Arena` | abstract: what a memory allocator promises |
| `HeapFreelist` | the allocator |
| `HeapFreelist_proofs` | theorems about `HeapFreelist` |
| `Library` | allocator, HTTP and responses, side by side |
| `Library_proofs` | theorems about `AtResponses` and `Library` |
| `LittleFs` | littlefs with its flag, contexts and handles, over power failures |
| `NorFlash` | the flash chip and its driver |
| `FatFs` | the FAT file system with its handles and the journal |
| `SdCard` | the SD card and its driver |
| `Storage` | these four, side by side |
| `LittleFs_proofs` | theorems about `LittleFs` |
| `Storage_proofs` | theorems about `FatFs`, `NorFlash`, `SdCard` and `Storage` |
| `ShellLine` | keys, line, terminal, completion, history |
| `Joystick` | keys, interrupt lines, sensor task, LED |
| `Panel` | the display task and the panel |
| `Rtc` | the calendar, `get_time()` and `set_time()` |
| `Console` | these four, side by side |
| `Console_proofs` | theorems about these four and `Console` |
| `MC...` | the values the runs give to the constants |

`UartPort`, `Library`, `Storage` and `Console` put components side by side whose
state is disjoint: in a behaviour one of them moves, chosen at the start, so that the
states of a run are the sum and not the product of theirs. Where components
share state they are in one module: the tasks, drivers and interrupts of a
device, both filesystem users of a context, the commands of the shell that
signal a task.

`Esp8266Link` and `SocketStream` cut the ESP8266 driver in two at the data of
a socket: the first has the commands and the state of sockets and leaves out
`feed_socket()`, the second has `feed_socket()` and takes the commands it sends
to the module as one step that succeeds or fails in every way the first
allows. `AtResponses` has the characters below the lines of `Esp8266Link`. The
UART receiver carries the bytes of all three; `Esp8266Link` uses the promise of
`LossyStream` (in order, none twice) and bounds the traffic, so that the
receiver is never lapped. `HttpExchange` stands on the promise of
`SocketStream`: the bytes of a connection in order, late or cut short.

### UartReceiver

A byte is represented by its number on the line. `DmaStore` stores it at
`wpos`, the position `read_position()` computes from the transfer counter, and
raises the interrupt; `LineIdle` sets the idle flag; `InterruptHandler` is the
code's handler: semaphore if idle, then clear the flags. Only the receive
interrupt is enabled, so an idle line is noticed with the byte after it. A task
in `read()` goes through `Call`, `Lock` (`m_read_lock` and the early return for
timeout 0), `Check` (the `while` condition), `Woken`, `PollAgain` or `TimedOut`
(the three outcomes of `try_acquire_for(40ms)`), `Take` (`fetch_add` and the
reset) and `Load` (the copy). The position runs from 0 to N, because the reset
comes one byte late: slot N is memory behind the buffer. `Load` counts it in
`phantoms` and leaves what it holds open.

History variables: `last`, the last byte of the line delivered; `lost`, the DMA
overwrote an unread byte; `phantoms`.

### UartTransmitter

A byte is its writer and its place in the span. The hardware moves it from the
data register `tdr` to the shift register (`Begin`) and out (`GoOut`), and sets
`complete` when none follows. A task in `write()` goes through `CallWrite`,
`LockWrite` (`m_write_lock`), `SeeEmpty` and `StoreByte` for each byte, and
`SeeComplete` or `WriteTimeout` at the end; an interrupt takes no lock but keeps
tasks and other interrupts from running. `ReceiveInterrupt` is the part of
`interrupt_handler()` that this side sees: it clears all flags of the UART,
`complete` included. It may come at any time, as the receiver's bytes do; that is
all the two sides have in common, so `UartPort` lets one of them move. The 1 s
timeout is taken only when the hardware has nothing left to send: a second is
thousands of bytes long.

History variables: `writer[a].out`, how many bytes of the span went out;
`spoilt`, a byte was lost or came in among those of another task.

### SocketStream

The WiFi task is `Notify` (the `+IPD` announcements), `Scan` and the loop of
`feed_socket()`: `Fetch` or `FetchFailure` for `AT+CIPRECVDATA`, `PublishSpan`,
`PublishCount`, `WakeReader` for the three statements of `feed()`, and
`FeedReturns` for its semaphore or its timeout. The reader is `Check`, `Woken`,
`ReadTimeout` and one action for each access to shared state in `read()`:
`TakeFront`, `Subspan`, `Assign`, `CountTotal`, `CountByte`, `ReadReturns`. The
span is not atomic, hence `Subspan` and `Assign` apart. When `feed_socket()`
returns, its buffer holds garbage (0). A failed fetch may or may not have taken
the bytes out of the module. The counters count modulo `Word`.

### Esp8266Link

The module (`Execute`) reads a command and answers with the lines of the AT
command set, or fails it; `PeerCloses` produces `n,CLOSED`; `Transmit` moves
halves of lines to the receiver. A line has two halves because `wait()` starts
with an empty buffer of its own: a wait that ends in the middle of a line makes
the next one miss it (`HalfMissing`) or, for `SEND OK`, mistake its second half
for `OK`. `Response` is the table with its order, in which `FAIL` shadows
`SEND FAIL`.

The WiFi task: `WifiLock`, `WifiCopy` and `WifiClear` (two statements without
protection from the writer), `WifiHandle` for each event, `WifiListen`,
`WifiRead`, `WifiQuiet` for `wait(0)`, the second round, `WifiUnlock`. The
client: `Open` claims the first free socket, `OpenCommand` takes `m_lock` and
writes the command, `ClientAnswered`, `ClientQueues` and `ClientTimeout` are
`wait()`, `PollConnected` and `PollTimeout` the `busy_wait` of `open()`, and so
on for `close()` and for the three stages of a write, which take no lock. A
timeout is taken for `OK` (`AfterTimeout`), as `execute_command()` does. Only
CONNECT and CLOSED are queued: `handle()` merely logs the others.

### HeapFreelist

Memory in words of four bytes. `heap.blocks` is the list of all blocks in
address order, `heap.free` the free list, and every operation of `block` and
`freelist` is an operator on them with the name it has in the code. An
allocation or release is one step, because the allocator has no lock and is
modelled with one caller. `StorePadding` is the padding byte of the aligned
interface: when it is zero, it overwrites the top byte of the header, which
holds `m_used`. When `release()` then takes a block in use for the free one
before the block released, it writes list links into the user's data; the model
records that in `misled` and stops. The aligned interface is also used by the
standard library's default memory resource, so this happens in the firmware.

### AtResponses

`wait()` pushes each character into its ring buffer (`PushBack`) and looks for
the first row of the table it ends with (`Match`). A row that was asked for
ends the wait (`Return`); `+IPD,` hands over to the parser of packet
announcements, `n,CONNECT` and `n,CLOSED` are queued. `List` is the command
that reads one `+CWLAP` line after the other into the same record (`Stored`,
`NextField`). A character is a token, of which the code looks at the ends only;
the ring has five, as many as the longest row modelled, so that it is full and
goes round at every line. What the module may say is a set of lines of four
kinds: a connection that comes or goes, a packet, a network, and any other
(`IsConnection`, `IsPacket`, `IsNetwork`, `IsOther`). That they are well formed is
assumed of the module (`LinesAssumption`), which is not in this repository; the
parsers rely on it: an SSID with a comma in it, or a field that is the word of an
event, would be taken for more than it is.

### HttpMessages and HttpExchange

`HttpMessages` has the pure functions: `Url` and its parts, `RequestText`,
`ResponseText`, and `Message`, the header parser, position by position as the
code finds them. `HttpExchange` runs them: as client `Ask` and `Open`,
`Receive` for each byte of the header, `TakeResponse`, and `ReadBody`; as server
`Poll`, `ReadRequest`, `TakeRequest` (with the handler, which may read the body)
and `Answer`. The peer may send late, close early and leave things out.

### LittleFs

The context is a number, 0 for the null pointer; `contexts` keeps the state of
every one allocated, since `mount()` never frees them. Every call of the library
is two steps (`Enter...`, `Leave...`), so that another task's call can fall in
between: a call while another is inside, on a context in the wrong state, or on
a file of another context is `wild`. The filesystem task mounts at the start
(`ClaimMount`, `InitDisk`, `NewContext`, ...); the shell's `littlefs-format` and
`littlefs-test` run step by step. `PowerCycle` keeps the disk only, which is
torn when it was being formatted.

### NorFlash

A call of the HAL takes two steps: it tests the state of its handle (`Admit`,
or `Fail` where it does not fit), and it does its work and sets the next state
(`Order`, `Announce` for a command with data, `Transfer`), or fails at that and
leaves the error state. Between the two the other task passes the same test. The
chip has the bits WEL and WIP. The driver's calls are sequences of such steps
(`WriteEnable`, `AskStatus`, `ReadStatus`, `AskProgram`, `ProgramPage`, ...) by
two tasks with no lock. `overlapped` records that two calls ran at once; from
then on what the chip makes of the commands is not followed, and it answers
anything.

### FatFs

The library is modelled by what the code relies on: it counts mounts, mounts a
registered volume by itself, refuses to open a file twice and keeps a table of
`_FS_LOCK` files. It is built without locks; two calls at once end a behaviour.
`PickHandle` takes the first handle not open; `Use` is the journal's operator,
which does not test the pointer. A call on a handle that is not open does
nothing and returns 0 (`UseHandle`); the sink of the journal asserts that all
was written, which stops a build without NDEBUG (`Unwritten`, `Debug`). The run
`storage` has a build with NDEBUG, `fat_lines` one without.

### SdCard

`CallCard` asks the card whether it is ready, `TakeLock` takes the lock of the
kind, `StartDma` starts the transfer on the one handle, `Acquire` and `GiveUp`
are the two outcomes of the 30 s wait, `DataEnd` and `DataError` the interrupts.
A card that is not ready makes the call return, as in a build with NDEBUG; one
without stops there (`stm32l4_sdmmc.hpp:63`, `:117`).

### ShellLine

A byte is one step of the shell's task, with everything it redraws. `branch` is
how far `get()` is in a sequence; a byte that does not go on with it is a
character of the line (`ReadByte`), a control byte too. `terminal` is the row the
cursor of the terminal is in, with its prompt, and where the shell believes the
cursor to be. `Erased` goes to the left as `move_to()` does, into the prompt if it
has to. What a terminal shows after a control byte is not followed: `Garbled`
stands for any row, until the row is drawn anew. `strayed` records that such a
byte came, or a completion that found nothing, since then. `Narrow` and `CompleteName` are the completion over the sorted
command list, `CompleteArgument` that of `cat` over the directory. `Save`,
`NextPosition` and `PrevPosition` are the history with its indices as they are;
a line that does not fit is not kept (`Fits`).

### Joystick and Panel

A press sets the flag of a line; a routine goes through the lines of its range
(`Advance`), clears the flag, and with it all others that are set, since it reads
the register and writes it back (`Check`), calls the handler, which reads the pin
(`Call`), and signals the task. `wiped` are the keys whose flag another line's
handler cleared. `Notified` is the OR of signal bits, `Receive`
takes them all. In `Panel` any write to the panel may fail unseen.

### Rtc

The calendar ticks, the shadow registers follow, and reading the time freezes
the shadow of the date until the date is read. `ReadTime` and `ReadDate` are the
two reads of `get_time()`; `SetTime` goes through `set_time()` register by
register. `seen` collects what the calendar showed while a reading was under
way. Of a month the tens are neither read nor written, of a year the units, since
the field begins at bit 20 (`Shown`, `Merged`); `TensWritten` is what is left of
`tm_year` in the byte of `int_to_bcd()`. `RtcInit` has both outcomes of `init()`:
where the oscillator did not start in time INIT stays set, and nobody looks at
the result.

## 3. The runs

| Run | Constants | Checks | Distinct states |
|---|---|---|---|
| `uart` | receiver: N = 3, two readers, spans of 2, timeouts 0, 1 poll or no limit, 6 bytes; transmitter: two tasks and an interrupt, one span of 1 or 2 bytes each, one byte received | `Inv`, `EmptyMeansDrainedOrFull`, `OnePhantomPerLap`, `ImplementsStream`, `WaitingReaderServed`, `FiniteReadReturns`, `LineCarriesWrites`, `NoWriteHangs` | 477,974 |
| `serial_write` | one task, one interrupt, spans of 1 or 2 | `WriteSaysAll` is violated | – |
| `socket_stream` | chunk of 2, 4 bytes, with and without timeouts and failures | `DeliversTheChunks`, `CountersNeverWrap`, `TaskComesRound`, `EveryByteDelivered` | 459,708 |
| `socket_overwrite` | chunk of 2, timeouts | `ChunkConsumedFirst` is violated | – |
| `link` | two links, torn lines, writes; 5 commands with patient timeouts, 2 with impatient ones | `ToldTrue`, `SocketFollowsModem`, `LockComesFree`, `OpenReturns` | 581,110 |
| `library` | 26 words, data of 1 or 3 words, alignments of 1 or 2; 20 URLs, 6 responses, 5 requests, two of them in a row; 2 of 10 lines, a ring of 5 | `LibraryTypeOK`, `BlocksTile`, `FreeListExact`, `CoalescedUntilDrained`, `ImplementsArena`, `HttpReadAsSent`, `CommandEnds`, `LinesReadAsSaid` | 124,903 |
| `heap_walk` | 16 words, alignments | `WalkFindsFreeBlock` is violated | – |
| `storage` | littlefs: 2 handles, 4 commands, 2 starts; flash: 2 sectors of 2 pages, 2 tasks, 3 calls; FAT: 3 handles, 4 orders; card: 2 users, 5 transfers | `StorageTypeOK`, `WildOnlyInRace`, `FlagsTellTruth`, `NeverLeftAnnounced`, `ReportsTrue`, `DoneMeansMoved`, `CallsComeBack` | 406,229 |
| `fat_journal` | 3 handles, 4 orders | `HandleForJournal` is violated | – |
| `fat_lines` | 3 handles, 2 orders, without NDEBUG | `JournalGoesOn` is violated | – |
| `console` | 4 names, 3 characters of those typed and saved, lines that fit with 3, 3 lines, a history of 2; 2 keys; the panel; 2 readers, 2 ticks, 2 settings | `ConsoleTypeOK`, `ScreenShowsLine`, `HistoryKeepsRecent`, `SignalsTakeEffect`, `ReadsOneInstant`, `CompletesToCommonPrefix`, `HeldKeyReported`, `ClockGoesOn` | 602,164 |
| `joystick_lines` | keys up and down | `EnabledLineServed` is violated | – |

What they show, and why the bounds are enough:

- **The UART receiver** never repeats or reorders a byte, whatever two readers,
  the DMA and the interrupt do, and skips one only after the DMA lapped the
  reader (`ImplementsStream`). `empty()` turns a reader away with bytes unread
  only when exactly N are unread, or N - 1 with the reader at slot 0; that is
  the price of telling full from empty by positions alone. Each lap delivers
  one byte from behind the buffer. Six bytes are two laps of a buffer of
  three, so every relation of the positions occurs before and after a byte was
  lost; two readers suffice for the lock. The same statements are proved for
  all values of the constants (section 5). With no limit on its wait, a reader
  whose interrupt never comes is still served by its own poll
  (`WaitingReaderServed`), unless the buffer is as full as to look empty.
- **The UART transmitter**: the bytes of a write leave in order, those of two
  tasks never mix, and a write that says it sent all did (`LineCarriesWrites`).
  Only the bytes of the interrupt, which takes no lock, may come in between. Every
  write returns (`NoWriteHangs`), although the interrupt's has no timeout and an
  interrupt may clear the flag a task waits for; then the task says 0 of a span
  that went out (`serial_write`). Two tasks suffice for the lock, spans of two
  for something to come in between.
- **The socket stream** delivers exactly the bytes of the chunks until a
  `feed()` gives up after its 5 s; then a span may outlive its buffer
  (`socket_overwrite`). `DeliversTheChunks` is stated for the time before that,
  because afterwards it does not hold. Four bytes with chunks of two give a
  transfer of two chunks, one announced in the middle of another, and a failure
  that leaves the total too high; 64 is far above any value of a counter that
  did not wrap. With neither timeouts nor failures every byte arrives.
- **The command link.** While no timeout is early and nothing is written,
  `open()` and `close()` act on the answer to their own command
  (`ToldTrue`), and at rest the sockets agree with the module
  (`SocketFollowsModem`): the WiFi task may apply an old event between the
  answer and the setting of the state, in any order. Writes take no lock and
  can lose answers and events and leave the module in data mode, so both
  statements exclude them; what holds of writes is that one reported done did
  send its own data. Five commands on two links allow a connection to be
  opened, closed and opened again with events of both lives on the way. With
  every early timeout and every loss, and a module that owes nothing, `m_lock`
  is free again and again, and `open()` returns. Deadlock is not checked
  because the calls of the client are bounded and it then stops.
- **The heap**: for every order of allocations and releases, including those
  that drain the list, blocks tile the memory, the free list holds exactly the
  blocks nobody owns, and callers get disjoint regions of the size they asked
  for (`ImplementsArena`). 26 words hold up to five blocks, which allows a free
  block between two others to be joined in both directions, and a split, at
  every place of the list. Merging is complete until the list ran empty once
  (`CoalescedUntilDrained`). With the aligned interface all this holds until
  `release()` is misled.
- **HTTP**: every URL, with and without protocol, port and path, is taken apart
  into what it was made of (`UrlTakenApart` in `HttpReadAsSent`); messages with fields, a length, a
  body, one after the other on a connection, are read as they were sent
  (`MessagesReadAsSent`, its other half), as long as fields hold no colon, no body is chunked
  and no handler leaves a body unread: `Plain` and `faults` name these cases.
  `wifi-http-get` ends except for a silent peer and an endless body
  (`CommandEnds`). Two messages in a row suffice for what one leaves to the
  next.
- **The lines of the module**: whatever was said in between and whatever a task
  waits for, the queue gets the events with their numbers, in order
  (`EventsAsAnnounced`), and `list()` shows each network's own fields
  (`NetworksAsListed`), except the first and the last, which it never has; the
  two make `LinesReadAsSaid`.
- **littlefs** is used by two tasks at once, or on an unmounted context, only if
  the shell was given a command before the mount at the start had ended, or
  `lfs_unmount()` failed (`WildOnlyInRace`), and in all other cases the flag
  tells the truth over power failures too (`FlagsTellTruth`). Four commands are
  more than the handles, of which every `littlefs-test` loses one.
- **The flash driver**: commands of two tasks do get between each other's
  command and transfer, since the test of the HAL's state keeps nobody out who
  passed it before; but the handle is not left there for good: where it waits for
  a transfer some call is still to make it or to be refused it
  (`NeverLeftAnnounced`). As long as calls do not overlap what is reported was
  done (`ReportsTrue`). Two tasks and three calls allow every pair of steps of
  two calls, and a call after them.
- **FAT**: the flag tells whether the volume is mounted (`FlagsTellTruth`, its
  other half). The library refuses the second opening of the journal, which is
  never closed: from the second press on no line is written, and a debug build
  stops (`fat_lines`).
- **The SD card**: as long as no transfer outlasts its 30 s, a call that
  succeeded has moved its own block (`DoneMeansMoved`); after one that did the
  semaphore stays one ahead, and every later call returns too early.
  `CallsComeBack` says that the calls of both drivers return, of the flash
  driver those that run alone.
- **The shell** shows the line it will run (`ScreenShowsLine`), after the prompt
  or where the output of a program pushed it, unless a completion found nothing
  or a control byte got into the line, which after ESC any can; it completes to
  exactly what names have in common (`CompletesToCommonPrefix`) and keeps the last
  lines that fit (`HistoryKeepsRecent`). The names share one, two and three
  letters; three lines go round a history of two; three characters are a line
  that does not fit, or two that do and a third.
- **Joystick, LED, panel**: a held key is reported however its edge falls
  (`HeldKeyReported`), unless the handler of another line found its flag set and
  cleared it too; signals that come together lose nothing
  (`SignalsTakeEffect`) and the clock goes on (`ClockGoesOn`).
- **The calendar**: a reader alone sees a time and a date of one instant, also
  across midnight and right after a setting (`ReadsOneInstant`); the last date
  before New Year, two ticks and two settings let both happen in one reading.

Every property of a passing run fails on a mutant of the code that
`PROJECT.json` names: a lock not taken, a count added instead of stored, a
wakeup forgotten, a block not shrunk, a state not reset, a flag left set, a
copy not waited for, and the like.

`CHECK_DEADLOCK FALSE` stands where commands, calls or lines are bounded and
everything may then come to rest.

## 4. Fairness

`uart`: weak fairness of the steps of a task inside `read()`, which
FreeRTOS schedules and whose 40 ms timer expires; the line, the interrupt and
the callers owe nothing. `NoWriteHangs` needs no fairness: it says that a write
always finds a step of its own or of the hardware to go on with, none of which
repeats without end. `socket_stream`: weak fairness of the WiFi task and of
a reader that keeps calling, both tasks of the same low priority that block
with timeouts. `link`, in its impatient half: weak fairness of `run()` and of
the client inside a call, strong fairness of taking `m_lock`: the WiFi task
sleeps 300 ms with the lock free between two rounds, so a task queued on it gets
it. The module and the peer are never assumed to do anything. `library`: weak
fairness of the client that reads a body, whose waits end, and no fairness of
the peer. `storage`: weak fairness of the steps of a call, which no task leaves
half done, of the chip completing what it does, and strong fairness of taking
the lock of the card. `console`: weak fairness of the interrupt routines, of the
sensor and of the display task; `HeldKeyReported` is stated for finitely many
presses, since interrupts that never stop leave no time to a task.
The safety properties need no fairness.

## 5. What is proved

A theorem module EXTENDS the component it is about, or the composition when it
is about the small parts of one. Everything is proved for all values of the constants under the assumption the component
names, which TLC evaluates in every run; no bound of section 3 enters.

| Module | Theorem | States |
|---|---|---|
| `UartPort_proofs` | `InvCorrect` | `Spec => []Inv` |
| | `EmptyCorrect` | `Spec => []EmptyMeansDrainedOrFull` |
| | `PhantomCorrect` | `Spec => []OnePhantomPerLap` |
| | `StreamCorrect` | `Spec => ImplementsStream`, the refinement of `LossyStream` |
| | `LineCorrect` | `SendSpec => []LineCarriesWrites` |
| | `PortSides` | the port behaves as each of its sides |
| | `PortCorrect` | the port implements the stream and carries the writes |
| | `WorkIsLeft` | what `NoWriteHangs` says, by the guards of the steps in the place of ENABLED |
| `SocketStream_proofs` | `StreamTypeCorrect` | `Spec => []TypeOK` |
| | `DeliveryCorrect` | `Spec => []DeliversTheChunks` |
| | `CountersCorrect` | `Spec => []CountersNeverWrap` |
| `HeapFreelist_proofs` | `HeapInvariant` | `Spec => []HeapInv` |
| | `ListExact` | `Spec => []FreeListExact` |
| | `FreeBlocksApart` | `Spec => []CoalescedUntilDrained` |
| | `BlocksCorrect` | `Spec => []BlocksTile` |
| | `Implements` | `Spec => ImplementsArena`, the refinement of `Arena` |
| `Library_proofs` | `LinesCorrect` | `AtSpec => []LinesReadAsSaid` |
| | `LibraryParts` | the composition behaves as each of its three parts |
| | `LibraryCorrect` | `LibrarySpec` keeps the free list, the blocks and the lines |
| `LittleFs_proofs` | `LfsTypeCorrect` | the types |
| | `WildCorrect` | `LfsSpec => []WildOnlyInRace` |
| | `FlagCorrect` | the littlefs half of `FlagsTellTruth` |
| `Storage_proofs` | `FatTypeCorrect` | the types of `FatFs` |
| | `VolumeCorrect` | the FAT half of `FlagsTellTruth` |
| | `NorTypeCorrect` | the types of `NorFlash` |
| | `HandleCorrect` | `NorSpec => []NeverLeftAnnounced` |
| | `ReportsCorrect` | `NorSpec => []ReportsTrue` |
| | `SdTypeCorrect` | the types of `SdCard` |
| | `DoneCorrect` | `SdSpec => []DoneMeansMoved` |
| | `StorageParts` | the composition behaves as each of its four parts |
| | `StorageTypeCorrect` | `Spec => []StorageTypeOK` |
| | `FlagsCorrect` | `Spec => []FlagsTellTruth` |
| `Esp8266Link_proofs` | `LinkTypesHold` | `Spec => []TypeOK` |
| | `ToldTrueHolds` | `Spec => []ToldTrue` |
| | `SocketFollowsModemHolds` | `Spec => []SocketFollowsModem` |
| `Console_proofs` | `ConsoleParts` | the composition behaves as each of its four parts |
| | `ConsoleTypeCorrect` | `Spec => []ConsoleTypeOK` |
| | `SignalsCorrect` | `Spec => []SignalsTakeEffect` |
| | `InstantCorrect` | `Spec => []ReadsOneInstant` |
| | `HistoryCorrect` | `Spec => []HistoryKeepsRecent` |
| | `ScreenCorrect` | `Spec => []ScreenShowsLine` |
| | `CompletionCorrect` | `Spec => CompletesToCommonPrefix`, an action property |

All are of the form `Init => IInv`, `IInv /\ [Next]_vars => IInv'`, `IInv => P`:
none of the properties is inductive alone. What the strengthenings add, beside
the types:

**Receiver** (`Inv`). That bytes come in order depends on which byte each slot
holds, and that a reader copies the slot it took depends on no other reader
being past the lock.

- `LockInv`: who is past the lock holds it;
- `IndexInv`: a reader that took a slot left the position one further;
- `BufferInv`: slot i holds the byte stored `Age(i)` stores ago, so the whole
  buffer is a function of `written` and `wpos`;
- `OrderInv`: what will be copied next is newer than all that was copied;
- `GapInv`: until a byte is lost, the slot to be read next holds exactly the
  byte after the last one delivered;
- `LapInv`: until then, copies made are N + 1 per lap.

`NextTypes` and `NextLock` prove the first parts for every action. The data
parts are disturbed only by `DmaStore`, `Check`, `Take` and `Load`
(`StoreData`, `CheckData`, `TakeData`, `LoadData`); all other steps are quiet
for them (`QuietData`). `Alone` says that one reader past the lock is the only
one. The refinement follows step by step: a store is an `Arrive`, a copy of a
real slot is a `Deliver` (`CopyStep`), everything else stutters. TLC checks the
same `Inv` in `uart`.

**Transmitter** (`SendInv`). A write that reports everything is right because
the bytes stored are those that are out plus those in the two registers
(`InOrder`), the flag `complete` is set only when both are empty, and a register
that was seen empty stays empty as long as no interrupt writes
(`RegisterInv`). That last part is what an interrupt disturbs, and why
interrupts keep tasks from running between their own two steps.
`TransmitterAssumption` says that spans are not empty and that the interrupt is
none of the tasks. That a write never waits for something that does not come back
(`WorkIsLeft`) needs two facts more: while an interrupt writes, only its own
polling takes the flag away (`FlagStays`), and a taken lock has a writer past it
who is still to give it back (`LockUsed`).

**Socket stream** (`StreamInv`). Until a feed gives up, the total is exactly
what was announced and not yet read, less the byte the reader has counted and
not delivered (`CountInv`); a reader is in the middle of a byte only while the
chunk is shared (`PhaseInv`), and then span, tail and byte are functions of how
much of the chunk is left (`HandInv`); the feed is woken only where nothing is
left (`WakeInv`); the buffer holds the last chunk fed, and what was delivered is
a prefix of what was fed (`DataInv`). After a feed gave up, only `ChunkInv`
remains, which is enough for the count of the chunk but not for the total; the
theorem says of the total what holds: that it does not wrap until then.

**Allocator** (`HeapInv`). The blocks tile the memory and the callers' ones hold
their padding and a word (`OwnsBlocks`), which is what keeps regions apart; the
free list has the blocks nobody owns, each at one place (`Lists`), without which
unlinking would leave a second link to a block; and, with the plain interface
until the list runs empty, the list is sorted, free blocks are marked free and
do not touch (`Tidy`), while blocks in use are marked used. `Tidy` needs all of
these at once: that one look at the neighbours in the list is enough needs the
sorted list, and that `release()` finds the right place in it needs the marks.
After the list ran empty only the exact list is left, and with the aligned
interface that until `release()` takes a block in use for a free one (`misled`),
where the model ends. The proof follows the calls from the inside out, each with
an operator that says what it does to any heap with an exact list: `merge_next()`
(`Swallowed`), the two halves of `merge()` (`Fused`, `OnwardLeaves`,
`MergeLeaves`), `append_to_freelist()`, `prepend_to_freelist()` and `release()`
(`Freed`), `split()` (`Carved`) and `request()` (`Granting`). `split()` is the
hard one: the tail joins the list and is merged before the block it was cut from
shrinks, so for a moment two blocks overlap and no invariant of the heap holds
(`Overlapping`); what saves it is that the block's end is beyond the tail's start,
so that `merge()` cannot join the two again (`TailMerges`). Allocation and release
are then an Arena step each (`GrantsGives`, `ReturnsTakesBack`).

That `allocated()` is the sum of the blocks in use (`CountInv`) is a statement
about a fold over a set. A fold over a finite set is a recursive function on its
subsets (`Sums`); that there is one, and that it gives the same for every order in
which the blocks are taken (`TotalWithout`), is shown by induction on the subsets of
a finite set (`SubsetInduction`, from the least cardinality of a counterexample).
A call then changes the sum by the blocks it takes or gives back
(`GrantsCount`, `ReturnsCount`); splitting and merging move sizes between blocks
that are not in use.

**Responses** (`AtInv`). Until a timeout cuts a line, the invariant knows how much
of the line under way was read, and what that has left (`AtPhase`). At its
beginning the ring may hold anything but the start of an event at its end
(`Quiet`), so that no row that queues or hands over can match before its own
tokens came; within a connection or an announcement the ring ends with the tokens
so far (`Holds`), which needs that a full ring loses its oldest token and no other
(`PushKeeps`). A parser that took over has the fields of the line so far
(`InPacket`), and that of the networks as many as there were commas, with the
record holding all but the first (`Listed`), whatever was in it before. An answer
that is waited for returns at its line feed only, so nothing is left of the line.
For the order of the events the queue and what the lines under way still owe
are, one after the other, what was announced (`Balanced`): a packet owes its event
until its number was read, in the middle of the line, the others until the line
feed.

**Flash** (`NorInv`). Any number of tasks may be past the test of the HAL at once.
That the handle is not left between a command and its transfer rests on what each
does when its own step is over: who announced data goes on to the transfer, which
sets the state back or is refused, and that only where the state has become
another; and a step that fails leaves the error state. For the reports `LoneInv` says that calls that do
not overlap come one after the other, and that a busy chip is one the call is
waiting for; `DoneInv` describes, for each kind of call, the pages at every
place in its loop (`WriteSoFar`, `EraseSoFar`, `WipeSoFar`) as a function of the
contents before it.

**FAT** (`FatInv`). That the flag tells the truth rests on who may take it and
give it back in the middle of `mount()`, `unmount()` and `format()` (`BehindInv`),
and that on where each task can be (`TaskInv`). It is proved with and without
assertions.

**littlefs** (`LfsInv`). `Phase` says for each place of a call what flag and last
context are there, `FileRight` where the open file belongs, `DiskRight` what the
disk is; the filesystem task is in a call only at the start (`AtStart`), from
then on only the shell is (`Serving`). A power failure leads from either back to
the start. `MaxBoots` is at least 1: the device starts once.

**SD card** (`SdInv`). Calls have numbers of their own (`Numbered`), who is past
the lock of its kind is alone there (`Locking`), and the card is busy with the
transfer of somebody who waits and was not served before (`HandleInv`).

**Command link** (`LinkInv`, `EventInv`). The receiver and the line are looked at
as one stream of halves, the copy and the queue of the WiFi task as one queue of
changes, so that passing a half on or copying the queue changes nothing
(`Stream`, `Queue`). That `open()` and `close()` believe only their own answers is
a property of the end of a call; the invariant is about all that comes before
(`AnswerInv`, in patient behaviours): halves are paired; all but the peer's
closings answer the one command of the client, in the order in which the module
gives answers; as long as the command waits there is none of them; a client under
way has its command or an answer still to come, hence no timeout; it has read the
first half of the line it is in; and a CONNECT in the queue is the only one and
belongs to this `open()`. `LockHeld` keeps the WiFi task out of it all. The lines
of a write, which takes no lock, are in the same stream; a write is told the truth
because `SEND OK` follows only the data. `EventInv` holds while nothing was
written or missed: of every link the last change in the stream tells what the
module holds; where there is none, the last in the queue; where that has none
either, the state of the socket, but for the one `open()` or `close()` is about to
set. At rest stream and queue are empty, and what is left is
`SocketFollowsModem`.

**Console.** *Display* (`PanelFollows`): at most one order is on its way, because
the shell gives one only while the task waits without any; until it is obeyed it
is the last command, and before and after it the status and, unless a write was
missed, the panel are as the commands have it. *LED* (`LedFollows`): unless
commands were merged, carrying out what is noted and received gives what the
commands, one by one, have it; keys do not change that, since no key has the name
of a command. *Clock* (`RtcInv`): a reading whose instants are remembered is alone
(`Alone`); nothing keeps the date from being copied while nobody reads
(`FrozenByReader`); unless a `set_time()` gave up, the shadows are valid outside of
it (`AtWork`) and show the calendar (`ShadowsCopied`), so that what a reading got
and will get is one of its instants (`Instant`), however often the calendar moves
on. *History* (`SlotsHoldEntries`): slot i holds the line entered a number of lines
ago that depends on i and the slot of the newest line only, which goes round one
at a time (`RemainderOf`). *Clock types* (`RtcHolds`): the fields of a date that
was read, changed and written back stay what four or five bits, or two digits, can
hold (`MergedHolds`, `LaterHolds`). *Screen* (`ScreenFollows`): as long as nothing
strayed the line has characters only, the row is the line, with the prompt before
it or not, and the cursor is as far as the line is long; only an empty line has
the output of a program before it, and that puts no prompt there. Recalled lines have no Nul (`PlacesHold`), since what is saved ends
before one (`BeforeNul`). *Completion* (`Found`): after the loop over some of the
commands the candidate goes together with all that go on, and two of them part at
its end, unless only one goes on; by the same induction on the set of
places the loop went over (`BestNarrowed`). `CommandsAssumption`, that no name
begins another, is what keeps the too short length of `find_common_length()`
(`Common`) from being seen.

**Compositions.** In `UartPort`, `Library`, `Storage` and `Console` one part moves
and the others stay, so a behaviour of the composition is one of each part
(`PortSides`, `LibraryParts`, `StorageParts`, `ConsoleParts`), and every theorem of a part holds of the
composition.

Only model-checked:

- liveness (`WaitingReaderServed`, `FiniteReadReturns`, `TaskComesRound`,
  `EveryByteDelivered`, `LockComesFree`, `OpenReturns`, `CommandEnds`,
  `CallsComeBack`, `HeldKeyReported`, `ClockGoesOn`) and `NoWriteHangs` itself,
  which is about ENABLED (`WorkIsLeft` proves the guards): the prover treats neither;
- `HttpReadAsSent`: what the functions on texts compute for every text is an
  induction over data;
- `LibraryTypeOK`, which nothing in the proofs needs: `HeapInv`, `AtInv` have the
  types their properties rest on.

Of the calendar a type says little: a month can be written that is none (October
over a February leaves 0), and of what the hardware makes of it nothing is known;
the model lets it count on within its five bits.

## 6. Findings

- `serial_write`: the receive interrupt clears all flags of the UART, and so does
  a write from an interrupt; a task at the end of its write then waits for a
  flag that does not come back, and after a second reports 0 bytes although all
  were sent (`stm32l4_uart.hpp:323`), which `board_impl.cc:140` asserts not to
  happen.
- `socket_overwrite`: `feed_socket()` refills or leaves its buffer after 5 s
  although the reader still holds a span of it; the comment at
  `esp8266_wifi_device.hpp:591` says it waits until the chunk is consumed.
- `heap_walk`: a padding of zero, stored in the byte before the data
  (`heap_allocator.hpp:121`), clears the used mark of the block's header, and
  the loop of `release()` that is to "Find first free node." finds a block in
  use.
- `fat_journal`: `cat` never closes its file (`command_file_system.hpp:159`), nor
  does the sensor task its journal (`sensor_task.h:213`); when the three handles
  are gone the next press writes through a null pointer, which
  `fatfs_stream_file.hpp:8` asserts not to be one.
- `fat_lines`: from the second press of the centre on the journal is refused,
  `write()` returns 0, and `file_stream_sink.hpp:23` asserts that it does not: a
  debug build stops, another loses the lines.
- `joystick_lines`: the ranges of the shared vectors leave out their last line
  (`stm32l4_exti.hpp:113`, `:119`); the down key is line 15, its flag is never
  cleared by its own handler and the vector is entered for ever, unless a key of
  another line is handled.

Other behaviour the models carry, without a run of its own:

- A block released into an empty free list keeps its used mark
  (`block_freelist.hpp:136`), which `mark_used()` asserts not to be set
  (`block_header_type.hpp:39`); later releases pass over it.
- `mount()` of littlefs never frees a context; `littlefs-test` never closes its
  second handle, and after as many runs as there are handles no file can be
  opened.
- A completion that finds nothing leaves a zero byte in the line; the first
  line saved goes to the second slot of the history; an argument of one
  character is not completed.
- Clearing the flag of one external line (`stm32l4_exti.hpp:81`) writes back all
  that are set, and so clears them: of two keys pressed at once one is handled
  (`Check`), although `stm32l4_exti_bits.hpp:226` says of a flag that writing its
  own bit clears it.
- `get_time()` reads the tens of the year only (`stm32l4_rtc_bits.hpp:24`), and
  `set_time()` takes the year from another epoch (`stm32l4_rtc.hpp:213`, `:180`)
  and writes its last digit over the tens: `rtc-set-time` turns 2024 into 2004.
- Flash: `memorymapped_mode()` succeeds only inside another task's transfer.
- Shell: every byte after ESC or ESC [ that does not go on with the sequence is
  a character of the line, a backspace or a second ESC too, and the screen is
  wrong until it is drawn anew; after the output of a program the next line has
  no prompt.
- HTTP: a colon in a value, a missing final field and a chunked body are read
  wrongly; a connection that stays open without an answer is waited for for
  ever.
- The `+IPD` parser that times out, or finds fewer than two fields, returns the
  value of an empty `expected`, and the event (0, 0) is queued. The list of
  access points shows every network as open, because the bracket stays in the
  first field, and never parses the last.
- Calendar: the month loses its tens (a mask of four bits), so that October to
  December are shown as 0 to 2; every year is shown as its tens; the result of
  `init()` is ignored, and where it gave up the tasks read the registers as a
  reset left them; `rtc-set-time` writes back a date read before it
  began; a command that gives up leaves INIT set, and the calendar stops when the
  oscillator comes. Two tasks that read at midnight can get a time and a date
  that never belonged together.

## 7. What is not modelled, and why

- Formatting of values and drawing: the text of logs and the pixels of the
  display. No state outlives a call, and no claim depends on the wording.
- Parsers of SNTP time, IP and MAC addresses and of connected clients: they are
  made of the same base as the two that are modelled, with other fields.
- Ring buffer operations that nothing calls, the CDC device, which nothing
  opens, renaming and removing files and directories, which no task does.
- Hardware registers, clock trees, pin and device trees, start-up code, vendor
  HAL, FatFs', LittleFs' and TinyUSB's own code, which are reached only through
  their calls. Font tables and register layouts, a large part of the source,
  have no behaviour.
- The clock that adds milliseconds and microseconds of two counters: nothing
  enables the second counter, and timeouts are steps, never measured.
- The spin locks of `atomic_lock.hpp`, which nothing uses.
- On the line to the ESP8266, a write that reports 0 although all was sent: the
  caller then gives up a command that was said, as after an early timeout of its
  answer, which `Esp8266Link` has.
- A `std::vector` of events torn by an unlocked writer, and two allocations at
  once: their effects have no useful enumeration. Both are listed as hazards.
- A module that talks without end. Traffic is bounded by the commands.
- What a terminal shows after a control byte, and lines longer than the buffers
  of the shell, which it copies without looking (`shell.hpp:169`): `ShellLine`
  enters and completes a line only while it fits.
- What the flash chip makes of commands of two tasks that come between each
  other: only the HAL's handle and the tasks are followed then.
- What is assumed of code outside `src/src`: littlefs refuses to mount a torn
  disk, FatFs refuses to open for writing what is open, the HAL tests its state
  before and sets it after its work.
- Bounds: `MaxBytes`, `MaxWrites`, `MaxReceived`, `MaxCalls`, `Words`, `MaxRequests`, `MaxLines`,
  `MaxCommands`, `MaxBoots`, `MaxFlashCalls`, `MaxOrders`, `MaxTransfers`,
  `MaxTyped`, `MaxEntered`, `MaxTicks`, `MaxSet` cap what would be unbounded.

Recursion: no module uses RECURSIVE operators, so each can be proved about.

## 8. Plan

Left to model, in this order:

1. A talkative module and slot leaks in `Esp8266Link`.
2. The remaining parsers, and the frame buffer's arithmetic.

Theorems worth proving next: what the parsers read, by the induction that the
count of the allocator and the completion of the shell use.

# CAmkES applications: a TLA+ development

This directory holds TLA+ models of the CAmkES applications under `apps/`, the
TLC configurations that check them, and TLAPS proofs. The applications are
seL4 component systems: each component is a protection domain with one thread
per interface (and one for `run()`), and components interact only through RPC
(`seL4RPCCall`), notifications (`seL4Notification`: one sticky bit), shared
memory (dataports) and device interrupts. The libraries they link
(`libs/`, picotcp, the U-Boot driver library, the virtqueue and sync libraries)
are not in the repository; where a model needs one it is modelled from how the
applications use it and marked external.

## 1. Inventory

| component | state | operations | what is hard |
|---|---|---|---|
| security_demo KeyReader, Crypto | ring in a dataport (`data`, `head`, `tail`), mutex, notification | `run`, `clear_text_handle_character`, `circular_buffer_lock_*` | two threads and a device loop on one ring; a sticky one-bit wake-up; uint8 wrap-around; full ring |
| security_demo Transmitter | two pending buffers, socket fd, log offset and period | main loop, `receive_data_...`, `transmit_pending_eth_buffer`, `write_pending_mmc_log`, `handle_picoserver_notification` | send and write failures, a socket that closes between the check and the use, events queued behind each other |
| EthDriverUboot (security_demo, picoserver_uboot) | per-client rings of frames, `done_init` | `server_init`, `client_rx`, `client_tx`, `client_mac` | the emit/poll handshake with each client; frames dispatched to other clients' rings; ring limits |
| picotcp_single_component ethdriver | rx and tx buffer pools, ring of received buffers | `eth_tx_complete`, `eth_allocate_rx_buf`, `eth_rx_complete`, `pico_eth_poll`, `pico_eth_send` | interrupt callbacks against the stack's polling; every DMA buffer owned exactly once |
| picotcp_single_component echo and utilization servers | client slots, partly sent chunk, pending datagram | TCP, UDP and ipbench socket callbacks | callbacks in any order; short and failing sends |
| picotcp_tcp_echo | virtqueues and buffer pools shared with PicoServer | `async_received`, `async_sent`, event handlers | buffers cross two queues, sockets close under queued buffers |
| dhcp | routing table, next offer | `discover`, `request` from four clients | two-step protocol interleaved between clients; uint8 wrap-around |
| testdataportmux, testdataportmuxflat | one shared counter | five counters taking turns with a compare-and-swap | the loop test is stale when the turn comes |
| picoserver Echo and Listener, picoserver_uboot Echo | two dataports each, used as C strings | event loops that poll until nothing is left | one notification for any number of events; buffers used again |
| mutex, lockserver | a mutex in a server, messages to the threads that serve it | `lock`, `unlock` by message or plain call | the acknowledgement is the only word the user has of the lock; a server thread that blocks |
| binary-semaphore, event, event-driven, testsel4notification | the notification's bit, registered callback, token for poll and wait | emit, register, poll, wait | events before the callback is registered; the callback runs in another thread |
| socket, reversestring, rumprun_ethernet, global_async | flags, spin locks and text in dataports | write, tell, wait, answer | who may write the dataport when; locks initialised by one side and taken by the other |
| rumprun_pthreads | count, mutex, condition variable | count, watch, join | the signal comes once |
| cakeml_tipc | virtqueues from node to node in a ring | send, forward, collect used buffers | one wake-up for two queues; callbacks before `run` |
| testreplycapprotection | the reply capability of a call being served | nested calls, lock, semaphore, emissions | other calls reach the same endpoint |
| serialserver_interrupt, _polling, _loopback | ring or virtqueue shared with the serial server | read line, loop back | a sticky notification on an emptied ring; failed copies |
| aeroplage | escape state of the scancode parser, routing, two pens | keyboard, switch, pass-through, display | multi-byte codes between plain ones; window limits |
| terminal, vgatest | the cells of a screen, its current colour, a cursor | `put_char`, borders, `terminal_write` | two clients' printf calls on one terminal; bounds |
| keyboard, uart, uart_cogent | a device's data register | interrupt handler, client callback, blocking read and write | two readers of one register |
| timeserver, periodic, epit, pit | a time-out bit, interrupt status, counters | time-outs, interrupt handlers | a tick left in the bit; order of clearing and acknowledging |

The remaining applications are single RPC or print exercises without state of
their own, build configuration, or code in other languages; PROJECT.json lists
them as not modelled with the reason.

## 2. The models

One action is one step that other actors can see: an access to shared memory, a
lock, a notification, an answer of a library. A component with a single control
thread (the Ethernet drivers, picotcp's callbacks) is not interrupted inside a
handler, and there an action is a whole RPC or callback, or a step of one that
depends on an answer of the library.

| module | code | state and actions |
|---|---|---|
| `Rot13` | `crypto.c` `rot_13` | The case distinction of the code and, as reference, `Rotate13` |
| `BoundedFifo` | abstract | What the dataport promises: a bounded FIFO whose `put` discards when full |
| `CryptoBuffer` | `key_reader.c`, `crypto.c`, `dataport_buffer.h`, the reading half of `transmitter.c` | `data`, `head`, `tail`, mutex, notification bit, a program counter for Crypto's handler and one for the Transmitter. `head += 1` on a uint8 is `Inc`; in the code the ring has 256 slots so that the wrap of the type is the wrap of the ring |
| `Transmitter` | `transmitter.c` | The main loop (poll, receive, transmit, log, socket events) on top of `BoundedFifo`, which `CryptoBuffer` is shown to implement. PicoServer (external) raises events, takes any part of a send or none, and refuses one on a closed socket; the removal of the old log may fail (its result is ignored), and the log write may fail or be partial |
| `EthDriverUboot` | `eth_driver_uboot.c` of security_demo; `ethdriver.c` of picoserver_uboot | Rings of received frames, MACs, `done_init`; `server_init`, `client_rx`, `client_tx`, `client_mac`, the device and the polling clients |
| `PicoEthBuffers` | `picotcp_single_component/src/ethdriver.c` | Pools as stacks, the ring of received buffers as a sequence, driver-owned buffers; one action per callback and per call of picotcp |
| `TcpEcho`, `UdpEcho` | `tcp_echo_socket.c`, `udp_echo_socket.c` | The callbacks, one action per answer of `pico_socket_*` |
| `DataPaths` | composes `CryptoBuffer`, `EthDriverUboot`, `PicoEthBuffers`, `TcpEcho`, `UdpEcho` | `path` says which of them has traffic: they share no state. The constant `Paths` says which ones a run starts |
| `Dhcp` | `dhcp/src/server.c`, `client.c` | One program counter per client through its call and the server thread that serves it; mutex, `next_offer_octet`, `routing_table` |
| `DataportMux` | `counter.c` of testdataportmux and testdataportmuxflat | The shared integer, a program counter and `oldval` for each component |
| `AsyncEcho` | `picotcp_tcp_echo/components/Echo/src/*` | Echo's thread at each RPC and queue operation; the available and used rings of both virtqueues, the pool and what each buffer holds. PicoServer (external) connects, fills, sends, returns buffers and raises events |
| `AbstractLock`, `Locks` | abstract; mutex and lockserver | What a lock promises: one holder at a time. `Locks` has the users, the messages and the server threads, and is shown to implement it |
| `HandOver` | reversestring, rumprun_ethernet, global_async | The dataport byte by byte, where writer and server are, what was told each way. The message of rumprun_ethernet goes through `snprintf` as its format: `Converted` says what can become of a text with a `%` |
| `SpinSocket` | socket | Three components, two dataports with lock, flag and data copied in pieces |
| `Pthreads` | rumprun_pthreads | Threads, mutex and condition variable, spurious wake-ups included |
| `Notifications` | event, event-driven, binary-semaphore, testsel4notification | Bit, token, callback, the glue thread (external), and each application's own threads |
| `ReplyCaps` | testreplycapprotection | Callers, the queue of the endpoint, thread `a` line by line, whose reply capability it holds |
| `Tipc` | cakeml_tipc | Each node's thread, its two queues and bell, and the buffers of each queue |
| `Threads` | composes the ten modules from `Locks` to `AsyncEcho`, with `Dhcp` and `DataportMux` | `scene` says which application a behaviour runs: they share no state |
| `PicoClients` | picoserver, picoserver_uboot | Event loops, dataports as strings that end at a zero byte (one that was received or one of the clearing), faults of a string without an end, the stream between Echo and Listener |
| `Utilization` | `utilization_socket.c` of picotcp_single_component | One message buffer for all clients, of which a receive overwrites as many bytes as have come, perhaps a part of a command or none; one action per callback |
| `SerialClients` | serialserver_* | Ring and line buffer, and where in the input each line ended; the loopback's two requests, its heap, and memory read after it was freed |
| `Console` | aeroplage | Scancode parser, switch, pass-through components, pens and drawn characters in pixels |
| `Terminal` | terminal, vgatest | Each request as the list of printf calls it has left, interleaved between the two domains; where a position off the terminal puts a character (`Lands`, external); the VGA cursor |
| `CharDevices` | keyboard, uart, uart_cogent | Data register, interrupt line and mask, callbacks; UART input and output, with `serial.ac`'s carriage return before each line feed |
| `Timers` | timeserver, periodic, epit, pit | The time server's one timer and bit; interrupt line, mask and handler step by step |
| `Devices` | composes the seven modules from `PicoClients` to `Timers` | `scene` as in `Threads`; the constant `Scenes` says which of them a run starts |
| `SequenceFacts` | no code | Lemmas on sequences and their order, and induction over a set, for the proofs |
| `CryptoBuffer_proofs`, `Transmitter_proofs`, `EthDriverUboot_proofs`, `PicoEthBuffers_proofs`, `DataPaths_proofs`, `Threads_proofs`, `Devices_proofs` | no code | The theorems of section 4, about the specification of the module named before `_proofs` |

A definition whose name ends in a suffix and whose comment begins with "Mutant" is a
deliberately wrong variant of the definition below it (a dropped guard, a
missing reset, an off-by-one). It is used nowhere; with it in place of the
right one TLC refutes the property it is listed for in PROJECT.json, which
shows that the property depends on that line of the code.

## 3. What the runs check

| run | bounds | shows |
|---|---|---|
| `data_paths`, path `crypto` | ring of 4, 6 keys, a letter and its rotation | `MutualExclusion` on the dataport; `CipherInOrder`: what arrives is the rotation of what was accepted, in order; `NoLostNotification`: a character in the ring is always announced or about to be; `FifoRefinement`; `EventuallyReceived` |
| path `driver` | 2 clients, rings of 3 slots, 3 frames of 6 kinds, 3 MAC configurations | `PollingChainUnbroken`: a client with frames in its ring is notified or polling; `DeliveredInOrder`; `DroppedOnlyWhenFull`; `EveryFrameSettled` |
| path `buffers` | 3 receive, 2 transmit buffers, 4 frames, 2 sends | `BuffersConserved`: every buffer has exactly one owner; `ArraysSuffice`, `FramesInOrder`, `EventuallyCanSend`: arrays are not overrun, frames arrive in order and unspoiled both ways, the transmit pool refills |
| paths `tcp`, `udp` | 1 client slot, 2 connections, 2 bytes each, 3 datagrams | `EchoFaithful`: what the peer got, what the server holds and what it has not read are what the peer sent; `EventuallyRead`: reads skipped during a blocked write are made up for; `InboxDrains`: every datagram is read |
| `transmitter` | 3 keys, channel of 1, buffers of 2, 2 connections | `LogFaithful`: the file begins with exactly the characters put into the log buffer, and behind them holds nothing but the rest of an earlier log; `SentInOrder`; `NoLostSocketEvent`; `EventuallyLogged`, `EventuallyAccepted` |
| `threads` | see below | `TextsWhole`: texts handed over in shared memory arrive whole and come back reversed, those of rumprun_ethernet as long as there is no zero and no `%` in them; `NotifyFaithful`: polls, echo and event count as promised; `LockImplemented`: both lock servers implement `AbstractLock`; `AssertHolds`, `OvershootBounded` (the code's own 5 counters and limit 20); `UniqueAddresses`, `RefusedOnlyIfTaken` (4 clients, 3 free addresses of 5); `AsyncBuffersConserved`: each buffer is in one place; `EchoedToSender`: a client is sent only its own chunks, in order; `EventuallyEchoed`; `ThreadsFinish`: every application gets to its end, but for the two that may stop before it: rumprun_ethernet (exit, or a fault on a text with a `%` or one that fills its buffer, `HandStopped`) and cakeml_tipc (a callback that runs before its queues exist faults, `TipcStopped`; what was printed before is as the README of the application shows it) |
| `devices` | see below | `AnswersAreOwn`: a client of which each receive takes all it has sent gets no answer it is not owed; `SerialFaithful`: lines are what was read, and that is what was typed until a stale notification lets the ring be read while it is empty; the loopback's output is the input but for characters whose copy failed; `WindowsFaithful`: each window shows what was typed for it, inside its border; `TextDisplays`: text that fits its region is shown there, and none is refused that fits, when the terminal has room for the regions; `DevicesInOrder`: key codes, and UART characters both ways with the carriage returns; `TimersHonest`: the ticks are not early, only an old bit shortens the last wait, no period is counted twice; `PrintedFaithfully`: Listener prints the text of each message Echo received, up to its first zero, in order and each byte once, unless a send was refused or cut short or a client faulted over a message; `NoEventForgotten` |

Bounds of `threads`: a dataport of `MAX_LEN = 3`, with texts that are shorter, that
fill it, that are longer and that hold a zero; three hand-overs; two pieces of
`strcpy`; three increments by each of two threads and a threshold of four; four
events; two tipc clients, the filter and pools of three buffers, a count up to nine
so that each queue wraps; for the echo server two TCP buffers and a UDP buffer, a
pair of sockets with traffic at a time (two echo clients, one after the other or one
refused; an echo client with a utilization peer; two peers; an echo client with
datagrams), one chunk for each socket. The messages of rumprun_ethernet are with and
without a `%`, and one fills the server's buffer.

Bounds of `devices`: dataports of two bytes and three bytes of text, each zero or
not, so that a string fills its buffer; two utilization clients with two of three
commands of two or three bytes, received in any pieces; a ring, a line and a heap of
three for six characters; windows with room for two characters and four keys; two
terminal regions of two by one, the lower border of one off the terminal, a message
that is too wide and one with a control character; five characters on a VGA screen
of four; four key codes or UART characters, and a UART message with two line feeds;
ten units of time. The two peers of picoserver do the same things, so do the two
clients of the utilization server, and no property or `CHOOSE` tells them apart: the
run uses the symmetry `MCSymmetry`. (It checks safety only, for which symmetry is
sound.)

Why these bounds are enough: in each, the limit the code handles is reached and
passed. The ring of four fills and wraps with six keys; three frames overfill
a ring that holds two; four frames use three buffers again; a second
connection takes over the slot of the first; four clients do not find four
addresses, so offers repeat after the counter wraps. More of the same gives
no new control state, since the code compares elements only for being the
first, the last or absent. Where a theorem exists (section 4) the bound does
not matter.

`CHECK_DEADLOCK FALSE` stands where the bounded environment stops (no more
keys, frames or connections) or the program ends.

### Fairness

The paths of `data_paths` have fairness of their own, so each liveness property of
`DataPaths` and `Transmitter` has the fairness it needs as its premise
(`CryptoFairness => ...`), and the runs check `Spec`. `LiveSpec` of `Threads` has it
in the specification.

* `CryptoFairness`, `LoopFairness`, `LogFairness`, `Threads`: every thread that can go
  on does (seL4 schedules threads of one priority round robin). A thread that waits
  for a mutex gets it if it is free again and again: the lock is a notification with
  a queue.
* `Threads` (`Locking`): a thread that spins on a lock, or locks a pthread mutex
  in a loop, which another takes and gives back over and over finds it free in
  the end, since preemption comes at any point; Echo's thread takes the
  notification of its queues although control events keep coming, and
  PicoServer sends what it was given. These are strong fairness; all else is weak.
* `Devices` is checked for safety only.
* `LogFairness` (`Transmitter`): time passes, so the log period elapses.
* `DriverFairness`: the clients go on polling; nothing is assumed of arrivals.
* `BufferFairness`: start-up happens and the driver completes transmissions.
* `TcpFairness`, `UdpFairness`: a callback runs to its end; picotcp reports what arrived
  and, while it can send, that it can; a send tried for ever succeeds at some
  point. Failures (-1) are never excluded.

### Where code and comments disagree

Eight runs state what a comment, an assertion or a README says and are refuted
by what the code does:

* `transmitter_all_sent` (`transmitter.c:155`): the buffer is cleared with "All
  pending characters have now been sent", though the result of the send is
  ignored; a short or refused send loses characters.
* `transmitter_minus_one` (`transmitter.c:93`): `-1` is said to mean that no
  socket is connected; the end of an old connection sets it under a newer one.
* `eth_driver_reads_all` (`eth_driver_uboot.c:146`): "Read all received frames"
  ends at an over-long frame with others behind it.
* `udp_echo_reply` (`udp_echo_socket.c:75`): "the server will stop receiving
  packets until it is able to send", but a read event while a reply is pending
  receives into the same buffer; the reply then has the bytes of the new
  datagram, its sender's address and the length of the old one.
* `async_echo_polled` (picotcp_tcp_echo `echo.c:38`): "Now poll for events and
  handle them", but after an event of its own sockets the loop polls twice, and
  the first of the two events is overwritten. (`EventuallyEchoed` therefore speaks
  of connections that were accepted.)
* `util_protocol` (`ProtocolFollowed`, `utilization_socket.c:82`): the comment's
  protocol answers what the client sends; a receive that gives nothing, or a part
  of a command, is answered by what the buffer held before.
* `terminal_rows` (`AcceptedIsShown`, `display.c:136`): `put_char` returns 0 "on
  success", but the row is tested with the region's height where its position
  belongs; on a terminal with too few rows an accepted character is not shown in
  its place (this run's terminal has one row less than that of `devices`).
* `timeserver_wait` (`LastWaitIsLong`, `client.c:44`): `assert(t2 - t1 >= WAIT)` fails
  when the client was held up between two calls: a tick that comes after the last
  periodic wait stays in the notification bit, and each later wait takes the
  time-out before its own.

Met while modelling, and of these no run expects a violation, also where a comment
or a README reads otherwise; the passing properties say how far they go:

* `transmitter.c:226`: "Delete any existing log file to ensure we start with an empty
  file", but `fatrm`'s result is ignored, and after a failed removal the tail of the
  old log stays behind what is written from offset 0 (`LogFaithful` says what the
  file holds in either case).
* `tcp_server.c:119`: the string to be reversed is `snprintf`'s format, and one with a
  `%` in it changes or faults (`TextsWhole` promises nothing of such a text).
* cakeml_tipc `client.c:125`: the output that the README shows stops short if a client
  is notified before its `run` has initialised its queues (`ThreadsFinish` names it).
* picoserver `echo.c:46`: Echo "will forward any messages", but a message ends at its
  first zero byte, and the rest is erased (`PrintedFaithfully` speaks of the text
  before it).
* `interrupt-client.c:35`: a notification of characters that were read already ends
  the wait on an empty ring, and the client reads old characters
  (`SerialFaithful` compares what is read with what was typed up to that point; that
  the lines are what was read it claims always).
* `serialserver_loopback/.../client.c:60`: after a failed copy the buffer is freed and
  then written, so anything may go out in that character's place (`garbled`;
  `SerialFaithful` demands that no other character is affected).
* `serialserver_loopback/.../client.c:49`: a buffer whose copy did not fail is never
  freed, and the loopback stops when the heap is used up.
* `picoserver` `echo.c:45`: a message that fills the dataport has no terminator;
  `strlen` or `printf` may run on behind it and fault, and the message is lost
  (`PrintedFaithfully` speaks of all text only until that happens).
* `uart_cogent` `serial.ac:145`: `\n` goes out as `\r\n`, which uart's driver does not do.
* `terminal` `display.c:111`: the two domains' printf calls interleave, so a
  character can get the other's colour; `TextDisplays` claims the colour only
  while requests did not overlap, the place and the character always.

Hazards that no model here can settle, as they turn on libraries that are not in
the repository: a driver that answers `ETHIF_TX_COMPLETE` without a callback
(`ethdriver.c:182`), picotcp events for a socket that was never accepted
(`tcp_echo_socket.c:107`).

## 4. What is proved

TLAPS checks the proofs in the `*_proofs` modules, for all values of the
constants that meet the ASSUMEs of the component's module. Each theorem is about
the specification of the module named before `_proofs`, `CryptoSpec`, `DriverSpec`
and `BufferSpec` for the modules that `DataPaths` joins, of which every behaviour of
`DataPaths` is one (`PathsImplementTheirModules`). The invariants a proof needs were
first checked by TLC on the run's bounds, where TLC can evaluate them. All safety
properties of the passing runs are theorems.

The assumptions say what the code fixes: sizes (a ring of at least two slots, at
least one buffer, component, tick or limit; an address space with room for the
server), that queues are longer than the buffers they hold (`TuningAssumption`,
`tuning_params.h:22`), that messages are sequences, that no ipbench command begins
with another (`SpellingAssumption`: each ends in a newline), and that names of
different kinds differ (`NoConn` is no connection, `NUL` is no byte of text, 0 no
event count). Characters of `Console` fill the width of a window between its borders
and leave pixels over in its height, as 14 by 26 pixels in 312 by 300 do: were there
none left over, the test at the head of `write_low` would take the last row for
outside. The greeting of reversestring has to fit its dataport; the texts of the
other two may be of any length the dataport has. Bounds of the runs (`MaxKeys`,
`MaxReceived`, `MaxBytes`) are any natural number.

* `CryptoBuffer_proofs`: `rot_13` computes the rotation for every integer, and is
  its own inverse on the codes of characters. `CryptoTypeOK`, `MutualExclusion`,
  `NoLostNotification` and `CipherInOrder` are invariants, and the ring implements
  `BoundedFifo`. The inductive invariant ties program counters to the mutex
  (a thread inside the critical section holds it), says that what the test for
  room found still holds at the write (only the lock makes that true), that the
  slots from `tail` to `head` hold the accepted characters that were not received,
  and that a non-empty ring has its notification set, about to be emitted, or
  its reader on the way. The refinement maps the queue to the contents of the
  ring; every step is a put, a get, a discard or stutters.
* `Transmitter_proofs`: `LogFaithful`, `SentInOrder`, `NoLostSocketEvent` and
  `TypeOK`. Characters are numbered as they are pressed; the invariant is that
  numbers rise in each buffer and from what was sent through the pending buffer to
  what the channel holds, and that the part of the file that counts as written,
  followed by what is pending, is what was taken for the log. Of the rest of the
  file it says that each character is one of these in its place or one of an earlier
  log, since `fatrm` may have failed and a failed write may have written a part.
  Types need one fact more: an event raised for an accepted connection has a client
  that waits (`SomebodyWaits`), so the accept that follows finds one.
* `EthDriverUboot_proofs`: `PollingChainUnbroken`, `DeliveredInOrder`, the action
  property `DroppedOnlyWhenFull`, and `DriverTypeOK`. The read loop of `client_rx` is a
  recursive function of the number of frames read; one induction over it
  shows that a client's ring only grows, by frames the device held, in their
  order, and that a frame is left out only when the ring was full. Frames rise
  from what was delivered through the ring to the device.
* `PicoEthBuffers_proofs`: `BuffersConserved`, `ArraysSuffice` and `FramesInOrder`.
  The invariant adds that nothing is owned before set-up, and that the
  cyclic queue of received buffers always has a free slot, so that a full
  queue is never taken for an empty one; for the order, that a buffer holds the
  frame it was given until it is returned, and that frames rise from the
  stack through the queue to the driver.
* `DataPaths_proofs`: `PathsImplementTheirModules`, and `EchoFaithful`. A connection
  that is linked has one slot, and a slot one connection (`SlotInv`); the chunk in
  hand is the end of the slot's buffer, and a pending write has as much left as was
  not sent (`BufferInv`). These books are kept by every step of a callback, and with
  them what the peer got, the buffer's rest and the receive queue add up to what the
  peer sent.
* `Threads_proofs`, a section for each application:
  `LockImplemented`, the refinement of `AbstractLock` (the mutex is held for the one
  user who was, or is about to be, told so: `Has`); `TextsWhole` (in `socket`,
  the lock of each dataport is taken by one component and the copy is a
  beginning of the text, all of it once `full` is set; in the others `Turns`
  says whose the dataport is, and `SwappedIn` how far the reversal got; of the texts
  of rumprun_ethernet only those that `snprintf` leaves alone);
  `NotifyFaithful` (`Coming` says how many events a client still has to see, in the bit
  and as tokens, at each of its lines); `AssertHolds` and `OvershootBounded`
  (a component between its turn and its swap has the turn, one whose turn came at
  `Limit - 1` or later is back at the test); `UniqueAddresses` and
  `RefusedOnlyIfTaken` (an offer is not reserved, so two clients may hold the
  same one; what `Check` saw is still true at `Assign`);
  `AsyncBuffersConserved` (the pool and four queues have no repetition, are
  disjoint and hold all buffers) and `EchoedToSender` (each buffer on its way
  back carries a chunk its socket received, and earlier chunks are ahead).
* `Devices_proofs`: `TimersHonest` (a time-out that is due has come after one period
  for every tick before it, and the last wait ends early only if the bit was set
  when its time-out was armed, which does happen: `timeserver_wait`; interrupts
  noted never exceed periods passed), `NoEventForgotten`, `PrintedFaithfully` (a
  peer's bytes rise from what was printed through the stream to what has not been
  received, and the received buffer is zeroed between messages, so that `strlen`
  stops at the message's own first zero or at its end), `AnswersAreOwn` (for a
  client whose receives took all it had sent, answers and commands not yet read
  together never exceed what it sent: what is received then begins with whole
  commands, and covers what the buffer held of others), `SerialFaithful` (the slots
  from `head` on hold what was typed and not taken; each line is the piece of what
  was taken between two ends; the loopback's request in flight is the difference of
  what was typed and written, and `garbled` has the places of failed copies),
  `DevicesInOrder` (the port holds the last code whoever read it, and until the
  client has shown that code an interrupt, an event or a callback is under way;
  printed characters are at their rank, and a character of the message is sent as
  many places later as there are line feeds up to it), `WindowsFaithful` (the
  parser's state and the codes left in the port are those of one key, and say
  whether a character is still to come of it; some course of the switch, from where
  it sends now to where the user last switched to, takes the characters on their way
  to where they were meant; the rings of a window hold what follows what the display
  took, which put the n-th character at column `n % Columns` of row `n \div
  Columns`) and `TextDisplays` (what a request has left puts only what belongs
  there, in the domain's colour unless the other request comes between; the cursor
  is the number of characters written, modulo the size of the screen; a character
  that fits has its place in the list of its request, and nothing that comes later
  puts another one there). For it the regions have to be apart with room for a
  border, as in `configuration.h`, and to fit the terminal (`RegionsFit`): in width,
  and with their first rows; the last rows may be off it. `terminal_rows` shows what
  happens if they do not.

Ways round the prover's limits: an induction is over a subset of the natural numbers
(`SetInduction`, from well-foundedness of `<`), since the library's theorems with an
operator parameter cannot be used; how often a sequence holds a value is the size of
a set of indices (`Times`, `ToPrint`) and not the length of a `SelectSeq`, of which
the provers know nothing.

A proof found a flaw of the models: in `TcpEcho` and `Transmitter` a CASE had
guards that overlap (TLC takes the first, TLA+ leaves it open), and is now an
IF with ELSE IF, as in the code.

Only model-checked: every liveness property (`EventuallyReceived`,
`EventuallyLogged`, `EventuallyAccepted`, `EveryFrameSettled`, `EventuallyCanSend`,
`EventuallyRead`, `InboxDrains`, `EventuallyEchoed`, `ThreadsFinish`), which is out of
the prover's reach, and the runs of section 3 that end in a violation.

## 5. Not modelled

PROJECT.json lists every application with its status. Left out:

* exercises that make one RPC after another to stateless procedures (what they
  test is generated stub code that is not in the repository), configuration and
  build exercises, and the pointers into dataports of testdataportptrwrap and
  testdataportrpc (the conversion is generated);
* testsyscalls, and the scheduling-context demonstrations: what they show is the
  behaviour of the kernel;
* uboot-driver-example: a straight sequence of library calls;
* programs in CakeML, Cogent and Rust, but for the filter of cakeml_tipc and the
  calls of uart_cogent's driver that are written in C (`serial.ac`);
* start-up: finding PCI devices, initialising drivers, failures that assert.

Of the modelled components, wording of messages, printing, the parsing of MAC
addresses, and the bitmaps of characters are left out: `HasPixels` of `Console`
says for which characters `chars.c` has a bitmap, not what it looks like.

## 6. Plan

The applications with state of their own are modelled, and the safety properties
that runs check are proved. What is left is the state of `ReplyCaps`, `Pthreads` and
`Tipc`, of which only `ThreadsFinish` speaks: the invariants that make them finish (whose
reply capability `a` holds; a thread that waits is not passed over; each queue holds
what its node's counter says), first as properties of `threads`, then as theorems.

# TLA+ models of plumCore

plumCore is firmware for sensor and communication devices: a FreeRTOS kernel, a set of *services* (one or a
few tasks each) and the interfaces through which services find and call each other. The services are C code
with hardly any tests, so what several tasks, a flash chip or a bus do to each other is hardly ever exercised.
These modules model the services where that matters most, check them with TLC on small instances and prove
the central invariants with TLAPS for every value of the constants. Most lines of the repository are a kernel, drivers,
cryptography and other libraries that came from elsewhere; the models cover the services with state of their own.

## Inventory

Paths are below `services/` in the repository. "Hard" is what a test would hardly reach.

| part | state | operations | interacts with | hard | correct when |
|---|---|---|---|---|---|
| `flash-fifo` | erase blocks with header magic and bitmap; head, last, tail positions and read offset in RAM | open, write, read, remove; boot scan, prepare and close head, collect garbage | calls a flash volume; called by a producer and a consumer task through `Fs` | power failure between two flash operations, failing flash operations, a ring that wraps, a full ring | what is written is read once and in order, survives restarts, the ring never loses its erased block |
| `nbus` | per channel: reassembly buffer and state, semaphore, channel-id; per node: list of channels | send, receive, wait, append frame, advertise, generate id | CAN driver below; nbus-mq, nbus-flash, nbus-mq-poll above | frames lost, receive task pre-empting the reader, timeouts, id conflicts resolved by nobody | packets are whole or not delivered (with one exception), copies stay in bounds, nobody sleeps on a packet, ids become distinct |
| `nbus-switch` | lookup table, input queue, ports | receive, process (learn and forward), housekeeping | CAN ports | two tasks on one table without a lock, table full, ends that move | a frame reaches its peer, never returns, the table drains |
| `nbus-mq` | message buffers with a state field each | receive and pack, answer polls | client of plog-router; nbus channel | hand-over of buffers without a lock, buffer exactly full | no overflow, nothing sent twice or lost while there is an id, no buffer changed while sent |
| `plog-router` | list of clients, per client a filter, a mutex and two queues of length one | open, close, subscribe, unsubscribe, publish, receive | called by every message queue client | pointers into a blocked publisher's stack, waits without a timeout, list changed during a walk | pointers live as long as needed, responses pair with deliveries, order, everyone is reached |
| `stm32-fdcan` | binary semaphore, hardware FIFO | send, receive, interrupt | below nbus | interrupt against task, bus-off while spinning | no frame waits without a wake-up (not modelled) |
| `nbus-flash` | one session | open, close, read, write, erase | nbus channels | sessions of several peers | a request runs in its own session (not modelled) |
| `mq-batch`, `mq-stats`, `mq-*`, `plog-relay`, `plog-packager` | a task, `can_run`, `running` | start, stop, receive, publish | clients of plog-router | stop while the task is blocked | stop ends the task (not modelled; as clients they are relays of `PlogRouter`) |
| umesh file transfer (`protocols/umesh`) | per end: a session with its state, timers and piece cache | send, receive, stop, free; step by a timer; handle four messages | layer 2 of the mesh | datagrams lost, repeated, late; a task that changes the cache without the handler's lock; ends that vanish | a finished receiver has the whole file, every session ends |
| `mqtt-tcpip` | connection state, lists of subscriptions and publishes with a flag and a semaphore each | connect, reconnect, subscribe, publish, ping; add, send, receive | WolfMQTT over a socket; MQTT services above | any call fails; lists and flags change between a scan and its use; reconnection forgets everything | senders return, subscriptions come back |
| `gsm-quectel` | command mutex, current command, response, TCP/IP status, receive buffer | run a command, process a line, main loop, socket and USSD calls | modem; mqtt-tcpip above | one channel for several tasks, silent modem, lines that may answer several commands, a full receive buffer | answers reach their own commands, and do so again after a disturbance, every call ends |
| `radio-mac-simple`, umesh keys, `worn-log-block` | slots, neighbours, packet buffers; key sessions; log blocks | | radio, block device | timing, pools at their limit | not modelled, see below |
| drivers, CLI, scripting, signal processing | | | | register access, text, numbers | not modelled |

`PROJECT.json` lists every part with its sources and status, the map from definitions to source lines, and
the hazards with the line where each bites and the properties that would catch it.

How the parts interact: sensors publish on **plog-router**; **nbus-mq** (a subscriber) packs what it receives
into buffers and hands them to whoever polls it over **nbus**, whose packets cross **nbus-switch** nodes;
**flash-fifo** stores data on the way. Each of these is a call through an interface (`Mq`, `NbusChannel`, `Can`,
`Fs`, `Flash`). **mqtt-tcpip** carries the data of the MQTT services over the socket of **gsm-quectel**, and
**umesh file transfer** moves files over the mesh. Each module models its neighbour by what that interface allows: `NbusMq` is polled at any
time, `NbusPacket` has a bus that loses frames, `FlashFifo` a flash that fails, `MqttTcpip` a socket that may fail at every
call, `GsmQuectel` a modem that answers late or not at all, `FileTransfer` a network that loses, repeats and reorders.

## Modules and plan

| order | module | models | proofs |
|---|---|---|---|
| 1 | `FlashFifo` (refines `DurableFifo`) | flash-fifo | `FlashFifoProofs` |
| 2 | `NbusPacket` (refines `LossyChannel`) | fragmentation, loss, reassembly, delivery in nbus | `NbusPacketProofs` |
| 3 | `NbusChannels` | channel-ids in nbus | model-checked |
| 4 | `NbusSwitch` | nbus-switch | `NbusSwitchProofs` |
| 5 | `NbusMq` (refines `MessageBag`) | nbus-mq | `NbusMqProofs` |
| 6 | `PlogRouter` | plog-router | `PlogRouterProofs` |
| 7 | `MqttTcpip` | mqtt-tcpip | `MqttTcpipProofs` |
| 8 | `GsmQuectel` | gsm-quectel | `GsmQuectelProofs` |
| 9 | `FileTransfer` | umesh file transfer, both ends | `FileTransferProofs` |
| next | | radio-mac-simple; the character loop of `plog_router_match_topic` | |

`MC*` modules give the constants of a component their values where a cfg cannot. Abstract specifications:
`DurableFifo` (what flash-fifo promises to its users), `LossyChannel` (what a channel of nbus promises) and `MessageBag` (what nbus-mq
promises of the messages it saves).

Every safety property and all three refinements of the passing runs are proved, for all values of the constants that the
theorem's hypotheses admit. The hypotheses are given with each component; they are the conditions without which the
property is false of the code (no flash fault for the order of the flash FIFO, no housekeeping inside the handling of a
frame for the switch, no main task inside the receive handler for the file transfer). Where the code has exceptions that
can be named, the property names them instead: the three losses that mix packets (`Blurred`), the answers that go
astray, the polls without a channel-id.
The liveness properties stay with TLC, since the prover handles neither fairness nor ENABLED: `WriterUnblocked`,
`PacketTaken`, `Converges`, `TableDrains`, `StuckBehindStuck`, `SenderReturns`, `CallsEnd`, `SessionEnds`.

Conventions: one step of an action is what the code does between two points where another task (or a power
failure) can see the difference; which points those are is said for each module. Definitions keep the
source's names. A definition named `X_Something` before `X` is a wrong variant of `X`, kept to show that the
properties notice it; no specification uses it. A variable marked *ghost* has no counterpart in the
code; guards read it only for a bound or for the discipline of a caller.

## flash-fifo: `FlashFifo`, `DurableFifo`, `FlashFifoProofs`

The service (`services/flash-fifo/flash-fifo.c`) keeps a byte FIFO in the erase blocks of a NOR flash
volume. Each block starts with a header page: a magic that says what the block is (erased, head, fifo,
tail) and a bitmap with one bit per `block_size / FLASH_FIFO_BITMAP_SIZE` payload bytes. Bits can only be
cleared, so a block's life is erased -> head -> fifo -> tail -> (erase) -> erased.

| state of the code | variable |
|---|---|
| header magic, header bitmap, payload of each block | `magic`, `bitmap` (number of cleared bits), `cells` |
| `struct FlashFifo` in RAM | `head`, `last`, `tail`, `read_offset` |
| the call that holds `lock`, and its next flash operation | `pc` (`"idle"`: the mutex is free) |
| locals of `flash_fifo_write` | `rem`, `off` |
| locals of `flash_fifo_read`, and what it has copied | `rd` |
| ghosts | `stamp` (names the next payload byte), `sawData` |

One step is one flash operation. A power failure (`Crash`) may come between any two steps when `"crash"` is
in `Faults`; otherwise only between calls. With `"read"` or `"write"` in `Faults` each flash read, program or erase
may fail (the erase of `flash_fifo_format` after any number of blocks), and what the code does with the status (mostly nothing) is in the action. A failed header read
leaves the caller's zeroed struct, and zero is the TAIL magic. `fs_open` takes no lock in the code and is
enabled in the middle of other calls; `flash_fifo_read` reads the `read_offset` it rewinds four times, each in a step of
its own (`FsRead`, `ReadRange`, `ReadData`, `ReadAdvance`). Payload bytes are stamps 1..Stamps; a byte programmed twice becomes
`Corrupt`.

Abstractions: an erase and a page program are atomic (a power failure inside one is not modelled: the code
has no handling for it and what the chip leaves is chip specific); IV and MAC, which the code fills with
constants, are left out; positions are unbounded integers (the code's `uint32_t` would wrap after 2^32 blocks).

The abstract specification `DurableFifo` says: a queue of bytes that only grows at the end by bytes of the
given alphabet and shrinks at the front by a whole chunk. `FlashFifo` implements it under the mapping `Queue`:
what the boot scan would find in the flash alone, from the last block to the bytes the head's bitmap accounts for.

Runs (3 blocks, which is the least number with a tail, a fifo and a head or a closed ring plus the spare
erased block; 2 pages of 2 bytes with 2 bytes per bit, so that pages, bits and blocks end at different
places; `MaxPos` bounds the laps, and a restart renormalises positions so that every phase of the ring occurs):

| run | shows |
|---|---|
| `ff_restart` | With power failing between calls, reads return the oldest bytes, the bitmap accounts for them, positions keep their order, and a writer whose head is closed gets a new one once the consumer frees blocks. |
| `ff_crash` | With power failing anywhere, the boot scan finds what RAM named, closed blocks are full, heads are unique, and the service implements `DurableFifo`, whose appended bytes may be corrupt. |
| `ff_faults` | With every fault, image and call order, an erased block survives (`OneErased`). |
| `ff_readlen` (violation) | `fs_read` beyond the end of a page reports bytes it never copied; see `findings`. |

The passing runs stay within the conditions under which the properties hold, which the constants name: reads
that end with the page (`ReadLens`), a consumer that removes what it has read (`Disciplined`), no failing flash
operations outside `ff_faults`. Outside them the model shows what the code does there: a read after the removal
of a closed head returns bytes of the erased area; garbage collection takes a failed header read for a tail; a
failed program in `close_head` leaves two heads; after a power failure between payload and bitmap the next
write programs bytes twice; a volume that was never formatted, or whose formatting was interrupted by a power failure, is opened without a
head, so that writes fail; and the bytes of a failed page program are reported as written.

Fairness (`FairSpec`): the service finishes its calls (weak fairness of its steps: nothing in it waits), and
the two clients keep calling (strong fairness of `FsWrite`, `FsOpen`, `FsRead`, `FsRemove`): a call needs the
mutex, which other calls hold now and then, and the FreeRTOS mutex queue serves every waiter. Power failures
are never required and may recur forever.

Proved for every ring size, geometry and set of call lengths. The hypotheses are those of the runs; each is needed,
and the paragraph above says what the code does without it.

| theorem | property | hypothesis on the environment |
|---|---|---|
| `TypeCorrect`, `AlwaysOneErased` | `TypeOK`, `OneErased` | none: every fault, image and call order |
| `ClosedBlocksAreFull` | `SealedFull` | `CrashOnly`: flash operations succeed, power may fail anywhere |
| `BitmapCoversHead` | `BitmapCovers` | power fails between calls only |
| `RingKeepsOrder`, `ScanRecovers`, `ReadsOnlyClosed`, `AtMostOneHead` | `RingOrder`, `RecoveryAgrees`, `ReadsClosedBlock`, `OneHead` | `WellUsed` |
| `FifoIsDurable` | `ImplementsDurableFifo` | `WellUsed` |
| `ReadsAreTheQueue` | `ReadsQueue` | `WellUsed` and `AlignedReads` |

`WellUsed` is `CrashOnly` on a volume that has been formatted or is formatted before power first fails, with a consumer
that removes what it has read. `AlignedReads`: readers ask for one length, which divides the page size; for other
lengths `ff_readlen` refutes the property.

The inductive invariants, each checked by TLC on the instances of `ff_crash` and `ff_restart` (and with two and four
blocks) before it was proved:

- `TypeOK /\ OneErased`: a scan is accepted only after it has found an erased block (`FindFifo`), headers are programmed
  only in blocks whose magic was read as HEAD or FIFO, which a failed read never yields (`KeepsErased`), and
  `prepare_head` looks at the successor block first, a different one because there are at least two (`BlkSucc`).
- `Usage`: erased blocks have empty bitmaps, the write offset is at or past the bitmap's account of the open head, and the
  loop reaches `close_head` only from a block whose bitmap is full.
- `Written`: what a cell can hold, and, if power fails only between calls, that a byte of a head lies below its bitmap's
  account or below the offset of the write under way.
- `Ring`: the flash has the layout that RAM describes, `Layout(magic, tail, last, head)`: removed blocks from the tail,
  closed ones from last, a head that is open or closed, and erased blocks, one at least, for the rest of the ring. The
  lemmas `CloseLayout`, `PrepareLayout`, `RemoveLayout` and `GcLayout` carry a layout over each header operation, so that
  power may fail between any two of them. `ScanLayout` shows that `find_fifo` on any layout finds its three positions up to
  whole laps, which is all `RecoveryAgrees` and a restart need, and `LayoutShift` that laps do not matter.

For the refinement, `QueueIs` computes `Queue` from the layout, and `ContentKeeps`, `ContentAppends`, `ContentDrops` say
what a step does to the bytes between two positions: a usage write appends, a removal drops one block from the front,
everything else, a power failure included, leaves the queue alone. `WriterUnblocked` is liveness and stays with TLC.

## umesh file transfer: `FileTransfer`, `FileTransferProofs`

Both ends of a session (`protocols/umesh/file_transfer.c` and its `.inc` parts; the build file has the protocol
commented out at this commit, and file contents are neither read nor written yet). One end opens a session to send
or to request a file, the other takes part as a peer. The receiver keeps a cache of pieces, asks for the blocks that
are missing and repeats the request when nothing comes; the sender answers from a cache of its own.

| state of the code | variable |
|---|---|
| `state`, `idle_time_ms`, `message_time_ms`, file properties, `next_piece_index`, `transferred_pieces` of the session of each end | `state`, `idle`, `msgTime`, `sized`, `next`, `transferred` |
| `pieces[]` with `used`, `id`, `bitmap`, `idle_time_ms` | `pieces` (a bitmap is the set of blocks it shows) |
| place of `file_transfer_main_task` in `file_transfer_session_step`, its loop index and counters | `task` |
| a receive handler that was pre-empted inside `process_block_response` | `hand` |
| messages in flight; copies made by the network | `net`, `dups` |
| ghosts | `opened`, `preempted`, `got` (blocks whose response was applied) |

The main task steps the session without its lock; the receive handler, a stop and a free of the session come between
any two of its steps. The receiving loop takes several steps for one place of the cache: it announces a complete piece
(`receive_complete`), clears the place (`receive_release`), takes it (`receive_allocate`), gives it the next piece
(`receive_fill`) and clears its bitmap (`receive_clear`), and a response handled in between may mark a block in a place
that is being filled, under its old or its new piece. The sending loop sends and marks one block at a time
(`send_block`, `mark_block`) and looks at the idle time at the end of a piece (`send_idle`); a request handled between
that look and the `memset` after it, which are one step, has the effect of a request that is lost. Timers are counted in steps of the main
task, and messages are as quick or as slow as the schedule makes them, so that every answer may come before or after
any timeout.

The run `ft_transfer` moves a file of three pieces of one block in either direction, with a cache of two places, one
message in flight and one pre-emption (2.2 million states). Three pieces and two places are the least with which a
place is refilled while responses for its old piece may still come, and with which a sender can serve a whole file.
Repeated responses come from repeated requests. Copies made by the network itself (`MaxDup = 1`) have been checked
with two pieces (1.4 million states), pieces of two blocks, so that a piece may be partly there, with two pieces and
`BlocksPerCycle = 2` without copies and pre-emptions (3.6 million states, four minutes), and two messages in flight,
which may overtake each other, with pieces of two blocks, one copy, one pre-emption and a cache of one place. Larger
files and caches are what the proofs are for. Deadlock is not checked: when both sessions are freed, nothing remains
to be done.

`PieceSound` and `CompleteWhenFinished` are about schedules in which the main task does not run *inside* the handler
(`preempted = 0`). It can, because it releases and refills pieces without the lock that the handler holds; the model
has that step (`hand`), and then a block may be booked for the wrong piece. `SessionEnds` holds with such steps too.
Fairness: the timer keeps the main task of each end stepping and a pre-empted handler goes on (`WF`); nothing is
assumed of the network, the other end or the applications.

`PieceSound` says of every place that is in use and not being filled (`Held`): no two of them have the same piece, each
shows only blocks that arrived, and a piece that was taken from the file and is not held arrived whole.

Proved for every number of pieces, blocks and places, every timeout and every behaviour of the network, copies
included: `CacheStaysSound`, `FinishedIsComplete` (an action property) and types. The inductive invariant adds to
`PieceSound` that a session starts to receive with an empty cache and a task outside its loop (`Fresh`), what the place
that the loop refills looks like at each of its steps (`Refilling`: complete before it is released, unused before it is
taken, with the next piece of the file before its bitmap is cleared), and that a loop that has counted no piece so far
leaves unused places behind it and nothing to take from the file (`Behind`): without the last, `used_pieces = 0` at the
end of the loop could be about an older cache. `SessionEnds` is model-checked.

Seen while modelling: the sender finishes whenever its cache is empty at the end of a loop, also between two pieces
(`file_transfer_loop.inc:151`); the receiver can then only run into its timeout. Session lookup among several
sessions, a session that is opened again (`opened`), `file_transfer_free`, progress callbacks and averages are left out.

## gsm-quectel: `GsmQuectel`, `GsmQuectelProofs`

The service of a GSM modem (`gsm-quectel/gsm_quectel.c`): the main task and the users of its socket run AT commands
under one mutex and wait for the answer on a semaphore; the process task reads the modem's lines and tells what they
answer from `current_command` alone.

| state of the code | variable |
|---|---|
| `command_lock`, `current_command`, `command_response`, `response_lock` | same names |
| each caller's place in `command()` and what it returned | `call`, `ret` |
| main task: place in its loop, commands still to run, tries of `wait_for_modem`, `cnt` | `main` |
| socket or cellular call that a user is in | `user` |
| process task: running, bytes of AT+QIRD still to read and in the stream, waiting for the text of an SMS | `proc` |
| `can_run`, registration, `modem_status`, TCP/IP status and flags, `rxdata` | `can_run`, `registered`, `full`, `tcpip_status`, `tcpip_ready`, `tcp_ready`, `tcpip_socket_used`, `rxdata` |
| external: the modem's command queue, its lines | `sent`, `line` |
| ghosts | `answered` (the command whose line gave the semaphore), `astray` (answers may be taken for those to other commands), `disturbed` (counter of the bound) |

The modem is modelled from the lines that the code expects. It answers commands in order, with an error, or not at all,
and it may do so after the command has timed out: the timeouts of 100 to 300 ms do not wait for a slow modem. The late
answer is then read while the next command runs, and nothing tells the two apart. Between answers it sends unsolicited
lines: that it is ready, a call (RING), or an SMS, which is a +CMT line and a line with its text. The process task reads
the text together with its +CMT only when no command runs (`ProcessText`); otherwise the text is a line like any other,
and `OK`, `ERROR` or, during AT+QILOCIP, a short line answers the running command. What AT+QISTAT reports is arbitrary,
so the network may drop the connection or the context at any time.

One step hides an interleaving: the process task stores `tcpip_status` in the step that announces the answer. The code
announces first (`gsm_quectel.c:433`): a main task that runs in between reads the status UNKNOWN or the previous one, and
its cycle ends without, or with an outdated, command. Since the run lets the modem report any of its statuses, in any
order, the outdated one is among the statuses that the main task acts on; a status UNKNOWN after an answered AT+QISTAT is
not. A step of its own multiplied the states by five.

`ResponseOwn` says whose answer a successful command got. It has the code's two exceptions and no other: `astray` is set
when a command times out while its answer is outstanding, and when a line that answers nothing is taken for an answer.
It is cleared when a command is written with nothing outstanding: from there on answers fit again, whatever went wrong
before.

The run `gsm_commands` has one socket user, a receive buffer of one byte, one unanswered command at a time
(`PipeMax = 1`), one line unread when the modem answers (`LineMax = 1`), and one disturbance (`MaxDisturbed = 1`): a late
answer, an SMS with the text `OK`, or one whose text asks for a reset. The modem reports the statuses of the way to a
connection at which the main task or the user does something of its own (`Reported`), and it is registered at home.
`InitCommands` and `InfoCommands` are commands in a row that are answered by OK, one or none of which stands for all.
The buffer of one byte is at its limit after each read, which is when AT+QIRD asks for more than there is room left and
the process task reads on into the following lines as data.

Fairness: tasks are scheduled and waits with a timeout end; the command mutex goes to the task that has
waited longest, so that each one gets it in the end (`SF` of `TaskStep`); the process task reads what there is
(`WF` of its steps); the modem works through its commands between whatever else it reports (`SF` of `ModemAnswer`),
of which it may have ignored any.
Deadlock is not checked: a modem that does not answer at boot, or an SMS that asks for a reset, stops the service.

`ResponseOwn` is proved (`AnswersTheirOwn`) for any number of users, any buffer size, periods and queue bounds. On its
own it is not inductive: that a line answers the running command depends on everything still on its way. The invariant:

- `Locked`: the task whose command is written and not yet returned, and no other, holds `command_lock`;
- `Unanswered`: unless an answer went astray, whatever the modem has yet to answer or the process task has yet to read
  belongs to the holder's command, and the line that ends an answer is the last of it. So nothing is left over when the
  next caller takes the lock;
- `Own`: what has been announced to a waiting task is the answer to its command.

`Unanswered` is about a process task that still reads: after a stop or a reset by SMS its lines are forgotten.

The proof has one lemma per action and conjunct. Its assumption on `InitCommands` and `InfoCommands` is that they hold
the commands which the main task runs in a row and which need no more than OK (`PlainCommand`). `CallsEnd` is liveness
and stays with TLC. Left out: `gsm_quectel_stop` and power control as calls of the application, and the
parsing of informational lines.

## mqtt-tcpip: `MqttTcpip`, `MqttTcpipProofs`

The MQTT client (`mqtt-tcpip/mqtt_tcpip.c`): one task runs the connection state machine over a socket, other tasks
add subscriptions and publishes to its lists, receive and send. Only binary semaphores synchronise them.

| state of the code | variable |
|---|---|
| `state`, `state_time`, `can_run`, `reconnect_timeout_ms`, `time_from_last_ping_ms` | `state`, `state_time`, `can_run`, `backoff`, `ping` |
| place of `mqtt_task` inside SUBSCRIBE and PUBLISH | `at` |
| list of subscriptions, `new_subscription`, `subscribed`, `msg_wait_lock` | `subscribes`, `new_subscription`, `subscribed`, `msg_wait` |
| list of publishes, `new_message`, `msg_sent_lock`, `ret` | `publishes`, `new_message`, `msg_sent`, `ret` |
| tasks inside a receive or a send call | `receiver`, `sender` |
| external: what the broker has; ghosts | `broker`; `known` (list at the time of the connection), `sends` |

Every call of the WolfMQTT library and of the socket returns whatever it likes: success, continue, network error or
another error. A scan of a list, the call that follows it and the update after it are steps of their own, because
other tasks change lists and flags in between. Messages from the broker arrive inside the calls that read.

The run `mqtt_client` has two subscriptions, one publish with two messages and a state timeout of two, with every
result of every call. Two subscriptions make one that is added while the other is being made; two messages make the
retry of a failed one meet its successor. Deadlock is not checked: a client that was freed stops. Fairness: the
scheduler runs `mqtt_task` and a task whose semaphore was given (`WF`); the broker need not ever answer.

Proved for any number of subscriptions, publishes and messages: `SenderNotStranded` and `NoSubscriptionForgotten`.
The first needs that only listed publishes have a sender, since PUBLISH searches the list. The second needs that the
subscriptions known at the connection stay in the list, that a marked one is one that the broker has, and that all
are marked once `new_subscription` is down *or the task is about to take it down*: that clause is what the race between
the scan and the clearing of the flag leaves true. `SenderReturns` is model-checked.

Seen while modelling: a publish that fails wakes its sender and stays marked as new, so it is sent again after the
caller has been told that it failed, and the second wake-up makes the next call return early with the result of
the old message (`mqtt_tcpip.c:486`). A subscription added between the scan and the clearing of `new_subscription` is
not made until another is added or the connection is made again (`:341`). `mqtt_msg` copies a message into the buffer
of the last receive call, also when that call has returned (`:219`).

## nbus packets: `NbusPacket`, `LossyChannel`, `NbusPacketProofs`

One sender, a CAN bus that loses frames, the receive task and one application thread of a channel
(`nbus/nbus.c`).

| state of the code | variable |
|---|---|
| `txpacket` of the channel that `nbus_channel_send` uses | `tx` |
| frames in the controllers and on the bus | `wire` |
| `NbusRxPacket` of the channel and its binary semaphore | `rx`, `done` |
| place of the thread in `nbus_channel_receive`, its buffer, `len` and `ep` | `app`, `copy` |
| ghosts | `packets` (all packets sent), `completed` (all packets reassembled), `lost` (all frames lost), `rx.pkt` (packet of the last leading frame taken), `between` (payload bytes that the receive task took between the check of `packet_size` at `nbus.c:371` and its second read at `:375`); frames and payload bytes carry the number of their packet |

The receive task has the higher priority, so `nbus_rxpacket_append` is one step and may come between any two
steps of the application: between the check and the copy, between two bytes of the copy, before the reset.
`WaitTimeout` is the caller's timeout. A channel is sent to by one thread; the early returns of `nbus_channel_send`
(a packet that is too long, a channel without a valid id) change nothing.

| run | bounds | shows |
|---|---|---|
| `nbus_packet` | 2 packets of length 0, 3, 4, 5 with fragments of 2, MTU 4, caller's buffer 3; 3 frames lost; 1 timeout | bounds of both copies, which packets are whole, in order and at most once, no lost wake-up, a complete packet gets out of the way |

The lengths are on both sides of every limit (fragment, caller, MTU, none). `MaxLost` bounds all losses. Three are the
number at which the code accepts a mixed packet: nothing checks the trailing frame's MAC, so when a data frame and the
trailing frame of a packet and the leading frame of the next one are all lost, data of a later packet completes the
buffer. The properties state that case as the one exception: `Blurred(n)` is the three losses at the border of packets
n and n + 1, `DoneIsWhole` allows later bytes in a blurred packet and nowhere else, and `LossyChannel` has a set
`blurred` whose packets may be delivered with bytes of later ones. Fairness: both tasks are ready and of a priority that is served (`WF`); the sender need not send and
frames may be lost.

Proved for every fragment length, MTU, buffer size and pattern of losses: `TypeCorrect`, `RxNeverOverruns`,
`CopyNeverOverruns`, `WakeupNeverLost`. The inductive invariant is `TypeOK /\ RxBounded /\ CopyBounded /\ Watched`: a
leading frame is accepted up to the MTU and a data frame up to the announced size, so the copy stays inside the
reassembly buffer. The caller's buffer is another matter, because `packet_size` is read twice without a lock:
`CopyBounded` says that the copy exceeds it by at most `between`, and `Watched` that between the two reads the size has
grown by at most that much. `NoLostWakeup` needs only types: the step that completes a packet gives the semaphore, and
the thread goes to sleep on a state it has just read.

Proved for every number and length of packets, fragment length, MTU and pattern of losses: `PacketsAreWhole` and
`ChannelRefined`. `LossyChannel` delivers packets in the order in which they were sent, at most once, and whole unless
blurred; `sent` is `packets` and `delivered` is `completed`, so the promise is about what the receive task puts
together, not about what `nbus_channel_receive` copies out (see below). The inductive invariant is `Sound`:

- `TxSound`, `WireSound`: the sender is at a fragment of its packet, and frames on the wire are well-formed and in the
  order in which they are sent (`Order`).
- `Followed`: behind a leading or data frame on the wire, the frames that follow it are on the wire, lost or not yet
  sent (`Owes`): the next data frame, the trailing frame and the leading frame of the next packet.
- `RxSound`: in state DATA the buffer `Holds` the first fragments of one packet, and what it `Owes` is still to come or
  lost; or the packet is blurred and the buffer `Mixes` it with later ones. In TRAILING and DONE it is such a packet in
  its full length.
- `LossSound`: a lost frame belongs to a packet that was sent.

The step that matters is a data frame of a later packet with the expected number. `NoMixing` shows that it is accepted
only if all three frames of `Owes` have been lost, since the wire is ordered: the packet is then blurred. The refinement
adds `Ordered`: leading frames still to come are of later packets than the one in the buffer, which is later than
everything completed unless it is itself complete. Fragment numbers are naturals: the opcodes leave room for
128 data frames and an MTU of 512 bytes has 64, so they do not wrap.

Seen while modelling: a packet that the receive task reassembles while `nbus_channel_receive` looks at it may pass the
check against the caller's buffer and then be copied in its grown size. The callers' buffers hold 256 or 320 bytes and a
packet up to 512. The wait has then returned for an older packet, which a new leading frame has displaced, or
by the leftover semaphore below; in the model the copy exceeds the caller's buffer by up to `between`.

Seen while modelling: `nbus_rxpacket_wait` returns at once when it finds the packet complete and leaves the
semaphore that was given for it (`nbus.c:215`). The next wait takes that semaphore and returns although nothing is
complete, so `nbus_channel_receive` may hand out the buffer of a packet under reassembly. `NoLostWakeup` and
`CopyBounded` hold all the same; no property says that a thread is released only for a complete packet.

## nbus channel-ids: `NbusChannels`

`ch` is `channel_id`, `channel_id_valid` and `adv_time` of each channel, `list` the list of a node (newest
first), `hk` the position of `nbus_housekeeping_task` in its two loops, `fifo` the advertisements a node has
yet to receive. The hash is a constant function of short-id and current id: `NbusChannels` asks nothing of
blake2s but a value. A receive task runs between any two steps of housekeeping; an id is marked valid and then
advertised, and the advertised value is read at the send.

The run `nbus_converge` has three channels on two nodes, added at any time, whose first hashes collide, whose
second hash hits the third channel, and one lost advertisement. It shows that, in the end, every added channel
has a valid id and no two nodes share one. `FifoLen = 1` is the pacing of a real bus, where a frame takes longer
than the receive task, and bounds the state space. Fairness: both tasks of every node are scheduled. The hash
chains are ones that separate; two channels of one short-id, or chains that never separate, retreat for ever,
and two channels of one node are not told apart (a controller does not hear itself), which is why `Conflict`
is between nodes.

## nbus-switch: `NbusSwitch`, `NbusSwitchProofs`

| state of the code | variable |
|---|---|
| `ports`, `iq`, `ch[]` | `ports`, `iq`, `ch` |
| process task: its place, frame and the records it holds pointers to | `proc` |
| housekeeping task: its place and index | `hk` |
| ghosts | `sent` (ports the frame went to), `spoke` (port each end last spoke from), `frames` |
| choice of schedules | `preempt`, set once in `Init` |

Each table search, comparison, send and write is a step. A new record takes three, in the order of
`nbus-switch.c:99-102`: its port makes it an entry, with the direction and channel of its predecessor until `AddDirection`
and `AddChannel`. One step each are still a scan of the table, the increment of `last_access` and the clearing of a
record (`memset`). The code takes no lock. `preempt = TRUE` are the schedules the code allows; `preempt = FALSE` are those in which
housekeeping happens to run only between frames, and separate what the table algorithm guarantees from what the
missing lock costs.

| run | bounds | shows |
|---|---|---|
| `switch` | 2 records for 3 learnable ends of a channel, 2 ports, a queue of 1, lifetime 1, 3 frames | in all schedules no frame returns to its port and the table drains; without races records are unique and a frame reaches its peer although ends move, records age out and the table is full |

Three frames are the least with which an end speaks, moves and is answered; two records make the fourth key
overflow the table. Fairness: the two tasks never block for ever (`WF`); frames need not come.

Proved for any number of ports, channels, records and frames: `NeverReflects` in all schedules, `OneRecord` and
`FrameReachesPeer` for `preempt = FALSE`. The inductive invariant is `Safe /\ (~preempt => Quiet)`. `Safe` asks nothing
of the table but that, after the comparison, the destination's record never gets the port the frame came from:
housekeeping can only clear it (`NotBack`). `Quiet` says that a record holds the port its end of the channel last spoke
from, except for the one record the frame in hand has yet to touch (`Fresh`); that what a search found, or did not find,
is still so when the process task acts on it (`Found`), and what is known of a record being filled (`Filling`, `Half`); that records are unique; and that the peer's port has got the
frame once it is sent (`Delivered`, `Reached`). `TableDrains` is liveness and stays with TLC.

Seen while modelling: when housekeeping clears the destination's record between `find_channel` and
`nbus_switch_send_port`, the process task sends through a NULL port (`nbus-switch.c:124`); the table has no lock, unlike
the queue, which needs none (line 187). In the model the switch then stops (`proc.pc = "null"`), and the properties say
what holds until it does.

## nbus-mq: `NbusMq`, `MessageBag`, `NbusMqProofs`

`buf` holds state, length and messages of each buffer, `rx` is the place of `rx_task` with its message and
chosen buffer, `poll` that of `nbus_task`. A search of the buffers, a check, an append, a close and the end of a
send are steps. `valid` is `channel_id_valid` of the channel: the tasks of nbus withdraw an id (`Retreat`) and assign a
new one (`AssignId`) at any time, and a poll that is answered without one sends nothing (`PollVoid`) but releases its
buffer like any other. The run `mq_handover` has three buffers, messages of two encoded lengths (one fills a buffer to
the byte) and six messages, which is enough to fill and reuse every buffer while a poll is in progress. Deadlock
is checked: polls always go on.

`MessageBag` is what it promises of the messages it has saved: each stays until a poll is answered with it, and is
answered once; while the channel is not `linked`, messages may be discarded. `kept` is what the buffers that are not `EMPTY` hold, without the one just sent; `answered` is `sent`.
Messages for which there is no buffer are dropped before they are saved, as in the code. An answer counts when
a send under a valid id,
`nbus_channel_send`, returns: what the bus does to it is the business of `LossyChannel`.

Proved: `NeverOverflows`, `HandOverSound`, `DeliveredAtMostOnce` and `BagRefined` for every number and size of buffers. The inductive invariant
says that an active buffer has room for its two closing bytes, that the buffer `rx_task` holds is active and is
the only active one, that an append finds the room that was checked (or an empty buffer, which takes any
message by assumption), and that the buffer `nbus_task` holds is full. Together: the two tasks never hold the
same buffer. `DeliveredAtMostOnce` adds `Once`: messages are numbered as they are received, the number of the message in
hand is in no buffer and no answer, and a number occurs once in all buffers and answers together. With it, `BagRefined` is a case per action: an append
saves the message in hand, the end of a send answers with a whole buffer (`AnswerStep`), and preparing, closing or
releasing a buffer changes nothing of what is kept (`KeptSame`); only a poll without an id discards (`DiscardStep`).

Seen while modelling: `nbus_task` ignores the status of `nbus_channel_send` (`nbus-mq.c:189`). While the channel has no
valid id it is VOID and nothing is sent (`nbus.c:543`), but the buffer is released and its messages are lost.
`get_ready_buffer` sends the full buffer of the lowest index, neither the oldest nor the
most recent; messages may overtake each other by a buffer. `nbus_mq_stop` is called only by `nbus_mq_start`, when a task
cannot be created. `nbus-mq-poll.c` is a copy of `nbus-mq.c` at this commit, so the module describes both.

## plog-router: `PlogRouter`, `PlogRouterProofs`

The message queue of the device (`plog-router/plog_router.c`). A publisher walks the list of clients without a
lock and, for each whose filter matches, takes `msg_mutex`, puts a structure of pointers to its own stack into
`send_lock`, and waits in `recv_lock` for the receiver's response.

| state of the code | variable |
|---|---|
| `first_client`, `client.next` | `first_client`, `next` |
| `topic_filter` (empty: not subscribed) | `topic_filter` |
| `msg_mutex`, `send_lock`, `recv_lock` of each client | same names; `send_lock` holds the task whose stack the pointers name |
| the task of each client: its place, its own message and topic, list position, and the publisher it copies from | `task` |
| ghosts | `got` (received messages), `owed` (clients a running publish has to reach), `filters` |

Each task owns one client and both publishes and receives through it, as mq-batch or mq-stats do; the roles in
`MCPlogRouter` are a source, a relay and a sink. Every queue, mutex and list operation is a step, the pointers
are followed in two steps (topic and timestamp, then the array), and `plog_router_match_topic` is a relation
between filters and topics. `open` links the client in two steps because it takes no lock.

| run | bounds | shows |
|---|---|---|
| `plog_router` | source publishes twice, relay once, relay subscribes once, sink subscribes or unsubscribes twice | no dangling pointer, responses pair, order, everyone listed and subscribed is reached; a publisher is stuck only behind a closed or stuck receiver |

Two messages make order visible, a source and a relay compete for the sink's mutex, the relay may publish to
itself or to a task that waits for it. Fairness: a call that can go on does, and a task receives until it
closes its client, as the loops of the services do. Deadlock is not checked, because a state in which everyone
has closed is an end, and because the code really gets stuck: `deliver_to_client` waits without a timeout
(although the comment at line 154 speaks of a configurable time), so that a receiver that closes after the match of
its filter leaves the publisher waiting for ever. `StuckBehindStuck` says that this, and a ring of tasks that
publish to each other, are the only ways to get stuck.

`open` has the race that its todo mentions: two tasks that open at once read the same `first_client`, and one of
the clients is lost from the list. `ReachesAll` is stated for the clients in the list.

Proved for any number of tasks, clients, filters and messages: `TypeCorrect`, `NoDanglingPointer`,
`ResponsesAnswer`, `DeliveredInOrder`, `PublishReachesAll`. For the first three the inductive invariant counts one token per client: a message in `send_lock`, a receiver
that copies, or a response in `recv_lock`, never two of them, and any of them only while the holder of
`msg_mutex` waits for this client, and the message names that holder. `receive` sends its response without waiting
into a queue of one, and `Response` drops it when the queue is full; that this never happens is the `~Copying`
part of `ResponsesPair` (a receiver about to respond finds the queue empty), not a matter of types.

For the last two, `Walks` follows a publisher along the list. The list has no cycle (`Acyclic`: an opened client is
put in front of what was first a moment ago, and nobody can reach it before (`Unlinked`)), so a walk meets each client
once; a client that has received the publisher's current message is not ahead of the walk (`Behind`), which makes `InOrder`
inductive; and a client that is still owed the message is ahead of it and still matches (`Debts`). Publishers follow
`next`, which never changes once a client is linked, so the race of two `open` calls does not disturb a walk. `StuckBehindStuck` is liveness and stays with TLC.

## Not modelled

- `stm32-fdcan`: the conditions under which the controller raises its interrupt are not in the source. Open points of
  the code: interrupts of several frames coalesce in one binary semaphore that the task gives again from the FIFO
  level it has read (`stm32-fdcan.c:61`), and `send` ignores its timeout and spins until there is room, also when the
  controller goes bus-off after the check at line 25.
- `nbus-flash`: one task, one request at a time. The check for an open session is commented out (`nbus-flash.c:142`):
  a second open replaces the session, and the session id is the address of the device.
- Two channels of one nbus node with the same id: the code has no mechanism for it (`nbus.c:389`), see `NbusChannels`.
- `radio-mac-simple`: slot timing, which a step model keeps little of; the packet buffer pool and neighbour table are
  the next candidates.
- umesh key exchange: unfinished; identity keys are copied through pointers that nothing sets.
- `worn-log-block`: unfinished; write and commit are empty.
- The message queue's clients (`mq-*`, `plog-*`) and the MQTT services beyond what they do to `PlogRouter` and
  `MqttTcpip`: packing, statistics and formats are data.
- Drivers, file system adapters, CLI, scripting, signal processing, the kernel and the libraries: register access,
  text, numbers, or code from elsewhere. Semaphores, mutexes, queues and stream buffers appear in the models by their
  documented effect.

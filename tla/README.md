# A verification of nabu-tftp

nabu-tftp turns a Raspberry Pi Pico W into the "adapter" a NABU PC expects on
its serial line: the NABU asks for packets of program segments, and the gateway
fetches the segments from a TFTP server, cuts them into packets and sends them.
This directory holds TLA+ models of that program, TLC configurations that check
them on small instances, and theorems proved with TLAPS. Paths below are
relative to `src/`.

Contents: 1 the system, 2 the models, 3 the runs, 4 bounds and fairness,
5 the proofs, 6 where code and documents disagree, 7 what is not modelled,
8 what is left.

## 1. The system

One processor core runs two contexts:

- the **main loop**: `main` boots, then `adapterLoop` for ever polls the USB
  console and the UART; a packet request is served to its end (`handleRequest`)
  before the loop looks at the next byte;
- the **lwIP callbacks**: the build uses lwIP in its threadsafe-background mode,
  so datagrams (`tftp_recv`) and timeouts (`tftp_tmr`) are handled in interrupts.
  A callback runs to its end; it can preempt the main loop anywhere.

| component | source | state | operations |
|---|---|---|---|
| TFTP engine | `tftp.c` | one `struct tftp_state`: handle, last_data, addr/port, timer, last_pkt, blknum, retries, mode_write, tftp_mode; pending `sys_timeout`s | `tftp_init_*`, `tftp_cleanup`, `tftp_get`, `tftp_put`, `tftp_recv` (RRQ, WRQ, DATA, ACK, ERROR), `tftp_tmr` |
| request handling | `wifi.c` | handling_request, request_handled | `handleRequest`; the engine's callbacks `tftp_open`, `tftp_write`, `tftp_close`, `tftp_error` |
| packetizer | `packet.c` | SegmentBuffer, SegmentWritePtr, SegmentNumber, PacketNumber, PacketOffset, PacketMode, PacketPrologSent | `PacketizeSegment`, `sendPacketizedData`, prolog, epilog, refusal, time packet |
| CRC | `packet.c`, `crctab.h` | none | `crc_update` |
| packetizing tool | `tools/packetize.c` | i, sz, packet | `main`, `writepacket` |
| adapter loop | `main.c` | channelWord, channelValid, usb_connected | one case for each command byte; console keys; reboot |
| UART drivers | `duart.c`, `*.pio` | duart_mode, the FIFOs | reading with and without timeout, sending raw and doubled bytes |
| configuration | `config.c` | configured, wifi_ssid, wifi_psk, wifi_auth, tftp_server_ip, hardwaremode, the file `config` | `readConfig`, `writeConfig`, `configWizard` |
| WiFi | `wifi.c` | networks, wifi_network_count | `wifiInit`, `wifiScan`, `scan_result`, `wifiConnect`, `tftpStartup` |
| directory parser | `tools/parsedir.c` | none | a text filter |

How they interact:

    NABU <--serial--> duart.c <-- adapterLoop --> packetRequest --> handleRequest
                        ^                                              | tftp_get
                        |                                              v
                   packet.c <-- tftp_write, tftp_close, tftp_error <-- tftp.c <--UDP--> server
                                (in interrupts)

- `handleRequest` calls `tftp_get` and then polls `handling_request` every half
  second; only a callback clears it.
- The callbacks write into `SegmentBuffer` (a `.nabu` file, PacketMode 0) or
  straight to the UART (a `.pak` file, PacketMode 1), and `tftp_close` sends the
  first packet of a segment: they share the UART and the buffer with the main
  loop, by nothing but the protocol around `handling_request`.
- `PacketMode == 0` with `SegmentNumber == s` is the code's whole notion of "the
  buffer holds segment s": later requests for it are served without the network.

The behaviours that are hard here: interrupts between the main loop's steps and
inside `tftp_get`; datagrams lost, repeated by the server or left over from an
earlier transfer; a wait that only a callback can end; timeouts that outlive
their transfer; sizes and block numbers of 16 bits at their limits; a cache
whose validity is spread over four variables. `PROJECT.json` lists each hazard
at its line.

What makes each component correct:

- *TFTP engine*: blocks are written once each and in order, also across the wrap
  of the block number; what is retransmitted is the block whose ACK is awaited;
  a server's transfer belongs to one peer, always has a timeout, and a silent
  peer loses it. A transfer that both ends take for complete has copied the whole
  file, block by block, whatever the network did.
- *Request handling*: each request is answered once, with the right bytes of the
  right file or with a refusal, and the gateway returns to listening; callbacks
  keep off the UART and the buffer while the main loop uses them; the cache is
  the file it claims to be.
- *Packetizer*: the packets of a segment fit together without gap or overlap, the
  end mark comes with the last byte, no load runs into a packet that is answered
  with silence.
- *Packetizing tool*: its files hold what the gateway would have sent.
- *CRC*: the table computes the CRC polynomial's remainder, and the check bytes are
  the only two that satisfy a receiver.
- *Adapter loop and UART*: after each command the loop and the NABU agree on
  where the next command begins.
- *UART drivers*: bytes arrive as they were sent although the clocks differ, and
  noise or a break costs the byte it hits and no other.
- *Configuration*: what the gateway works with is what was typed last, whole,
  whatever was refused, failed or lost in between, or, once the flash has failed,
  what was saved before or the part of it that can be read; what was saved is kept
  unless the flash fails, and what was erased is gone.
- *WiFi*: the list of networks has no name twice and never outgrows its array.

## 2. The models

| module | models | builds on |
|---|---|---|
| `Tftp` | the TFTP engine, as client, server or both | |
| `TftpProofs` | theorems about it | `Tftp` |
| `Transfer` | a file on its way from one engine to another | `Tftp`, twice |
| `TransferProofs` | theorems about it | `Transfer` |
| `Service` | abstract: what the gateway promises the NABU | |
| `Packetizer` | the arithmetic and the packet type of `PacketizeSegment` | |
| `SegmentLoad` | a NABU loading segments from `PacketizeSegment` | `Packetizer` |
| `PacketizerProofs` | lemmas about the arithmetic of `Packetizer` | `Packetizer` |
| `PacketizeTool` | `tools/packetize.c`, compared with `Packetizer` | `Packetizer` |
| `Packets` | one program on both ways to the NABU: cut into `.pak` files, or packetized on the fly | `SegmentLoad`, `PacketizeTool` |
| `PacketsProofs` | theorems about it, `SegmentLoad` and `Crc` | `Packets`, `PacketizerProofs`, `Crc` |
| `Gateway` | request handling, callbacks, packetizer, engine, server, network, resets | `Tftp`, `Packetizer`, `Service` |
| `MCGateway` | the file sets of the instances | `Gateway` |
| `GatewayProofs` | theorems about it: some hold for every fault, those about what it keeps and sends with resets as the only fault | `Gateway`, `TftpProofs`, `PacketizerProofs` |
| `Adapter` | the gateway's end of the serial line, byte by byte | |
| `NabuLine` | the line: `Adapter`, and the NABU at its other end | `Adapter` |
| `NabuLineProofs` | theorems about it | `NabuLine` |
| `MCNabuLine` | the packets, requests and channel codes of the instance | `NabuLine` |
| `Crc` | `crc_update`, its table and the check bytes | |
| `Pio` | the PIO programs cycle by cycle, and a NABU's UART at the other end | |
| `PioProofs` | theorems about it | `Pio` |
| `MCPio` | the answers of the instances | `Pio` |
| `Configuration` | `main` up to `adapterLoop`: the flash, the wizard, scan, network, `tftpStartup`, `duart_init` | |
| `MCConfiguration` | the symmetry of its run | `Configuration` |
| `ConfigurationProofs` | theorems about it | `Configuration` |

**Tftp.** The variables are the fields of `struct tftp_state`, with
`handle /= NULL` as a Boolean, address and port as one `peer` (the code sets and
clears them together) and the difference of `timer` and `last_pkt` as `idle`.
`timers` counts the pending `sys_timeout`s of `tftp_tmr`, of which lwIP can give
`TimerPool`. Each action is one path through one handler: `RecvRefused` is
`tftp_recv` for a datagram from another address than the connection's, `ReqFailed`
a request refused after its timeout was armed, `DataNext`, `DataFailed`,
`DataRepeat`, `DataWrong` the branches of DATA, and so on; `SendData` is
`send_data` with its three ends (no pbuf, a block sent, a read error), and
`Send` allows every send to fail for want of a pbuf where `PbufMayFail`. `reply`
is what the step gave to `udp_sendto`; `taken` (blocks written) and `src` (peers
that moved the transfer on) are history.

**Transfer.** Two instances of `Tftp`, each with the other's actions on the far side of
a network: a client (the variables of `Tftp` itself) that asks once for a file of
`Blocks` blocks, all full but the last, and a server (`Server!...`, variables `s_...`)
that serves it. The network keeps every datagram ever sent, so any one may arrive at any
later time, again and again, or never: loss, repetition and reordering need no action of
their own. `GetData` and `GetError` are the client's `tftp_recv` with what `ctx->write`
and `ctx->error` see; `Reads` is what `ctx->read` gives to `send_data`; a read request
that arrives again when the server is free makes it begin anew. `copy` is what was
written, `failed` that an error ended the client's transfer, `served` that the last ACK
ended the server's. The client asks once and is not shut down: blocks of one transfer
that are taken for another's are finding 1 of section 6. The server stays up too.

**Packetizer, SegmentLoad.** `PacketOffset`, `Remaining`, `PayloadSize` and
`LastPacket` are the assignments to `PacketOffset`, `sz`, `PayloadSize` and
`LastPacket` in `PacketizeSegment`, modulo the 16 bits of their types.
`SegmentLoad` puts a NABU in front of them that asks for packets 0, 1, 2, ...
until one has the end mark.

**Gateway.** The engine is `Tftp`'s: `Gateway` takes its `DataNext`, `RecvError`
and so on, and adds to each what the callback called inside it does. So

- `WriteBlock` is `tftp_recv` + `tftp_write`;
- `WriteLastRaw`, `WriteLastSegment` are `tftp_recv` + `tftp_write` + `tftp_close`,
  for a `.pak` and a `.nabu`;
- `TransferError` is `tftp_recv` + `tftp_error` + `tftp_close`, which then finds
  `handling_request` cleared and returns at once.

The main loop is `pc` (listening, inside `tftp_get`, waiting) and `phase` (which
file is sought). `RequestTime`, `RequestCached`, `RequestSegment` and
`RequestPacket` are `handleRequest` up to its first wait, `FallBack` and `Finish`
what follows a wait. `wifi.c` calls `tftp_get` without the lwIP lock, so its three
stores (`StoreHandle`, `StoreBlknum`, `StoreMode`) are steps of their own, in any
order, between which a datagram may be handled. A byte is `<<file, offset>>`:
what reached the buffer or the UART shows where it came from. `uart` is the log of
tokens sent since the last request (a prolog, a packet with its bytes, raw bytes,
an epilog, a refusal).

The environment is a server that serves each request on a TID of its own, and a
network holding datagrams in any order. `Faults` says what may go wrong: `"loss"`
(a datagram vanishes, the server repeats a block or gives up), `"late"` (the server
repeats a block that has arrived), `"abort"` (it fails in mid-file), `"startup"`
(`tftpStartup` failed and the engine is off), `"reset"` (the gateway loses its power,
at any step, and starts again from zeroed memory; what was under way is gone, while
the server's transfers go on until `ServerTimeout`). What the server repeats into
the life after a reset is the fault `"late"`.

**Service** is what the NABU may count on, without TFTP: a request is served
(`serving`) or not, `sent` is what the line has carried of its answer, `held` the
segment kept for the requests that follow. `AskNow` answers from what is at hand,
`AskFetch` begins a fetch, `SendMore` and `SendLast` only ever add to `sent`.
`TurnsSpec` says no more than that; `PromiseSpec` adds that what was sent is at each
moment the beginning of a right answer (`Kept`), and `ServiceSpec` that serving ends. `Gateway`
implements it by `PacketService == INSTANCE Service WITH ...`: `serving` is
`pc # "listen"`, `sent` the UART log, `held` the code's own notion of the cache
(`AtHand`), the right answers are `Promise`.

**Packets** joins `PacketizeTool` and `SegmentLoad`: the tool cuts a file, `paks` is
what it has written, and then a NABU loads segments, one by one from `SegmentBuffer`
(`FromSegment` is `Deliver`) or from the `.pak` files (`FromPaks`). `SameLoad` is
`SegmentLoad`'s own specification: loading the files is loading the segment.

**Configuration.** `pc` is where `main` is: `"boot"`, the entries of the wizard, the
two halves of `writeConfig` (`"create"`, `"write"`), `"connect"`, `"startup"`, and
`"loop"` for `adapterLoop`. An entry that is refused asks again and leaves the
variables as they are. What the flash holds is one file with a version and a
configuration; `Unwritten` is a file that was created and lost its power before it
was closed, `Foreign` one of an earlier version. Each call to the flash may fail,
whatever it holds and whatever went well before: the mount, upon which `main` formats,
and the formatting, with the file gone or not (`MountFails`); the open for reading, which
`readConfig` takes for no file (`NotConfigured`); the read of the version, which leaves
`config_ver` uninitialised, right or wrong (`ReadNothing`, also for an unwritten file);
the reads of the fields, of which the first `n` are had (`ReadConfig`, `Part`); the open
for writing, the writes and the close (`OpenConfig`, `WriteConfig`); and `pico_remove`
(`Reconfigure`), which as in `main` leads to the reboot all the same. `mounted` lasts
until the reset. `typed`, `saved`, `failed`, `short` and `erased` are history: the last
answers, those written last and not removed by c, whether a mount, an open or the
read of the version failed since, whether `main` went to work on fields it had not
read, and whether c has removed the file with no wizard answered since.
`Wired` is `duart_init` taking `hardwaremode` apart.

**Pio.** `Tick` is one PIO cycle, an eighth of a bit: an instruction of the receiving
program (`RxStart`, `RxIn`, ... one for each line of the source, `RxDelay` for its
delays), a cycle of the transmitting one, and the same stretch of time for the NABU's
transmitter (`NabuSends`) and receiver (`NabuListens`: it waits for an edge, counts time,
takes the middle of a bit, ends a frame, waits for mark after a break), whose bits have a
length of their own (`bit`). `due` is the bytes the NABU has begun to send. A symbol is what both wires of a pair show, so that noise on one
wire is neither mark nor space. `ReadByte` and `SendByte` are the driver's polls, at any
cycle. Either the NABU sends or the gateway does, as the protocol has it nearly
everywhere: each waits for what the other sends.

**Adapter.** `pc` is where the main loop reads or writes: in the switch of
`adapterLoop`, at one of the two reads of `changeChannel`, at the reads of
`packetRequest` (`args` is what it has of `request`), or in `handleRequest`:
`"fetch"` before it has anything to send, `"prolog"`, the reads of the handshake
(`"read_10"`, `"read_06"`), `"data"`, and `"refuse"`. `body` is what it sends and
`sent` how much of it. `SendData` is one turn of the loop of `duart_sendBytes`, so
that the NABU and the console's keys come between any two bytes of a packet;
`Doubled` is `duart_sendByte`. `answer` tells `sendPacketizedData` (`"packet"`), which
gives the packet up when a byte of the handshake is not the one expected, from
`tftp_write` (`"pak"`, and `"aborted"` for one that fails after some blocks), which
takes no notice, and from `sendUnauthorized` called for an empty file (`"twice"`),
after which `handleRequest` goes on (section 6). Which of these a request draws, and
that it draws one, is the business of `Gateway`; here it is a free choice, and that
`handleRequest` comes to a choice is assumed. A byte in `rx` or `tx` is marked with what
its sender meant by it, and one of a packet with its place there: the other side does
not look at the marks, the properties and the proofs do. `Reboot` and `TestKey` are the
console's `r` (and `c`) and `x`.

**NabuLine.** The NABU's program is not in the repository. `Replies` and `Wanted` are
what `main.c` and `packet.c` send it after each command, and `stage` follows their reads:
the reply, the parameters (`PutParam`), their confirmation (`GetDone`), the kind of
answer, the handshake (`PutAck`), the packet (`GetData`, with `esc` after a 0x10). It
drops what it gets between commands and starts over with 0x83 when it gets a byte it
does not expect, when nothing comes any more (`GiveUp`), or when someone resets it.
`Upset` is what upsets the order: a reset of the NABU, a reboot of the gateway, the test
key, and an empty file, which draws one answer more (section 6).

**Crc.** `crc_table` has the 256 entries of `crctab.h`; a word is the set of the positions
of its one bits, so that an exclusive or is `SymDiff` and the shifts are `High`, `Low` and
`Raised`. `Shift` is the textbook shift register of generator 0x1021, the reference.
`TableAssumption` says that each entry is what the register makes of its index; it is
a closed formula, which TLC evaluates for all 256 before it begins the run.

**PacketizeTool.** One action for each turn of `main`'s loop; `writepacket` gives
the fields of the `.pak` that matter: segment bytes, packet number, type byte,
offset and the part of the file it holds.

## 3. The runs

All must pass:

| run | question | result |
|---|---|---|
| `tftp_engine` | does the engine keep order, retransmit the right block, time its transfers, serve one peer and drop a silent one, in every mode, with two peers sending anything at any time, with failing allocations, opens, reads and writes, shutdown and restart? | `TftpTypeOK`, `BlocksInOrder`, `RetransmitsCurrent`, `TransferTimed`, `ServerKeepsToPeer`, `SilentPeerDropped` |
| `transfer` | with a network that loses, repeats and reorders, with timeouts, repeated requests and failing writes, reads and allocations, is the copy always the file's beginning, and is it whole when an end closes without an error? | `CopyInOrder`, `ClosedIsWhole`, `ServedIsWhole` |
| `gateway` | with a network that loses nothing and resets at any step, is every sequence of requests (segments, single packets, absent files, the time) answered right, does the gateway come back to listening, and does it implement `Service`? | `UartOwned`, `CacheCoherent`, `CorrectAnswer`, `BackToListening`, `KeepsPromise` |
| `gateway_faults` | do loss, repetition, aborts, resets, an engine that is off and a buffer filled to the last byte leave the variables in range, the callbacks off the main loop's UART, and each answer in its turn? | `GatewayTypeOK`, `UartOwned`, `TakesTurns` |
| `packets` | with the real sizes, does a NABU get the whole of a segment, at every boundary of the payload size and of 16 bits, and does the tool cut the file as the gateway does? | `Contiguous`, `EndIsEnd`, `LoadCompletes`, `SamePayload`, `AllCut`, `SameLoad` |
| `line` | do the gateway and the NABU agree on what each byte is, is a packet received as it was sent or not at all, and do they find back into step after a reset, a reboot or stray bytes, wherever these come? | `LineTypeOK`, `InStep`, `PacketWhole`, `ChannelAgreed`, `StartsOverForCause`, `Resyncs` |
| `crc` | does the table compute the CRC, and does a receiver find the check bytes right? | `SameRemainder`, `Residue` |
| `configuration` | whatever the flash does, does a gateway only ever work with what was typed, does it ask again only when told to or when the flash failed, and does erasing last? | `ConfTypeOK`, `AsTyped`, `NotAskedAgain`, `EraseRestartsWizard` |
| `pio` | do bytes cross the pairs in both directions with clocks 3 % apart, at every phase, with noise and breaks? | `PioTypeOK`, `GotRight`, `HeardRight`, `AllArrive` |

Three more show, each by a counterexample, a place where the code does not do
what a line of the repository says; section 6 explains them: `gateway_late`,
`gateway_lost`, `pio_suart`.

What to note about the properties:

- `BlocksInOrder` relates the block number awaited to the number of blocks really
  given to `ctx->write`. It breaks when any error path leaves the transfer open.
- `TransferTimed` is about `close_handle` taking away *a* timeout, not *the*
  transfer's: failed requests leave timeouts behind, and a failed write of a
  short block runs `close_handle` twice. It holds because every request arms one
  and a pending one re-arms itself while a transfer is open.
- `SilentPeerDropped` needs the retries to be counted and to run out.
- `CopyInOrder` compares contents, where `BlocksInOrder` counts: it breaks when one end
  gives a block another's number, or takes an old one. Between the two ends stands every
  datagram ever sent, those of a server that began the file anew among them.
- `ClosedIsWhole` and `ServedIsWhole` are what either end may conclude from having closed:
  the client from a short block and no call of `ctx->error`, the server from the last ACK.
  An error the other way round tells nothing: a lost last ACK leaves a server
  waiting for a client that has the whole file.
- `UartOwned` is what makes it safe that callbacks and the main loop use the UART
  and `SegmentBuffer` without a lock.
- `CacheCoherent` looks at every path that leaves PacketMode, SegmentNumber,
  SegmentWritePtr and the buffer, among them `.pak` fetches and refusals.
- `CorrectAnswer` compares the complete UART log of a request with the answers a
  NABU may get. Requests for packets beyond a cached segment's end are left out:
  `PacketizeSegment` answers them with silence or, past the end, with memory
  outside the segment. `Contiguous` and `LoadCompletes` show that a NABU that
  heeds the end mark asks for none.

- `TakesTurns` holds with every fault: no callback, however late, adds to an answer
  that is finished or to another's. An aborted `.pak` is still one answer that only
  grew, a prolog, some blocks and a refusal; that an answer is a right one is
  `KeepsPromise`, for a server that does not abort.
- After a reset in the middle of a load the cache is empty and the NABU's next
  request is for packet 1 or later: `KeepsPromise` has it answered by the `.pak` or by
  a refusal, never by the rest of something else.
- `SameLoad` is a refinement with its fairness: a load from `.pak` files takes the
  same steps as one from the segment, and ends.
- `AsTyped` allows two ways past what was typed last: what was saved before, whole, once
  the flash has failed since; and a first part of it that was read (section 6). Its
  other disjunct is what makes the property worth having: no key, server or pin of
  an earlier attempt, of another version or of another UART type gets through, and
  old and new answers never mix.
- `NotAskedAgain` and `EraseRestartsWizard` are the two sides of the file's life. It is
  not forgotten unless the flash fails: then the wizard does ask again, and the property
  says that nothing else makes it. And it is not brought back once `pico_remove` has
  done its work, wherever the power goes; when `pico_remove` fails nothing was
  erased and the gateway goes back to work (section 6).
- `GotRight` lets bytes be dropped and nothing else; `AllArrive` that none is dropped
  without cause. `HeardRight` begins when the line has been idle at mark once (`sure`),
  see section 6.
- `InStep` is what the handshake rests on: `packetRequest` returns without a word
  on a timeout, and a refusal by `handleRequest` leaves the NABU's 0x10 0x06 unread
  for the loop to find. It holds because no such leftover is a command byte and
  because the NABU is not at its next command before the loop has read them. It
  is stated without upsets: after one the gateway may well take parameters for
  commands, and `Resyncs` says that this comes to an end.
- `PacketWhole` covers the doubling of 0x10 at the cut between two blocks of a
  `.pak` and before 0xE1, and the refusal sent into an aborted `.pak`, whose
  0x90 0x10 0x06 the NABU must not take for an end.
- `StartsOverForCause` says that the NABU is thrown out of a command only by an
  upset, an answer of silence or an aborted file, never by the gateway's ordinary
  answers.
- `Resyncs` is the recovery: from every place where a reset or a reboot can meet
  either side, every command comes to an end.

`CHECK_DEADLOCK FALSE` is used in `gateway_faults` and `gateway_lost`, where the
gateway can wait for ever with nothing under way (finding 2 of section 6, not
an artefact), in `transfer`, where an engine that closed has nothing left to do,
and in `crc`, where a message has `MaxLength` bytes.

## 4. Bounds and fairness

Bounds, by the constants of the configurations:

- `BlkMod` 4 or 8 for 2^16. The engine only increments the number and compares it
  with its neighbour, so the wrap at 4 has all the cases of the wrap at 65536;
  the theorems hold for every width above 2.
- `TimeoutTicks` 2, `MaxRetries` 2: a timeout and a retry happen, twice each, and
  then run out. `idle` stops one above `TimeoutTicks`: it is only compared.
- `TimerPool` 3 (1 in the gateway, whose client arms none): leftover timeouts, a
  full pool and a transfer's own timeout coexist.
- Two peers: the connection's and a stranger (in `transfer` only the other end:
  datagrams from others are `tftp_engine`'s subject).
- `transfer`: three blocks (a first, a middle and a last one) with block numbers modulo 5,
  as a file is shorter than the block numbers: a segment has at most 129
  blocks, the numbers are 65536. One retry, after one tick, so that timeouts
  occur, repeat and give up; room for two timeouts.
- `BLOCK` 2, `MAXPAYLOAD` 3, `MAXSEGMENTSIZE` 8 for 512, 991 and 65536: a packet is
  no whole number of blocks, a segment takes several packets and several blocks, a
  file can end on a block's boundary, and the buffer can be filled exactly. In
  `gateway_faults` they are 2, 1 and 2 with one TID, which keeps loss, repetition
  and aborts together within reach (two million states); the properties of that
  run do not look at the bytes.
- `Segments`, `Packets`: a segment of two packets, one of one, one with only a
  `.pak`, one with no file, and the time packet's number.
- `NetCapacity` 2: faults add a datagram only to fewer than two. The server and
  the engine keep at most one datagram each under way, so a repeated block can be
  in flight beside a fresh one, which is what reordering needs.
- `packets` uses the real sizes and every segment size next to a
  multiple of 991, to 2^15 and to 2^16.
- `configuration`: three network names for a list of two entries, so that the list
  fills up and a name comes again (the names are interchangeable, so the run takes them as
  a symmetry); a server's address that can be read and one that cannot; numbers at 3, the
  last choice of a hardware UART, at 29, too much for type 2 and the last of type 3, and at
  30. (That type 2 takes 28 is left to the theorems, which hold for all numbers: with it the
  run has six million states and takes minutes.) The flash fails and power fails at any
  step, any number of times.
- `pio`: the NABU's bits last 62, 64 or 66 eighths of a PIO cycle, the PIO's 64: clocks
  3 % apart either way, beyond what two crystals and the divider's rounding make. Two
  items in a row (bytes, spoiled bytes, breaks) at every phase of the first edge: an
  item meets the receiver in every state the one before can leave it in. Bytes of all
  zeros, all ones and a mixture; answers of four bytes, without a gap where the FIFO
  allows it. Two items is also the limit for bits of 62 (section 6); `GotAsSent` has
  up to eight where no bit is shorter than the PIO's.
- `MaxUpsets` 2: one upset in the middle of the recovery from another.
- `RxDepth` 8 is the receive FIFO of the PIO drivers. The model's FIFO has no
  limit; `LineTypeOK` shows that it never holds more than eight bytes, so the
  drivers lose none. `LineTypeCorrect` says how much room each upset may take.
- Packets on the line (`MCBodies`, `MCPaks`) hold 0x10 next to 0xE1, 0x10 as the last
  byte of a block of `BLOCK` 2, and the handshake and 0xE4; there is a `.pak` of no bytes.
  The request and the channel code
  are made of bytes that are commands (0x84, 0x85) and of 0x10 0x06. `Commands`
  has one of each kind: the five answers, two ignored ones (one of them 0x10), the
  initialisation, the request and the channel code.
- The gateway's time limits (2^27 and 2^31 polls) are half a minute and more:
  they do not run out while the NABU has a byte to send or to get (`NabuSilent`),
  and a NABU command comes after the loop has dealt with the last one.
- `crc`: the first byte of a message is any of the 256, which reads every entry of
  the table, and two more are from seven values at the borders of the bit
  patterns. The table is linear in its index, so an error in the update shows on
  them.

Fairness:

- `WF(Tick)`: lwIP expires the timeouts that are armed. This is all that
  `SilentPeerDropped` gets; no datagram need ever arrive.
- `WF(MainStep)`: the main loop is never blocked for good by interrupts, and its
  poll of `handling_request` repeats.
- `WF(Receive)`: lwIP handles what has reached the device. `WF(Server)`: the
  server answers what has reached it. With `"loss"` a datagram may still vanish
  before either happens; nothing makes the server repeat itself.
- `WF(ServerTimeout)`: a TFTP server does not wait for ever for a client that has
  vanished; without it a gateway that was reset could find every TID taken.
- `WF(Deliver)` in `SegmentLoad`, `WF(FromSegment)` and `WF(FromPaks)` in `Packets`: the
  NABU asks again for an answer it missed. `WF(Cut)`: the tool runs to its end.
- `WF(Tick)` and `WF(ReadByte)` in `Pio`: the clock runs, and the driver's poll comes
  round. That it comes round before the FIFO is full is not assumed: two items do
  not fill it; that more never do, between the polls, is `LineTypeOK`.
- `WF(AdapterStep)` and `WF(NabuStep)` in `NabuLine`: the loop polls for ever, and
  the NABU goes on with a command it began. The time limits need no fairness: the
  NABU gives up first.

`transfer` states no fairness: with a network that may lose everything nothing need happen.
Nothing makes the NABU send a request, a fault happen or a fault cease.

## 5. The proofs

All are for every value of the constants that satisfies the modules' assumptions:
any set of peers, any width of the block number above 2, any timeouts, pools,
files, payload and buffer sizes.

*Engine* (`TftpProofs`). `TftpTypeCorrect` is inductive as it stands. The others
follow from `EngineInv`, the conjunction of the safety properties with
`PeerKept`: an engine that is off is closed and has heard no one, and a server's
open transfer knows its peer, the only one it has heard. `ServerKeepsToPeer` needs
it, since that only one peer was heard does not say which one the next datagram may
come from. The lemma `StepCases` splits a step into the engine's actions once and
for all, as a rule with an action as parameter; each invariant then has one step
for each action.

*Transfer* (`TransferProofs`). `TransferInv` has a part for each of the four places. The
client (`ClientInv`) awaits the block after the last of its copy, and has stopped either
with an error or with the last block written; the copy (`CopyInv`) is in order; under way
(`NetInv`) are only blocks under their own numbers and ACKs of blocks that are in the copy;
and the server (`ServerInv`) keeps the block it has read last, under its number, full
unless it is the file's last. No one of them is inductive alone: the client is right
because no block is under way with a wrong number, that is so because the server's number
is its position in the file, and the server moves on only on an ACK. `ServedHasWhole`
is the point of `NetInv`'s second half: an ACK of the last block, of whichever
attempt, exists only when the client has written it. The hypothesis of these three is
`~ServerPbufMayFail`: a server whose `init_packet` fails moves its number on without
its position (section 6), and `CopyInOrder` is then false, as TLC shows when
`ServerPbufMayFail` is made TRUE in `transfer.cfg`. The client may run out of memory at any send.
`EndsAreEngines` shows, without that hypothesis, that either end's steps are steps of `Tftp`, so
that `TftpProofs` applies to both; it needs of the network only that what is under way has
the form of a datagram (`WireInv`).

*CRC* (`PacketsProofs`). `crc_update` looks eight shifts up in a table. `ShiftByteLinear`
says that the shifts of an exclusive or are that of the parts' shifts, so eight shifts of a word
are eight of its high byte and eight of its low one; the low byte only moves up
(`LowByteLeaves`), and the high one is the table's entry, by
`TableAssumption`. `CodeIsCrc` follows for messages of any length (`MaxLength`). For the
check bytes, the register meets the complement of its own high byte and then of its low
one, so that what remains no longer depends on it (`CheckBytesLead`). `CheckBytesDecide` adds
the converse, which no run states: a shift loses nothing (`ShiftOnceInjective`), and the
second byte cannot make up for a wrong first one.

*Segment load* (`PacketsProofs`). `LoadInv` says that until the end mark the
NABU has a whole number of payloads, fewer bytes than the segment, and that
afterwards it has the segment. `PacketExact` (`PacketizerProofs`) shows that below the segment's end
the 16-bit arithmetic is exact (`num * MAXPAYLOAD` has not wrapped), which is
where `size < MAXSEGMENTSIZE` enters. `SegmentIsContiguous` and `SegmentEnds`
follow.

*Packets* (`PacketsProofs`). `PaksAreThePackets` and `ToolCutsAll` rest on an
invariant of the tool's loop: packet n begins at n * MAXPAYLOAD, and the number stays
a byte because 65536 bytes are 67 packets. `PaksLoadTheSegment` adds that the k-th
file in `paks` has the size and the end mark of packet k - 1, so that `FromPaks` is
`SegmentLoad`'s `Deliver`. The hypothesis `StartsAtZero` (`FirstI` is {0}) stands for
the uninitialised `i` of `tools/packetize.c:92`, without which none of it holds.

*Gateway* (`GatewayProofs`). `UartIsOwned` holds whatever the network, the server
and the power do, on any set of files. `UartOwned` is not inductive: a callback could
clear `handling_request` while `tftp_get` is still at its stores, and the handle
would then open a transfer nobody waits for. `OwnerInv` adds `GetBegun`: before
the handle is stored no transfer is open, hence no callback of it runs.

`GatewayTakesTurns` is the refinement of `Service`'s turns, for every fault: the first
state maps to `ServiceStart` and each action to one of `AskNow`, `AskFetch`, `SendMore`,
`SendLast`, `Restart` or a stutter. It needs `OwnerInv`: a callback that writes to
the line does so while a request is served. Its hypothesis `0 \notin Segments`
is a real one: a request for segment 0 finds the empty cache "at hand" and is
answered with silence (section 6).

`GatewayTypeCorrect` assumes `Fitting`: every file has fewer blocks than there are
block numbers, as 65535 of 512 bytes are more than any segment. Its proof takes the
engine's type from `TftpTypeCorrect`'s steps and needs the messages under way to
carry block numbers of stored files.

*What the gateway keeps and sends* (`GatewayProofs`). `CacheIsCoherent` and
`AnswersAreCorrect` assume `Calm`: the power is all that goes wrong (with late or lost
blocks both are false, section 6), 0 is no segment, block numbers suffice, and every
segment is smaller than `SegmentBuffer` (one that fills it is refused, section 6). `Answerable` adds that no `.nabu` is empty, which `tftp_close` would
answer before the `.pak` is sent as well. The `gateway` instance satisfies both. The
invariant `CacheInv` tells a fetch's whole history from the state:

- `NetInv`: a datagram under way is either the last ACK of a transfer the gateway has
  done with (`Over`), or the one datagram the open transfer turns on (`Fresh`: the
  request, the block awaited, the ACK of the block before, or the server's error), and
  the server's session stands where it says. No two carry the same TID, or the ACK of
  an old transfer could end the new one on its TID.
- `Begun`: what `handleRequest` and the stores of `tftp_get` have set so far.
- `Filling`: block n awaited means that n - 1 blocks of the file wanted are in
  `SegmentBuffer` and nothing past them is counted; `Filled`: at the end all of it is.

The lemma `Arrivals` reduces a callback to three cases (a block, the last one, the
error), `CopyBlock` shows that `SegmentBuffer[SegmentWritePtr++]` extends the file copied
so far, which is where the 16-bit pointer must not wrap, and `Packetized` that
`PacketizeSegment` then sends the segment's true packet. `LineInv` says the same of the
line: for a `.pak` the prolog and n - 1 raw blocks have been sent, for a `.nabu` nothing.
`GatewayKeepsPromise` is the refinement of `Service` without its liveness: `PromiseKept`
derives `Kept` from the invariant, and `TurnStep` gives the turns.

*Configuration* (`ConfigurationProofs`). The inductive invariant `ConfInv` joins the
type with what is known at each entry: `Asked` (the fields entered so far are the
typed ones, those still to come are not looked at), `Saved` (a file of this version
holds what was saved last, whole; and as long as nothing failed since, that is what was
typed last, the wizard is not asking, and without such a file nothing was saved),
`AtWork` (past the wizard it is what was typed, what was saved after a failure, or a first
part of that) and `Erased`. The second half of `Saved` is what `AskedOnce` rests on, and
what `WorksAsTyped` needs where the file is read after a reset. No theorem assumes
anything of the flash. `WorksAsTyped` needs the arithmetic of packing and
unpacking `hardwaremode`, proved once for all numbers typed. The theorems hold for
any `MaxNetworks` and any numbers, not only the instance's.

*The line* (`NabuLineProofs`), for all packets, `.pak` files, blocks, requests, channel
codes and commands, and any number of upsets. `LineInv` is the inductive invariant:

- `StageOK`, `ServingOK`: each side's variables fit where it is.
- `RxOK`, `Called`: what may be before the gateway. Of the last three bytes in the FIFO
  one is no handshake byte, and before any command but 0x83 there is nothing but
  handshake bytes. `LineTypeCorrect` follows: five bytes and one for each upset are room
  enough (`RxDepth >= 5 + MaxUpsets`; the PIO drivers' eight take three upsets).
- `Opening`, `Asked`, `Refusing`: a NABU that has 0x10 0x06 for its 0x84 or 0x85 has the
  gateway at the first parameter with an empty FIFO, even when that 0x10 was part of an
  older answer; what the gateway has of the parameters and what is before it are the
  ones put so far; and the kind of answer that comes next answers these.
- `Receiving`: with the packet, `Decodes`. The bytes on the line are chained: a mark is
  followed by the byte it announces, a byte of the packet by what the packet's next byte
  begins with, and the first on the line is what the NABU, `esc` or not, has to get next.
  `Extends` keeps this when the gateway sends, and the proof that `GetData` keeps it is
  the argument that doubling can be undone: the NABU takes 0xE1 for the end just where it
  was meant. `PacketsAreWhole` follows. A `.pak` cut short is in it with its refusal as
  content (`Content`, `Last`), which is why its end 0x06 is never taken for one.

Without upsets `CalmInv` holds beside it: nothing is on its way that the other side is not
about to take for what it is. In particular the gateway never times out (`NoTimeout`), for it
reads only what is under way, and the two handshake bytes a refusal leaves unread meet
the loop, which ignores 0x10 and 0x06, before the next command does. `StaysInStep`,
`ChannelCodesAgree` and the action property `StartsOver` follow; the last from
`CalmRestarts`, which goes through the places where the NABU can meet a byte it does not
want, or silence.

*The PIO programs* (`PioProofs`). `PioTypeCorrect` holds for either UART type and every
clock. The other two are about the pair (`Kind = "duart"`; type 3 receives nothing, section
6) and a NABU whose bits are even numbers from 62 to 66 (`Near`), for any bytes, any
answers, any noise, and the driver's polls at any cycle.

- `HeardAsPut`, gateway to NABU. `HearInv`: once the line was idle the NABU is either
  waiting at mark and has heard all that was put but what is in the FIFO (`Rested`), or the
  frame of the next byte is on the pins (`Framing`). Then `FrameOut` says which symbols are
  still to come, and `Sampling` ties the NABU's time to the frame's `Age`: the ear has
  sampled the bits whose middle is past (`InTime`), each as it was (`FrameSampled`). The
  middle of the stop bit is within the three marks that end a frame of 12 symbols, so the
  ear hunts again before the next start bit.
- `GotAsSent`, NABU to gateway. `PlaceInv` says for each instruction how far the item at
  the line is: in a frame `pos` is eight times the cycles since its first edge (`Elapsed`)
  and at most `Late` more, and the bits shifted in are the item's (`FrameInv`). Sample k,
  96 + 64 k after the edge and at most `Late` later, then falls within bit k for
  every clock (`SampleTime`); in a break the receiver is at the wait until mark
  comes (`BreakInv`); and when it looks for the next edge it sees it at most `Late` after
  it fell (`StartInv`, `PushInv`). `PlaceStep` says what a cycle does to the words received: nothing,
  the next item begins, the item is now a word, a break is over. `CountInv` then counts:
  a function gives how many bytes the first k words hold, so that a spoiled word counts
  for none, wherever it is. `RoomInv` bounds words and items still to come by
  `MaxItems`.

  `Tolerated` is its hypothesis. `MaxItems <= RxDepth`: without a poll for longer the
  push stalls and the program misses edges. `62 \in BitTimes => MaxItems <= 2`:
  the receiver needs 78 of its cycles from one edge to the next chance to see one, ten bits
  of 62 are 77.5, and so each item without a gap is seen half a cycle (4 units) later than the one
  before. `Late` has that. The third byte's last bit can then be sampled after its end:
  TLC shows it when `MaxItems` in `pio.cfg` is made 3 and `BitTimes` {62}.

Only model-checked: `SilentPeerDropped`, `BackToListening`, `LoadCompletes`,
`AllArrive`, `Resyncs` and the fairness in `SameLoad` and `KeepsPromise`: liveness under
fairness is beyond the prover. The safety part of `KeepsPromise` is `GatewayKeepsPromise`,
that of `SameLoad` is `PaksLoadTheSegment`. Every invariant and every action property of a
passing run is proved. Taken from TLC is `TableAssumption`, a finite fact about 256 numbers.

## 6. Where code and documents disagree

1. `gateway_late`, `tftp.c:251`: a client listens to every sender and records
   none, so a block the server repeats after its ACK was sent can be taken as the
   first block of the next file, written, acknowledged and packetized.
2. `gateway_lost`, `wifi.c:189`: `tftp_get` arms no timeout; after a lost request
   `handleRequest` polls for ever.
3. `pio_suart`, `suart_rx.pio:55`: the program shifts a byte into the high end of a
   32-bit word, and `suart_rx_program_get` takes the low end: with UART type 3, which
   `README.md:34` offers, every byte received is 0. (`suart_tx.pio:46` sends the byte
   shifted left by one, with its highest bit lost, where the program expects the
   byte itself.)

Seen while modelling, without a run of their own:

- a segment of exactly 65536 bytes, the buffer's size (`MAXSEGMENTSIZE`, `packet.h:1`), wraps
  SegmentWritePtr to 0 (`wifi.c:139`) and is refused as empty. TLC shows it when `Stored` in
  `gateway.cfg` is made `MCFilling`: `KeepsPromise` and `CorrectAnswer` are violated;
- an empty `.nabu` is refused by `tftp_close` (0x90), and then `handleRequest`, whose
  comment at `wifi.c:196` says the file was not found, fetches the `.pak` all the
  same and sends that too: two answers to one request. No instance of `Gateway` has an
  empty file; `NabuLine` counts it among the upsets;
- the byte commented "Segment MSB" (`tools/packetize.c:56`) is bits 24 to 31 of a
  24-bit number, where `packet.c:168` sends bits 16 to 23. `writepacket` has it so;
- `duart_tx.pio:4` sets the pair to space before the first byte, while a UART rests at
  mark: the NABU sees a break until then, and the first byte, whose start bit it cannot
  tell, may be lost. `HeardRight` begins after the line was idle;
- a NABU whose clock is 3 % fast and that sends three bytes without a gap has the last
  bit of the third sampled too late, as the receiver's frame is 78 cycles, not 77.5, long.
  (A start bit is looked for right after the stop bit's sample; `duart_rx.pio:15` calls this
  the slack for a clock that is too fast.) The clocks in use differ far less, and the protocol
  has the NABU send no more than four bytes before it waits;
- a file `config` created by a `writeConfig` that lost its power is read without a
  look at the length: `config_ver` is then whatever the stack held
  (`config.c:61`), and a gateway may go to work with a zeroed configuration. The same
  holds of a file whose reads fail: `readConfig` looks at none of them, and with a version
  that is right the gateway works with the fields it got and zeroes for the rest
  (`short` in `AsTyped`);
- `main` formats the flash whenever it cannot be mounted (`main.c:240`), which removes a
  saved configuration, and `readConfig` calls any failure to open the file "Not
  configured" (`config.c:58`), with the file still there: in both cases the wizard asks again
  (`failed` in `NotAskedAgain`). If what it is told then cannot be written, which
  nobody notices, the next reset brings the older configuration back (`failed` in
  `AsTyped`);
- `README.md:25` of the repository says of c that it erases the configuration and restarts
  the wizard; when `pico_remove` fails (`main.c:142`, its result is not looked at), also
  because the flash could not be mounted, c is the same as r and the gateway goes back to
  work with the old configuration if it can read it;
- the wizard takes any text of seven characters for a server (`config.c:112`); when
  `ipaddr_aton` does not understand it `tftpStartup` gives up (`wifi.c:268`), `main` goes
  on, and the first request is the wait of finding 2;
- the wizard takes the same pin for both directions, overlapping pairs, and pins
  the Pico W uses for its radio (23 to 25 and 29);
- `main` does not look at what `wifiConnect` returns at boot (`main.c:261`);
- when `init_packet` fails in `send_data` the block number has moved on but no block was
  read (`tftp.c:225`). That block is not sent again, the transfer waits for its timeout;
  but if the server has begun the file anew, an ACK of the earlier attempt can move it on
  once more, and what it reads then goes out under the next number: a copy of the wrong
  block. (The gateway is only a client.);
- a repeated ACK makes a server answer "Wrong block number" (`tftp.c:381`), as an ERROR, which
  ends the client's transfer: with this engine at both ends a network that repeats
  a datagram breaks transfers off, though never unnoticed (`ClosedIsWhole`);
- a client that has closed answers the last block, repeated because its ACK was lost, with "No
  connection" (`tftp.c:331`): the server ends in an error although the file is whole;
- segment 0 is the code's "none": a request for it, first thing after power-up, is
  taken for cached and answered with silence (`wifi.c:174`, `packet.c:144`);
- a server request arms its timeout before it is looked at, and the error paths do
  not take it back; two failed requests leave two timeouts, where `tftp.c:48` asks
  for one record (`tftp.c:282`). `TransferTimed` holds all the same, and the
  gateway is only a client;
- with a file for segment 0 on the server, `tftp_close` returns before it clears
  `handling_request` (`wifi.c:89`): the wait of finding 2. No instance has such a file;
- `tftp_put` awaits the ACK of block 1 while this engine's own server grants a
  write with ACK 0 (`tftp.c:543`; nothing calls it);
- `tftp_get`'s error is not looked at (`wifi.c:188`), so that an engine that was
  not started ends in the wait of finding 2 (fault `"startup"` of
  `gateway_faults` allows it);
- the tool reads `i` uninitialised (`tools/packetize.c:92`; `FirstI` is 0 in the
  runs, the value the tool needs);
- a `.pak` of one packet has type 0x30 where `PacketizeSegment` sends 0xb1
  (`tools/packetize.c:67`, `packet.c:179`), both with the end mark set.

## 7. What is not modelled

- `tools/parsedir.c`: a filter that keeps no state.
- `ota.o`: a compiled object without source.
- `CMakeLists.txt`, `cmake/`, `lwipopts.h`: build files. What they decide for the
  models: lwIP in interrupts, and lwIP's default TFTP timeouts.
- `ExpectPacketRequest`, `duart_readByteBlocking`, the `puts` functions of the PIO
  headers: nothing calls them.
- The chip's own UARTs (types 0 and 1), the radio and its driver (`wifiInit`), the flash
  file system: external; their outcomes are free choices. Of the flash file system three
  things are assumed: what is written becomes the file's content at `pico_close`, all at
  once; a `pico_read` gives its whole field or nothing; and after one that fails nothing
  more is read in that boot.
- In `Pio`: both directions at once, the two cycles of the input synchroniser, and the
  rounding of the clock divider other than as a difference of the clocks.
- Single characters of an entry in the wizard (`custom_fgets`, `strtoul`): an entry is
  accepted or not.
- File and error texts, console output, constant header bytes of a packet, the
  contents of the time packet: data no property tells apart.

## 8. What is left

Done, in this order: the engine and its theorems; the packetizer, a segment's
load and its theorems; the gateway, which composes both with server and network,
and its ownership theorem; the tool; the byte line with the adapter loop and the
NABU; the CRC; the configuration and its theorems; the PIO programs; the two ways of
a program to the NABU and their refinement; resets, the abstract service, and the
theorems about its turns, the gateway's type, its cache and its answers; the line sent
byte by byte, and its theorems; the theorems about the PIO programs; the transfer between
two engines and its theorems; the theorems about the CRC.

What could follow: `GotAsSent` for a NABU that leaves its gaps, with clocks 3 % off and any
number of bytes; `Late` would depend on the gap before the item.

------------------------------ MODULE Gateway ------------------------------
(***************************************************************************)
(* Serving the NABU's packet requests: handleRequest of src/wifi.c and the *)
(* callbacks it hands to the TFTP engine, PacketizeSegment of src/packet.c *)
(* and the engine itself (module Tftp, as a client), with the TFTP server, *)
(* the network and the NABU's handshakes as the environment.               *)
(*                                                                         *)
(* Two contexts share one core: the main loop, which serves one request at *)
(* a time and polls handling_request while a transfer runs, and the lwIP   *)
(* callbacks, which run in interrupts: atomic for the main loop, and able  *)
(* to preempt it between any two of its steps, inside tftp_get too, which  *)
(* wifi.c calls without taking the lwIP lock.                              *)
(*                                                                         *)
(* A byte of a file is <<file, offset>>; the UART log holds the tokens     *)
(* sent in answer to the current request; sizes are scaled by constants.   *)
(***************************************************************************)
EXTENDS Tftp, Packetizer, Sequences, FiniteSets

CONSTANTS
  Segments,        \* segment numbers the NABU asks for; 0 is the code's "none"
  Packets,         \* packet numbers it asks for
  TimeSegment,     \* 0x7fffff: request 0x7fffff00 is for the time packet
  Stored,          \* the server's files: a function from names to sizes
  BLOCK,           \* TFTP_MAX_PAYLOAD_SIZE
  Faults,          \* what the environment may do wrong
  NetCapacity,     \* bound: faults add a datagram only to fewer than this
  NoFile, NoRequest

ASSUME SizesAssumption ==
  /\ BLOCK \in Nat \ {0}
  /\ NetCapacity \in Nat
ASSUME NumbersAssumption ==
  /\ Segments \subseteq Nat /\ Packets \subseteq Nat
  /\ NoRequest \notin [seg : Segments, pkt : Packets]
ASSUME FaultsAssumption == Faults \subseteq {"loss", "late", "abort", "startup", "reset"}

Requests == [seg : Segments, pkt : Packets]
Nabu(seg) == [kind |-> "nabu", seg |-> seg, pkt |-> 0]       \* /nabu/%06x.nabu
Pak(r) == [kind |-> "pak", seg |-> r.seg, pkt |-> r.pkt]     \* /nabu/%08x.pak
Files == [kind : {"nabu", "pak"}, seg : Segments, pkt : Packets \cup {0}]
Bytes == (Files \cup {NoFile}) \X Nat
Junk == <<NoFile, 0>>              \* a byte of no file: zeroed or foreign memory

ASSUME FilesAssumption ==
  /\ NoFile \notin Files
  /\ DOMAIN Stored \subseteq Files
  /\ \A f \in DOMAIN Stored : Stored[f] \in Nat

VARIABLES
  pc,          \* main loop: "listen", in tftp_get ("get"), or polling ("wait")
  phase,       \* which file handleRequest is after: "nabu" or "pak"
  stores,      \* assignments of tftp_get still to be made
  request,     \* the NABU's last request
  handling_request, request_handled,
  PacketMode, PacketPrologSent,
  SegmentNumber, SegmentWritePtr, SegmentBuffer, PacketNumber,
  uart,        \* the tokens sent since the last request
  net,         \* datagrams under way
  session      \* the server's transfers, one per TID it can use

main_vars == <<pc, phase, stores, request>>
ctx_vars == <<handling_request, request_handled, PacketMode, PacketPrologSent,
              SegmentNumber, SegmentWritePtr, SegmentBuffer, PacketNumber, uart>>
engine_vars == <<handle, last_data, peer, idle, blknum, retries, mode_write,
                 tftp_mode, timers, taken, src>>
gateway_vars == <<engine_vars, reply, main_vars, ctx_vars, net, session>>

-----------------------------------------------------------------------------
\* What is sent to the NABU.
Token(kind) == [kind |-> kind, seg |-> 0, num |-> 0, last |-> FALSE, bytes |-> <<>>]
Auth == Token("auth")        \* 0x91
Unauth == Token("unauth")    \* 0x90 of sendUnauthorized
Refuse == Token("refuse")    \* 0x90 0x10 0x06 of handleRequest
Epilog == Token("epilog")    \* 0x10 0xE1
Raw(bytes) == [Token("raw") EXCEPT !.bytes = bytes]
Packet(seg, num, last, bytes) ==
  [kind |-> "packet", seg |-> seg, num |-> num, last |-> last, bytes |-> bytes]
TimePacket == Packet(TimeSegment, 0, TRUE, <<>>)

\* sendPacketizedData; ack: the NABU answered the prolog with 10 06 in time.
SendPacketized(packet, ack) == IF ack THEN <<Auth, packet, Epilog>> ELSE <<Auth>>

\* Bytes lo .. hi-1 of file f.
FileBytes(f, lo, hi) == [k \in 1 .. hi - lo |-> <<f, lo + k - 1>>]

\* PacketizeSegment with SegmentWritePtr = size and the buffer buf.
BufferBytes(buf, lo, n) ==
  [k \in 1 .. n |-> IF lo + k - 1 < MAXSEGMENTSIZE THEN buf[lo + k - 1] ELSE Junk]

PacketizeSegment(seg, num, size, buf, ack) ==
  IF seg = 0 \/ size = 0 \/ Remaining(num, size) = 0
  THEN <<>>
  ELSE SendPacketized(
         Packet(seg, num, LastPacket(num, size),
                BufferBytes(buf, PacketOffset(num), PayloadSize(num, size))), ack)

-----------------------------------------------------------------------------
\* The network: datagrams between the engine and the server's TIDs.
Message(op, tid, blk, file) == [op |-> op, tid |-> tid, blk |-> blk, file |-> file]
ReadRequest(file) == Message("RRQ", NoPeer, 0, file)
DataMessage(tid, blk, file) == Message("DATA", tid, blk, file)
ErrorFrom(tid) == Message("SERVER_ERROR", tid, 0, NoFile)

\* What the engine sent is under way; m, received, no longer is.
Received(m) ==
  net' = (net \ {m}) \cup
         (IF reply' = NoReply THEN {}
          ELSE {Message(reply'.op, reply'.to, reply'.blk, NoFile)})

LastBlock(f) == Stored[f] \div BLOCK + 1
BlockBytes(f, b) ==
  FileBytes(f, (b - 1) * BLOCK, IF b = LastBlock(f) THEN Stored[f] ELSE b * BLOCK)

Idle == [file |-> NoFile, blk |-> 0]

GatewayStart ==
  /\ handle = FALSE /\ last_data = NoData /\ peer = NoPeer
  /\ idle = 0 /\ blknum = 0 /\ retries = 0 /\ mode_write = FALSE
  /\ tftp_mode \in IF "startup" \in Faults THEN {"client", "off"} ELSE {"client"}
  /\ timers = 0 /\ reply = NoReply /\ taken = 0 /\ src = {}
  /\ pc = "listen" /\ phase = "nabu" /\ stores = {} /\ request = NoRequest
  /\ handling_request = FALSE /\ request_handled = FALSE
  /\ PacketMode = FALSE /\ PacketPrologSent = FALSE
  /\ SegmentNumber = 0 /\ SegmentWritePtr = 0 /\ PacketNumber = 0
  /\ SegmentBuffer = [i \in 0 .. MAXSEGMENTSIZE - 1 |-> Junk]
  /\ uart = <<>> /\ net = {} /\ session = [t \in Peers |-> Idle]

-----------------------------------------------------------------------------
\* handleRequest, up to its first wait.
Cached(r) == ~PacketMode /\ SegmentNumber = r.seg
IsTime(r) == r.seg = TimeSegment /\ r.pkt = 0

TftpStores == {"handle", "blknum", "mode_write"}

\* The next step of the main loop is tftp_get for a file of the given kind.
BeginGet(kind) ==
  /\ pc' = "get" /\ phase' = kind /\ stores' = TftpStores
  /\ handling_request' = TRUE

Asked(r) == pc = "listen" /\ request' = r

RequestTime(r) ==
  /\ Asked(r) /\ IsTime(r)
  /\ \E ack \in BOOLEAN : uart' = SendPacketized(TimePacket, ack)
  /\ UNCHANGED <<pc, phase, stores, handling_request, request_handled, PacketMode,
                 PacketPrologSent, SegmentNumber, SegmentWritePtr, SegmentBuffer,
                 PacketNumber>>

\* handling_request is left set: no transfer is open that could clear it.
RequestCached(r) ==
  /\ Asked(r) /\ ~IsTime(r) /\ Cached(r)
  /\ request_handled' = FALSE /\ handling_request' = TRUE
  /\ PacketNumber' = r.pkt
  /\ \E ack \in BOOLEAN :
       uart' = PacketizeSegment(SegmentNumber, r.pkt, SegmentWritePtr, SegmentBuffer, ack)
  /\ UNCHANGED <<pc, phase, stores, PacketMode, PacketPrologSent, SegmentNumber,
                 SegmentWritePtr, SegmentBuffer>>

\* tftp_packet_open.
PacketOpenNoMode ==      \* mutant: PacketMode is not set
  PacketPrologSent' = FALSE /\ SegmentWritePtr' = 0 /\ UNCHANGED PacketMode

PacketOpen ==
  PacketPrologSent' = FALSE /\ SegmentWritePtr' = 0 /\ PacketMode' = TRUE

\* The first packet: fetch the whole segment (tftp_segment_open).
RequestSegment(r) ==
  /\ Asked(r) /\ ~IsTime(r) /\ ~Cached(r) /\ r.pkt = 0
  /\ BeginGet("nabu")
  /\ request_handled' = FALSE /\ uart' = <<>>
  /\ PacketMode' = FALSE
  /\ SegmentNumber' = r.seg /\ SegmentWritePtr' = 0 /\ PacketNumber' = 0
  /\ UNCHANGED <<PacketPrologSent, SegmentBuffer>>

\* Another packet of a segment that is not at hand: fetch it alone.
RequestPacket(r) ==
  /\ Asked(r) /\ ~IsTime(r) /\ ~Cached(r) /\ r.pkt # 0
  /\ BeginGet("pak")
  /\ request_handled' = FALSE /\ uart' = <<>>
  /\ PacketOpen
  /\ SegmentNumber' = r.seg
  /\ UNCHANGED <<SegmentBuffer, PacketNumber>>

NabuRequest ==
  /\ \E r \in Requests :
       RequestTime(r) \/ RequestCached(r) \/ RequestSegment(r) \/ RequestPacket(r)
  /\ reply' = NoReply
  /\ UNCHANGED <<engine_vars, net, session>>

-----------------------------------------------------------------------------
\* tftp_get.  Its assignments are not ordered by anything a callback could
\* rely on, and callbacks can run between them.
InGet == pc = "get" /\ tftp_mode = "client"

Stored1(field) == InGet /\ field \in stores /\ stores' = stores \ {field}
Quiet == reply' = NoReply /\ UNCHANGED <<ctx_vars, session>>

StoreHandle ==
  /\ Stored1("handle") /\ Quiet
  /\ handle' = TRUE /\ taken' = 0 /\ src' = {}
  /\ UNCHANGED <<last_data, peer, idle, blknum, retries, mode_write, tftp_mode,
                 timers, pc, phase, request, net>>

StoreBlknum ==
  /\ Stored1("blknum") /\ Quiet
  /\ blknum' = 1
  /\ UNCHANGED <<handle, last_data, peer, idle, retries, mode_write, tftp_mode,
                 timers, taken, src, pc, phase, request, net>>

StoreMode ==
  /\ Stored1("mode_write") /\ Quiet
  /\ mode_write' = TRUE
  /\ UNCHANGED <<handle, last_data, peer, idle, blknum, retries, tftp_mode,
                 timers, taken, src, pc, phase, request, net>>

Wanted == IF phase = "nabu" THEN Nabu(request.seg) ELSE Pak(request)

SendRequest ==
  /\ InGet /\ stores = {} /\ Quiet
  /\ pc' = "wait"
  /\ net' = net \cup {ReadRequest(Wanted)}
  /\ UNCHANGED <<engine_vars, phase, stores, request>>

\* The engine was never started: ERR_VAL, which handleRequest does not look at.
GetFails ==
  /\ pc = "get" /\ tftp_mode = "off" /\ Quiet
  /\ pc' = "wait"
  /\ UNCHANGED <<engine_vars, phase, stores, request, net>>

\* handleRequest, once a callback has cleared handling_request.
PolledOnce == pc = "wait"      \* mutant: handling_request is not looked at
Polled == pc = "wait" /\ ~handling_request

\* No .nabu: the .pak is next.
FallBack ==
  /\ Polled /\ phase = "nabu" /\ ~request_handled
  /\ BeginGet("pak")
  /\ PacketOpen
  /\ reply' = NoReply
  /\ UNCHANGED <<engine_vars, request, request_handled, SegmentNumber, SegmentBuffer,
                 PacketNumber, uart, net, session>>

Finish ==
  /\ Polled /\ (phase = "pak" \/ request_handled)
  /\ pc' = "listen"
  /\ uart' = IF request_handled THEN uart ELSE Append(uart, Refuse)
  /\ reply' = NoReply
  /\ UNCHANGED <<engine_vars, phase, stores, request, handling_request, request_handled,
                 PacketMode, PacketPrologSent, SegmentNumber, SegmentWritePtr,
                 SegmentBuffer, PacketNumber, net, session>>

MainStep ==
  \/ StoreHandle \/ StoreBlknum \/ StoreMode \/ SendRequest \/ GetFails
  \/ FallBack \/ Finish

-----------------------------------------------------------------------------
\* The callbacks, inside the engine's own handlers.
Full(m) == m.blk < LastBlock(m.file)

WriteSegmentWide(bytes) ==      \* mutant: the pointer has more than 16 bits
  /\ SegmentWritePtr' = SegmentWritePtr + Len(bytes)
  /\ UNCHANGED SegmentBuffer

\* tftp_write in segment mode: SegmentBuffer[SegmentWritePtr++] for each byte.
WriteSegment(bytes) ==
  /\ SegmentBuffer' =
       [i \in 0 .. MAXSEGMENTSIZE - 1 |->
          LET k == (i - SegmentWritePtr) % MAXSEGMENTSIZE
          IN  IF k < Len(bytes) THEN bytes[k + 1] ELSE SegmentBuffer[i]]
  /\ SegmentWritePtr' = (SegmentWritePtr + Len(bytes)) % MAXSEGMENTSIZE

\* tftp_write in packet mode; what the NABU answers to the prolog is ignored.
WriteRawAlways(bytes) == <<Auth, Raw(bytes)>>      \* mutant: a prolog each time
WriteRaw(bytes) == IF PacketPrologSent THEN <<Raw(bytes)>> ELSE <<Auth, Raw(bytes)>>

\* The guards at the head of tftp_close.
Closing == SegmentNumber # 0 /\ handling_request

WriteBlock(m) ==
  /\ DataNext(m.tid, m.blk, TRUE)
  /\ IF PacketMode
     THEN /\ uart' = uart \o WriteRaw(BlockBytes(m.file, m.blk))
          /\ PacketPrologSent' = TRUE
          /\ UNCHANGED <<SegmentWritePtr, SegmentBuffer>>
     ELSE /\ WriteSegment(BlockBytes(m.file, m.blk))
          /\ UNCHANGED <<uart, PacketPrologSent>>
  /\ UNCHANGED <<handling_request, request_handled, PacketMode, SegmentNumber,
                 PacketNumber>>

\* The last block of a packet: tftp_write, then tftp_close.
WriteLastRaw(m) ==
  /\ PacketMode /\ DataNext(m.tid, m.blk, FALSE)
  /\ uart' = uart \o WriteRaw(BlockBytes(m.file, m.blk))
                  \o IF Closing THEN <<Epilog>> ELSE <<>>
  /\ PacketPrologSent' = ~Closing
  /\ IF Closing
     THEN /\ request_handled' = TRUE /\ handling_request' = FALSE
          /\ SegmentNumber' = 0 /\ PacketNumber' = 0
     ELSE UNCHANGED <<request_handled, handling_request, SegmentNumber, PacketNumber>>
  /\ UNCHANGED <<PacketMode, SegmentWritePtr, SegmentBuffer>>

\* The last block of a segment: its first packet goes out from tftp_close.
WriteLastSegment(m) ==
  /\ ~PacketMode /\ DataNext(m.tid, m.blk, FALSE)
  /\ WriteSegment(BlockBytes(m.file, m.blk))
  /\ IF Closing
     THEN /\ \E ack \in BOOLEAN :
               uart' = uart \o
                 IF SegmentWritePtr' = 0 THEN <<Unauth>>
                 ELSE PacketizeSegment(SegmentNumber, PacketNumber, SegmentWritePtr',
                                       SegmentBuffer', ack)
          /\ request_handled' = (SegmentWritePtr' # 0)
          /\ handling_request' = FALSE /\ PacketPrologSent' = FALSE
     ELSE UNCHANGED <<uart, request_handled, handling_request, PacketPrologSent>>
  /\ UNCHANGED <<PacketMode, SegmentNumber, PacketNumber>>

\* tftp_error; the tftp_close that follows finds handling_request cleared.
CtxErrorStuck == request_handled' = FALSE /\ UNCHANGED handling_request      \* mutant
CtxError == request_handled' = FALSE /\ handling_request' = FALSE

TransferError(m) ==
  /\ handle /\ RecvError(m.tid) /\ CtxError
  /\ UNCHANGED <<PacketMode, PacketPrologSent, SegmentNumber, SegmentWritePtr,
                 SegmentBuffer, PacketNumber, uart>>

StaleError(m) == ~handle /\ RecvError(m.tid) /\ UNCHANGED ctx_vars

NotWritten(m) ==
  /\ \/ DataUnwanted(m.tid) \/ DataRepeat(m.tid, m.blk) \/ DataWrong(m.tid, m.blk)
  /\ UNCHANGED ctx_vars

Receive ==
  \E m \in net :
    /\ \/ /\ m.op = "DATA"
          /\ \/ Full(m) /\ WriteBlock(m)
             \/ ~Full(m) /\ (WriteLastRaw(m) \/ WriteLastSegment(m))
             \/ NotWritten(m)
       \/ m.op = "SERVER_ERROR" /\ (TransferError(m) \/ StaleError(m))
    /\ Received(m)
    /\ UNCHANGED <<main_vars, session>>

-----------------------------------------------------------------------------
\* The TFTP server: a transfer for each RRQ, on a TID of its own.
Serve(t, m) ==
  \/ /\ m.op = "RRQ" /\ session[t] = Idle
     /\ IF m.file \in DOMAIN Stored
        THEN /\ session' = [session EXCEPT ![t] = [file |-> m.file, blk |-> 1]]
             /\ net' = (net \ {m}) \cup {DataMessage(t, 1, m.file)}
        ELSE /\ net' = (net \ {m}) \cup {ErrorFrom(t)}
             /\ UNCHANGED session
  \/ /\ m.op = "ACK" /\ m.tid = t
     /\ LET s == session[t] IN
        IF s = Idle \/ m.blk # s.blk
        THEN net' = net \ {m} /\ UNCHANGED session
        ELSE IF s.blk = LastBlock(s.file)
        THEN net' = net \ {m} /\ session' = [session EXCEPT ![t] = Idle]
        ELSE /\ session' = [session EXCEPT ![t].blk = s.blk + 1]
             /\ net' = (net \ {m}) \cup {DataMessage(t, s.blk + 1, s.file)}
  \/ /\ m.op = "ERROR" /\ m.tid = t
     /\ net' = net \ {m}
     /\ session' = [session EXCEPT ![t] = Idle]

Unchanged == reply' = NoReply /\ UNCHANGED <<engine_vars, main_vars, ctx_vars>>

Server == Unchanged /\ \E t \in Peers, m \in net : Serve(t, m)

\* What may go wrong: a datagram is lost; the server's timeout repeats a block
\* although it has arrived; the server gives up, or fails in mid-file.
Lose(m) == "loss" \in Faults /\ net' = net \ {m} /\ UNCHANGED session

Roomy == Cardinality(net) < NetCapacity

Retransmit(t) ==
  /\ Roomy /\ Faults \cap {"loss", "late"} # {} /\ session[t] # Idle
  /\ net' = net \cup {DataMessage(t, session[t].blk, session[t].file)}
  /\ UNCHANGED session

GiveUp(t) ==
  /\ Faults \cap {"loss", "reset"} # {} /\ session[t] # Idle /\ \A m \in net : m.tid # t
  /\ session' = [session EXCEPT ![t] = Idle]
  /\ UNCHANGED net

Abort(t) ==
  /\ Roomy /\ "abort" \in Faults /\ session[t] # Idle
  /\ session' = [session EXCEPT ![t] = Idle]
  /\ net' = net \cup {ErrorFrom(t)}

Fault ==
  /\ Unchanged
  /\ \/ \E m \in net : Lose(m)
     \/ \E t \in Peers : Retransmit(t) \/ Abort(t)

\* The server stops waiting for a client that does not answer.
ServerTimeout == Unchanged /\ \E t \in Peers : GiveUp(t)

ResetKeep ==      \* mutant: SegmentNumber survives, its buffer does not
  SegmentNumber' = SegmentNumber /\ PacketMode' = FALSE
ResetCache == SegmentNumber' = 0 /\ PacketMode' = FALSE

\* The gateway loses power, wherever it is, and starts again from its zeroed
\* memory; what was under way is gone, the server's transfers are not.
Reset ==
  /\ "reset" \in Faults
  /\ handle' = FALSE /\ last_data' = NoData /\ peer' = NoPeer
  /\ idle' = 0 /\ blknum' = 0 /\ retries' = 0 /\ mode_write' = FALSE
  /\ tftp_mode' \in IF "startup" \in Faults THEN {"client", "off"} ELSE {"client"}
  /\ timers' = 0 /\ reply' = NoReply /\ taken' = 0 /\ src' = {}
  /\ pc' = "listen" /\ phase' = "nabu" /\ stores' = {} /\ request' = NoRequest
  /\ handling_request' = FALSE /\ request_handled' = FALSE
  /\ PacketPrologSent' = FALSE /\ SegmentWritePtr' = 0 /\ PacketNumber' = 0
  /\ ResetCache
  /\ SegmentBuffer' = [i \in 0 .. MAXSEGMENTSIZE - 1 |-> Junk]
  /\ uart' = <<>> /\ net' = {}
  /\ UNCHANGED session

-----------------------------------------------------------------------------
GatewayNext ==
  NabuRequest \/ MainStep \/ Receive \/ Server \/ Fault \/ ServerTimeout \/ Reset

\* The main loop keeps running, lwIP delivers what has arrived, and the server
\* answers what reaches it and does not wait for ever.
GatewaySpec ==
  /\ GatewayStart /\ [][GatewayNext]_gateway_vars
  /\ WF_gateway_vars(MainStep) /\ WF_gateway_vars(Receive) /\ WF_gateway_vars(Server)
  /\ WF_gateway_vars(ServerTimeout)

-----------------------------------------------------------------------------
\* Type invariant of the globals of wifi.c and packet.c and of the network.
GatewayTypeOK ==
  /\ TftpTypeOK
  /\ pc \in {"listen", "get", "wait"}
  /\ phase \in {"nabu", "pak"}
  /\ stores \subseteq TftpStores
  /\ request \in Requests \cup {NoRequest}
  /\ handling_request \in BOOLEAN /\ request_handled \in BOOLEAN
  /\ PacketMode \in BOOLEAN /\ PacketPrologSent \in BOOLEAN
  /\ SegmentNumber \in Segments \cup {0}
  /\ SegmentWritePtr \in 0 .. MAXSEGMENTSIZE - 1
  /\ SegmentBuffer \in [0 .. MAXSEGMENTSIZE - 1 -> Bytes]
  /\ PacketNumber \in Packets \cup {0}

\* The lwIP callbacks write to the UART and to SegmentBuffer only while the
\* main loop waits inside handleRequest: when it is back to listening, where
\* it reads and writes the UART itself, no transfer is open that could still
\* do so, however many late, repeated or failed datagrams there were.
UartOwned == handle => pc # "listen" /\ handling_request

\* A listening gateway whose cache is valid (PacketMode == 0) holds exactly the
\* .nabu file of SegmentNumber: SegmentWritePtr bytes, all of that file.
CacheCoherent ==
  pc = "listen" /\ ~PacketMode /\ SegmentNumber # 0 =>
    /\ Nabu(SegmentNumber) \in DOMAIN Stored
    /\ SegmentWritePtr = Stored[Nabu(SegmentNumber)]
    /\ \A i \in 0 .. SegmentWritePtr - 1 :
         SegmentBuffer[i] = <<Nabu(SegmentNumber), i>>

\* The packet num of a stored segment, as the NABU must get it.
TruePacket(seg, num) ==
  LET size == Stored[Nabu(seg)]
      end == (num + 1) * MAXPAYLOAD
  IN  Packet(seg, num, end >= size,
             FileBytes(Nabu(seg), num * MAXPAYLOAD, IF end >= size THEN size ELSE end))

RawBytes(f) ==
  [b \in 1 .. LastBlock(f) |-> Raw(BlockBytes(f, b))]

\* What the NABU must be sent for r, with segment held at hand or just fetched:
\* its packet, else the .pak, else a refusal; nothing after the prolog when the
\* NABU did not acknowledge it.
Promise(r, held) ==
  IF IsTime(r)
  THEN {SendPacketized(TimePacket, ack) : ack \in BOOLEAN}
  ELSE IF Nabu(r.seg) \in DOMAIN Stored /\ held = r.seg
  THEN {SendPacketized(TruePacket(r.seg, r.pkt), ack) : ack \in BOOLEAN}
  ELSE IF Pak(r) \in DOMAIN Stored
  THEN {<<Auth>> \o RawBytes(Pak(r)) \o <<Epilog>>}
  ELSE {<<Refuse>>}

\* Silence, a prolog that is not acknowledged, or one packet.
AtOnce(sent) ==
  sent \in {<<>>, <<Auth>>} \/ (Len(sent) = 3 /\ sent = <<Auth, sent[2], Epilog>>)

AtHand == IF PacketMode THEN 0 ELSE SegmentNumber

InSegment(r) ==
  Nabu(r.seg) \in DOMAIN Stored => r.pkt * MAXPAYLOAD < Stored[Nabu(r.seg)]

\* Every request for a packet that exists, or for none, ends with its answer,
\* complete and from the right file, and nothing else on the line; and a
\* request for a first packet is answered from the segment if there is one.
CorrectAnswer ==
  pc = "listen" /\ request # NoRequest /\ InSegment(request) =>
    /\ uart \in Promise(request, AtHand)
    /\ request.pkt = 0 /\ ~IsTime(request) /\ Nabu(request.seg) \in DOMAIN Stored =>
         Cached(request)

\* Every request is served: the gateway is back to listening.
BackToListening == pc # "listen" ~> pc = "listen"

\* The gateway as the NABU sees it.
PacketService == INSTANCE Service WITH
  Proper <- {r \in Requests : InSegment(r)},
  serving <- pc # "listen", asked <- request, sent <- uart, held <- AtHand

\* Whatever happens to the network, to the server and to the power, the answer
\* to a request only grows, from nothing, and only while the request is served:
\* no callback, however late, adds to it or to another's; and the segment at
\* hand changes only with a request for another one.
TakesTurns == PacketService!TurnsSpec

\* With nothing but the power going wrong, the gateway is a service that keeps
\* its promise: at each moment the line carries the beginning of a right answer,
\* in the end all of it, and every request comes to its end.
KeepsPromise == PacketService!ServiceSpec
=============================================================================
